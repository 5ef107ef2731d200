------------------------------- MODULE LRZero -------------------------------
(***************************************************************************)
(* parsers::LR_zero (parsers/lr_zero.cpp): the constructor builds a graph  *)
(* of closures and a table of cells from a grammar as it was loaded, and   *)
(* membership reads a word with them.                                      *)
(*                                                                         *)
(* An item is a rule and the number of its operands that were passed; it   *)
(* does not know the name of its rule.  A closure is compared by its items *)
(* in their order.  A label is the number the code writes as text, and     *)
(* NoState the empty text that get_shift and get_goto return.              *)
(***************************************************************************)
EXTENDS Grammar, Integers, SubSequences

CONSTANTS
  Grammars,  \* what is loaded: records of production_rules and tokens
  Sentences  \* the token types of the words that membership is called with

End == "$"

NoState == -1

\* The first rule of AXIOM is the name on an AXIOM line.
ASSUME GrammarsAssumption ==
  \A g \in Grammars :
    /\ IsSource(g.rules) /\ IsFiniteSet(DOMAIN g.rules)
    /\ RulesAt(g.rules, <<Axiom>>) # <<>> =>
         \E A \in NonTerminal : g.rules[<<Axiom>>][1] = <<NameOperand(<<A>>)>>
    /\ g.tokens \in Seq(Terminal)

ASSUME SentencesAssumption ==
  Sentences \subseteq Seq(Terminal) /\ End \notin Terminal \cup NonTerminal

VARIABLES
  rules,      \* production_rules
  tokens,     \* the types of the grammar's tokens; a type may stand twice
  graph,      \* m_graph: closures with their labels and transitions
  worklist,   \* build_graph's stack, of which only the items matter
  clos,       \* the copy of the closure whose items are being walked
  current,    \* the place of current_item in it
  j,          \* the next label
  action,     \* m_action: the cells of a label
  word,       \* the word, with the end token
  word_it,    \* the place of the next token
  stack,      \* the nodes
  positions,  \* the labels; current_state is the last
  cells,      \* what is left of the range of cells that is being taken
  pc          \* the part that runs, or how it ended

vars == <<rules, tokens, graph, worklist, clos, current, j, action,
          word, word_it, stack, positions, cells, pc>>

input == <<rules, tokens>>

walk == <<worklist, clos, current, j>>

reading == <<word, word_it, stack, positions, cells>>

-----------------------------------------------------------------------------
(* Items.                                                                   *)

AnItem == [rule : Seq(SourceOperand), position : Nat]

Item(rule) == [rule |-> rule, position |-> 0]

Items(alternatives) == [n \in DOMAIN alternatives |-> Item(alternatives[n])]

Done(item) == item.position >= Len(item.rule)

ReadItem(item) == item.rule[item.position + 1]

Moved(item) == IF Done(item) THEN item ELSE [item EXCEPT !.position = @ + 1]

-----------------------------------------------------------------------------
(* make_closure.                                                            *)

\* The names that occur anywhere in the alternatives.
NamesIn(alternatives, processed) ==
  LET operands == FlattenSeq(alternatives)
  IN  Pick([m \in DOMAIN operands |-> operands[m].value],
           {m \in DOMAIN operands : /\ operands[m].type = "NONTERMINAL"
                                    /\ operands[m].value \notin processed})

\* What the loop works on: the closure, q and processed.
Work == [items : Seq(AnItem), q : Seq({<<A>> : A \in NonTerminal}),
         processed : SUBSET {<<A>> : A \in NonTerminal}]

\* One round takes the name at the back of q.
TakeName(w) ==
  LET name == Last(w.q)
      alternatives == RulesAt(rules, name)
  IN  IF name \in w.processed THEN [w EXCEPT !.q = Front(@)]
      ELSE [items     |-> w.items \o Items(alternatives),
            q         |-> Front(w.q) \o NamesIn(alternatives, w.processed),
            processed |-> w.processed \cup {name}]

\* The loop over q, which is read from its back.
Expand[w \in Work] == IF w.q = <<>> THEN w.items ELSE Expand[TakeName(w)]

\* A fault: the names in the alternatives are not expanded in their turn.
MakeClosureOneLevel(item) ==
  IF Done(item) THEN <<item>>
  ELSE LET token == ReadItem(item)
       IN  CASE token.type = "EMPTY"    -> <<>>
             [] token.type = "TERMINAL" -> <<item>>
             [] OTHER -> <<item>> \o Items(RulesAt(rules, token.value))

\* No items at all when the next operand is the empty one.
MakeClosure(item) ==
  IF Done(item) THEN <<item>>
  ELSE LET token == ReadItem(item)
       IN  CASE token.type = "EMPTY"    -> <<>>
             [] token.type = "TERMINAL" -> <<item>>
             [] OTHER -> Expand[[items |-> <<item>>, q |-> <<token.value>>, processed |-> {}]]

-----------------------------------------------------------------------------
(* The graph.                                                               *)

Known(items) == \E m \in DOMAIN graph : graph[m].items = items

NoTransitions == [value \in {} |-> NoState]

State(label, items) == [label |-> label, items |-> items, transitions |-> NoTransitions]

\* The pairs of an item and a state that has the item moved on: the transitions
\* that are put in the map, first the item's place and then the state's.
Leads(items, value) ==
  {e \in (DOMAIN items) \X (DOMAIN graph) :
     /\ ~ Done(items[e[1]])
     /\ ReadItem(items[e[1]]).value = value
     /\ Moved(items[e[1]]) \in Range(graph[e[2]].items)}

\* The map is keyed by the value of the token only, and emplace keeps what is
\* there.
TransitionsOf(items) ==
  LET values == {v \in {ReadItem(i).value : i \in {x \in Range(items) : ~ Done(x)}} :
                   Leads(items, v) # {}}
      First(E) == CHOOSE e \in E : \A f \in E : e[1] < f[1] \/ (e[1] = f[1] /\ e[2] <= f[2])
  IN  [v \in values |->
         LET first == First(Leads(items, v))
         IN  [type |-> ReadItem(items[first[1]]).type, label |-> graph[first[2]].label]]

-----------------------------------------------------------------------------
(* The table.                                                               *)

\* The key "A:n" of flat_prod.
FlatKey(name, n) == Append(name, n - 1)

\* get_reduction
Reductions(c) ==
  {e \in UNION {{<<name, n>> : n \in DOMAIN rules[name]} : name \in DOMAIN rules} :
     \E m \in DOMAIN c.items : Done(c.items[m]) /\ c.items[m].rule = rules[e[1]][e[2]]}

IsReduceAction(c) == DOMAIN c.transitions = {}

\* get_shift and get_goto
Target(c, value, type) ==
  IF value \in DOMAIN c.transitions /\ c.transitions[value].type = type
  THEN c.transitions[value].label ELSE NoState

\* A multimap may hold equal cells: those of one token differ by the token's place.
Cell(key, act, item, place) == [key |-> key, action |-> act, item |-> item, place |-> place]

\* One cell for every token of the list, however often its type was defined.
ActionCells(c) ==
  CASE c.label = 1 -> {Cell(<<End>>, "accepted", NoState, 0)}
    [] c.label # 1 /\ IsReduceAction(c) ->
         {Cell(<<tokens[n]>>, "reduce", reduction, n) :
            n \in DOMAIN tokens, reduction \in Reductions(c)}
    [] OTHER ->
         {Cell(<<tokens[n]>>, "shift", Target(c, <<tokens[n]>>, "TERMINAL"), n) :
            n \in DOMAIN tokens}

\* Every name that a transition reads is a key of production_rules by now:
\* make_closure looked it up with operator[].
GotoCells(c) ==
  {Cell(name, "goTo", Target(c, name, "NONTERMINAL"), 0) :
     name \in {v \in DOMAIN c.transitions :
                v # <<Axiom>> /\ Target(c, v, "NONTERMINAL") # NoState}}

\* m_action[state].equal_range(key)
CellsOf(state, key) ==
  IF state \in DOMAIN action THEN {cell \in action[state] : cell.key = key} ELSE {}

-----------------------------------------------------------------------------
(* Construction.                                                            *)

\* The constructor up to the loop over the worklist.  Without a rule for AXIOM
\* at(0) throws; without any rule there is nothing to build.
StartGraph ==
  \/ /\ DOMAIN rules = {}
     /\ graph = <<>> /\ worklist = <<>> /\ j = 0 /\ pc = "graph"
  \/ /\ DOMAIN rules # {}
     /\ RulesAt(rules, <<Axiom>>) = <<>>
     /\ graph = <<>> /\ worklist = <<>> /\ j = 0 /\ pc = "throws"
  \/ /\ RulesAt(rules, <<Axiom>>) # <<>>
     /\ LET i0 == MakeClosure(Item(rules[<<Axiom>>][1]))
        IN  graph = <<State(0, i0)>> /\ worklist = <<i0>>
     /\ j = 1
     /\ pc = "graph"

Init ==
  /\ \E g \in Grammars : rules = g.rules /\ tokens = g.tokens
  /\ StartGraph
  /\ clos = <<>> /\ current = 1
  /\ action = [label \in {} |-> {}]
  /\ word = <<>> /\ word_it = 1
  /\ stack = <<>> /\ positions = <<>> /\ cells = {}

\* The next round of the outer loop, with a copy of the newest closure.
TakeClosure ==
  /\ pc = "graph"
  /\ worklist # <<>>
  /\ clos' = Last(worklist)
  /\ current' = 1
  /\ pc' = "walk"
  /\ UNCHANGED <<input, graph, worklist, j, action, reading>>

\* A fault: an item is moved once, the rest is left to the closure it made.
WalkOnce ==
  /\ pc = "walk"
  /\ current <= Len(clos)
  /\ ~ Done(clos[current])
  /\ LET item == Moved(clos[current])
         newest == MakeClosure(item)
     IN  /\ clos' = [clos EXCEPT ![current] = item]
         /\ pc' = "last"
         /\ IF newest = <<>> \/ Known(newest)
            THEN UNCHANGED <<graph, worklist>>
            ELSE /\ graph' = Append(graph, State(j, newest))
                 /\ worklist' = Append(worklist, newest)
  /\ j' = j + 1
  /\ UNCHANGED <<input, current, action, reading>>

\* One round of the loop that moves an item to its end.  It breaks off in front
\* of an empty operand.
WalkItem ==
  /\ pc = "walk"
  /\ current <= Len(clos)
  /\ ~ Done(clos[current])
  /\ LET item == Moved(clos[current])
         newest == MakeClosure(item)
     IN  /\ clos' = [clos EXCEPT ![current] = item]
         /\ pc' = (IF newest = <<>> THEN "last" ELSE pc)
         /\ IF newest = <<>> \/ Known(newest)
            THEN UNCHANGED <<graph, worklist>>
            ELSE /\ graph' = Append(graph, State(j, newest))
                 /\ worklist' = Append(worklist, newest)
  /\ j' = j + 1
  /\ UNCHANGED <<input, current, action, reading>>

\* Closure::last_state of the item where the walk left it.
AddLastState ==
  /\ \/ pc = "last"
     \/ pc = "walk" /\ current <= Len(clos) /\ Done(clos[current])
  /\ graph' = (IF Known(<<clos[current]>>) THEN graph
               ELSE Append(graph, State(j, <<clos[current]>>)))
  /\ current' = current + 1
  /\ j' = j + 1
  /\ pc' = "walk"
  /\ UNCHANGED <<input, worklist, clos, action, reading>>

\* pop_back takes the newest closure off, which is the one that was walked only
\* if the walk found no new one.
DropNewest ==
  /\ pc = "walk"
  /\ current > Len(clos)
  /\ worklist' = Front(worklist)
  /\ pc' = "graph"
  /\ UNCHANGED <<input, graph, clos, current, j, action, reading>>

GetTransitions ==
  /\ pc = "graph"
  /\ worklist = <<>>
  /\ graph' = [m \in DOMAIN graph |->
                 [graph[m] EXCEPT !.transitions = TransitionsOf(graph[m].items)]]
  /\ pc' = "table"
  /\ UNCHANGED <<input, walk, action, reading>>

\* get_reduction throws when a state without transitions completes no rule.
BuildTable ==
  /\ pc = "table"
  /\ IF \E m \in DOMAIN graph : /\ graph[m].label # 1
                                /\ IsReduceAction(graph[m])
                                /\ Reductions(graph[m]) = {}
     THEN pc' = "throws" /\ UNCHANGED action
     ELSE /\ action' = [label \in {graph[m].label : m \in DOMAIN graph} |->
               LET c == CHOOSE x \in Range(graph) : x.label = label
               IN  ActionCells(c) \cup GotoCells(c)]
          /\ pc' = "built"
  /\ UNCHANGED <<input, graph, walk, reading>>

-----------------------------------------------------------------------------
(* membership.                                                              *)

TokenNode(type, place) == [kind |-> "token", nodetype |-> <<type>>, leaves |-> <<place>>]

KNode(key, leaves) == [kind |-> "k", nodetype |-> key, leaves |-> leaves]

\* The token "^" at the bottom; it stands for no token of the word.
Begin == [kind |-> "token", nodetype |-> <<"Begin">>, leaves |-> <<>>]

Call ==
  /\ pc = "built"
  /\ \E w \in Sentences :
       /\ Range(w) \subseteq Range(tokens)
       /\ word' = Append(w, End)
  /\ word_it' = 1
  /\ stack' = <<Begin>>
  /\ positions' = <<0>>
  /\ cells' = {}
  /\ pc' = "membership"
  /\ UNCHANGED <<input, graph, walk, action>>

\* The header of the outer loop.
LookUp ==
  /\ pc = "membership"
  /\ cells = {}
  /\ word_it <= Len(word)
  /\ cells' = CellsOf(Last(positions), <<word[word_it]>>)
  /\ UNCHANGED <<input, graph, walk, action, word, word_it, stack, positions, pc>>

Return ==
  /\ pc = "membership"
  /\ cells = {}
  /\ word_it > Len(word)
  /\ pc' = "returned"
  /\ UNCHANGED <<input, graph, walk, action, reading>>

\* A fault: the label of a node that is popped stays.
PopOperandOnly(acc, operand) ==
  IF operand.value # Last(acc.stack).nodetype THEN acc
  ELSE [stack     |-> Front(acc.stack),
        positions |-> acc.positions,
        leaves    |-> acc.leaves \o Last(acc.stack).leaves]

\* The operands are compared with the top of the stack from the first one on;
\* one that differs is passed over.
PopOperand(acc, operand) ==
  IF operand.value # Last(acc.stack).nodetype THEN acc
  ELSE [stack     |-> Front(acc.stack),
        positions |-> Front(acc.positions),
        leaves    |-> acc.leaves \o Last(acc.stack).leaves]

Popped(rule) ==
  LET after[n \in 0..Len(rule)] ==
        IF n = 0 THEN [stack |-> stack, positions |-> positions, leaves |-> <<>>]
        ELSE PopOperand(after[n - 1], rule[n])
  IN  after[Len(rule)]

\* reduce_fn and the look at the goto table.  The node is named after the key
\* of the flat map, the cells after the rule: nothing is found.
Reduce(reduction) ==
  LET rule == rules[reduction[1]][reduction[2]]
      key  == FlatKey(reduction[1], reduction[2])
      left == Popped(rule)
      gotos == SetToSeq(CellsOf(Last(left.positions), key))
  IN  IF rule = <<>> \/ Len(rule) >= Len(stack)
      THEN pc' = "throws" /\ UNCHANGED <<stack, positions, word_it>>
      ELSE /\ stack' = Append(left.stack, KNode(key, left.leaves))
           /\ positions' = left.positions \o [m \in DOMAIN gotos |-> gotos[m].item]
           /\ UNCHANGED <<word_it, pc>>

\* Behind the end of the word there is no token to shift.
Shift(label) ==
  IF word_it > Len(word)
  THEN pc' = "undefined" /\ UNCHANGED <<stack, positions, word_it>>
  ELSE /\ stack' = Append(stack, TokenNode(word[word_it], word_it))
       /\ positions' = Append(positions, label)
       /\ word_it' = word_it + 1
       /\ UNCHANGED pc

\* One cell of the range, which was read before the cells that were taken
\* already changed the state.  The order of an unordered_multimap is open.
TakeCell ==
  /\ pc = "membership"
  /\ \E cell \in cells :
       /\ cells' = cells \ {cell}
       /\ CASE cell.action = "shift"    -> Shift(cell.item)
            [] cell.action = "reduce"   -> Reduce(cell.item)
            [] cell.action = "accepted" ->
                 pc' = "returned" /\ UNCHANGED <<stack, positions, word_it>>
            [] cell.action = "goTo"     ->
                 pc' = "throws" /\ UNCHANGED <<stack, positions, word_it>>
  /\ UNCHANGED <<input, graph, walk, action, word>>

Ended ==
  /\ pc \in {"throws", "returned", "undefined"}
  /\ UNCHANGED vars

Next ==
  \/ TakeClosure
  \/ WalkItem
  \/ AddLastState
  \/ DropNewest
  \/ GetTransitions
  \/ BuildTable
  \/ Call
  \/ LookUp
  \/ Return
  \/ TakeCell
  \/ Ended

\* One thread.  Where a state has no cell for the token, LookUp is repeated for
\* ever.
Spec == Init /\ [][Next]_vars

-----------------------------------------------------------------------------
(* Properties.                                                              *)

\* Once the graph is built, a state that is about to read a name has all the
\* name's alternatives from their start, and every item but one in front of an
\* empty operand has the item behind it in some state.  make_closure follows
\* names with two lists, and build_graph takes the wrong closure off its
\* worklist: neither loses anything.
GraphIsComplete ==
  pc = "table" =>
    \A m \in DOMAIN graph : \A item \in Range(graph[m].items) :
      (~ Done(item) /\ ReadItem(item).type # "EMPTY") =>
        /\ \E o \in DOMAIN graph : Moved(item) \in Range(graph[o].items)
        /\ ReadItem(item).type = "NONTERMINAL" =>
             \A rule \in Range(RulesAt(rules, ReadItem(item).value)) :
               Item(rule) \in Range(graph[m].items)

\* The constructor refuses a grammar only if it has no axiom, or has an empty
\* operand behind another one.
RefusesOnlyInnerEmpty ==
  (pc = "throws" /\ word = <<>>) =>
    \/ RulesAt(rules, <<Axiom>>) = <<>>
    \/ \E name \in DOMAIN rules : \E rule \in Alternatives(rules, name) :
         \E p \in 2..Len(rule) : rule[p].type = "EMPTY"

\* The two stacks stay in step: there is a label for the start and for each
\* token node, so that the last one can always be read, and every token that
\* was shifted is in one node of the stack.  Reductions pop both stacks for
\* some operands only, and one range of cells may hold several of them.  The
\* node of a reduction has no label, because no goto is ever found.
StacksInStep ==
  pc \in {"membership", "returned"} =>
    LET leaves == FlattenSeq([m \in DOMAIN stack |-> stack[m].leaves])
    IN  /\ Len(positions) = Cardinality({m \in DOMAIN stack : stack[m].kind = "token"})
        /\ Range(leaves) = 1..(word_it - 1)
        /\ Len(leaves) = word_it - 1

\* "after reduction, check goto table for next state": a node that a reduction
\* left on top has its label, unless the goto table has none for its name.
GotosAreTaken ==
  (pc = "membership" /\ Last(stack).kind = "k") =>
    \/ Len(positions) = Len(stack)
    \/ \A cell \in CellsOf(Last(positions), Front(Last(stack).nodetype)) :
         cell.action # "goTo"

=============================================================================
