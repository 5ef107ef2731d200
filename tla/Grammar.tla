------------------------------ MODULE Grammar ------------------------------
(***************************************************************************)
(* The data that parselib passes from the grammar loader to the parsers:   *)
(* tokens, rules and the map of production rules                           *)
(* (datastructure/common_types.h).                                         *)
(*                                                                         *)
(* The code names everything with strings.  A name here is a non-empty     *)
(* sequence of atoms: <<A>> is a non-terminal the grammar's author wrote,  *)
(* <<Dotted[t]>> the key "t." that TERM makes for the token t, and a       *)
(* longer sequence is the key "x/y/z" that BIN makes by joining the names  *)
(* of a rule's tail with slashes.                                          *)
(***************************************************************************)
EXTENDS Naturals, Sequences, FiniteSets

CONSTANTS
  NonTerminal,  \* the names an author may give to a rule
  Terminal,     \* the names of the tokens of the language
  Dotted,       \* Dotted[t] is the name of the rule that produces the token t
  Empty,        \* the value of the empty operand, '' in a grammar file
  Axiom         \* the name AXIOM

\* The lexer of grammar files keeps these apart: a non-terminal is a word, a
\* token's name ends with a dot, and the empty operand is a pair of quotes.
ASSUME NamesAssumption ==
  /\ Axiom \in NonTerminal
  /\ Empty \notin NonTerminal
  /\ \A t \in Terminal : Dotted[t] \notin NonTerminal \cup {Empty}
  /\ \A t, u \in Terminal : Dotted[t] = Dotted[u] => t = u

Atom == NonTerminal \cup {Dotted[t] : t \in Terminal} \cup {Empty}

Name == Seq(Atom) \ {<<>>}

Simple(name) == Len(name) = 1

-----------------------------------------------------------------------------
(* Operands: a value and a type, as in class Token.                         *)

TerminalOperand(t) == [value |-> <<t>>, type |-> "TERMINAL"]

NameOperand(name) == [value |-> name, type |-> "NONTERMINAL"]

EmptyOperand == [value |-> <<Empty>>, type |-> "EMPTY"]

TerminalOperands == [value : {<<t>> : t \in Terminal}, type : {"TERMINAL"}]

\* What a grammar file can put on a right hand side.
SourceOperand ==
  TerminalOperands
    \cup [value : {<<A>> : A \in NonTerminal}, type : {"NONTERMINAL"}]
    \cup {EmptyOperand}

Operand ==
  TerminalOperands \cup [value : Name, type : {"NONTERMINAL"}] \cup {EmptyOperand}

(* ProductionRules: a map from a name to its alternatives, in file order.   *)

Rule == Seq(Operand)

NoRules == [name \in {} |-> <<>>]

IsSource(g) == /\ DOMAIN g \subseteq {<<A>> : A \in NonTerminal}
               /\ \A name \in DOMAIN g : g[name] \in Seq(Seq(SourceOperand))

IsProductionRules(g) == /\ DOMAIN g \subseteq Name
                        /\ \A name \in DOMAIN g : g[name] \in Seq(Rule)

Alternatives(g, name) == {g[name][n] : n \in DOMAIN g[name]}

\* No two alternatives of a name are read alike: as the same token, or by the
\* values of two operands, which are all that getrulenames compares.
Unrepeated(g) ==
  \A name \in DOMAIN g : \A m, n \in DOMAIN g[name] :
    (\/ g[name][m] = g[name][n]
     \/ /\ Len(g[name][m]) > 1 /\ Len(g[name][n]) > 1
        /\ g[name][m][1].value = g[name][n][1].value
        /\ g[name][m][2].value = g[name][n][2].value)
      => m = n

\* normalForm[name], which operator[] creates empty when it is missing.
RulesAt(g, name) == IF name \in DOMAIN g THEN g[name] ELSE <<>>

\* `if (normalForm.find(name) == normalForm.end()) normalForm[name] = Rules()`
Declare(g, name) == [m \in DOMAIN g \cup {name} |-> RulesAt(g, m)]

\* `normalForm[name].push_back(rule)`
PushRule(g, name, rule) ==
  [m \in DOMAIN g \cup {name} |->
     IF m = name THEN Append(RulesAt(g, m), rule) ELSE g[m]]

\* keeper["all"]: what any rule keeps.
All == <<"all">>

\* A rule keeps the labels of its operands.
LabelsAreKept(labelled, kept) ==
  \A name \in DOMAIN labelled :
    /\ name \in DOMAIN kept
    /\ \A operand \in DOMAIN labelled[name] : labelled[name][operand] \in kept[name]

\* What the session looks up: a label is found in the keeper of its rule, and what
\* any rule keeps under "all".
NotesFit(notes) ==
  /\ LabelsAreKept(notes.labels, notes.keeper)
  /\ \A name \in DOMAIN notes.keeper :
       All \in DOMAIN notes.keeper /\ notes.keeper[name] \subseteq notes.keeper[All]

IsEmptyRule(rule) == Len(rule) = 1 /\ rule[1].type = "EMPTY"

=============================================================================
