-------------------------- MODULE SequentialParser --------------------------
(***************************************************************************)
(* parsers::SequentialParser (parsers/seqparsers.cpp): how the tokens of a *)
(* grammar file become production rules, labels and keeping lists.         *)
(*                                                                         *)
(* The parser reads two lists with a cursor each.  parsedtokens are the    *)
(* tokens of the file; grammar is what a second lexer makes of the text of *)
(* their types: "NONTERMINAL EQUAL" becomes LSIDE, "TERMINAL REGEX" TOKEN  *)
(* and so on, and what fits no pattern is skipped.  Nothing but counting   *)
(* keeps op_count and tok_count at corresponding places.                   *)
(*                                                                         *)
(* A token's value is a name (module Grammar); a token has its final dot,  *)
(* <<Dotted[t]>>, until clean_if_terminal takes it off.  The prefix "x="   *)
(* of an operand or of s: is the field label.  Files write rules with ->   *)
(* and have no label behind an operator, and no = in regexes and comments. *)
(***************************************************************************)
EXTENDS Grammar, SubSequences

CONSTANT Files  \* the token lists that grammar files may be lexed to

NoLabel == <<>>

OperandTypes == {"TERMINAL", "NONTERMINAL", "EMPTY"}

Operators == {"EXCL", "STR", "LIST", "LISTOP"}

Separators == {"AXIOM", "EQUAL", "OR", "LINECOMMENT", "REGEX", "COMMA", "LPAR", "RPAR"}

IsToken(token) ==
  /\ token.type \in OperandTypes \cup Operators \cup Separators
  /\ token.type = "NONTERMINAL" => token.value \in {<<A>> : A \in NonTerminal \ {Axiom}}
  /\ token.type = "TERMINAL" => token.value \in {<<Dotted[t]>> : t \in Terminal}
  /\ token.label \in {NoLabel} \cup {<<A>> : A \in NonTerminal}
  /\ token.label # NoLabel => token.type \in {"TERMINAL", "NONTERMINAL", "STR"}

IsFile(file) == file \in Seq(Range(file)) /\ \A token \in Range(file) : IsToken(token)

ASSUME FilesAssumption == \A file \in Files : IsFile(file)

VARIABLES
  parsedtokens,      \* the tokens of the file
  grammar,           \* the types of the tokens of the second lexer
  op_count,          \* cursor in grammar, from 0
  tok_count,         \* cursor in parsedtokens, from 0
  axiomflag,         \* no AXIOM line was read yet
  current_rule,      \* the rule that operands are added to
  production_rules,
  labels,            \* per rule: the label of an operand
  keeper,            \* per rule: the names whose values are kept
  strnodes,          \* per rule: the operands whose text is kept
  tokens,            \* the lexer patterns that the file defines
  at                 \* the check that runs next, or how the parse ended

vars == <<parsedtokens, grammar, op_count, tok_count, axiomflag, current_rule,
          production_rules, labels, keeper, strnodes, tokens, at>>

input == <<parsedtokens, grammar>>

notes == <<labels, keeper, strnodes>>

-----------------------------------------------------------------------------
(* The second lexer, on the types of the tokens from place p on.            *)

TypesAt(file, p, types) ==
  /\ p \in DOMAIN file
  /\ p + Len(types) - 1 \in DOMAIN file
  /\ \A q \in DOMAIN types : file[p + q - 1].type = types[q]

AxiomAt(file, p) == TypesAt(file, p, <<"AXIOM", "EQUAL", "NONTERMINAL">>)

TokenAt(file, p) == TypesAt(file, p, <<"TERMINAL", "REGEX">>)

LeftSideAt(file, p) ==
  TypesAt(file, p, <<"NONTERMINAL", "EQUAL">>) /\ ~ AxiomAt(file, p - 2)

\* The place belongs to the match that starts before it.
Inside(file, p) ==
  \/ AxiomAt(file, p - 1) \/ AxiomAt(file, p - 2)
  \/ TokenAt(file, p - 1) \/ LeftSideAt(file, p - 1)

NoMatch == "no match"

\* The match that starts at the place.
Match(file, p) ==
  IF Inside(file, p) THEN NoMatch
  ELSE CASE AxiomAt(file, p)    -> "AXIOM"
         [] TokenAt(file, p)    -> "TOKEN"
         [] LeftSideAt(file, p) -> "LSIDE"
         [] OTHER -> CASE file[p].type \in {"OR", "LINECOMMENT"}       -> file[p].type
                       [] file[p].type \in OperandTypes \cup Operators -> "RSIDE"
                       [] OTHER                                       -> NoMatch

\* The places where matches start.
MatchPlaces(file) == {p \in Nat : p \in DOMAIN file /\ Match(file, p) # NoMatch}

\* The same, in order.
Starts(file) == Enumerate(MatchPlaces(file), Len(file))

SecondLexer(file) == Pick([p \in DOMAIN file |-> Match(file, p)], MatchPlaces(file))

-----------------------------------------------------------------------------
(* Helpers.                                                                 *)

\* clean_if_terminal
Clean(value) ==
  IF \E t \in Terminal : value = <<Dotted[t]>>
  THEN <<CHOOSE t \in Terminal : value = <<Dotted[t]>>>>
  ELSE value

AsOperand(token) ==
  [value |-> IF token.type = "TERMINAL" THEN Clean(token.value) ELSE token.value,
   type  |-> token.type]

\* map[name], empty when the name is missing.
SetAt(map, name) == IF name \in DOMAIN map THEN map[name] ELSE {}

AddTo(map, name, set) ==
  [m \in DOMAIN map \cup {name} |-> IF m = name THEN SetAt(map, m) \cup set ELSE map[m]]

\* labels[current_rule][operand] = label
PutLabel(map, name, operand, label) ==
  [m \in DOMAIN map \cup {name} |->
     IF m # name THEN map[m]
     ELSE [o \in {operand} \cup (IF m \in DOMAIN map THEN DOMAIN map[m] ELSE {}) |->
             IF o = operand THEN label ELSE map[m][o]]]

\* `production_rules[name].back() = rule`; the rules are not empty.
ReplaceLast(g, name, rule) == [g EXCEPT ![name] = Append(Front(@), rule)]

AddOperand(g, name, operand) ==
  IF RulesAt(g, name) = <<>>
  THEN PushRule(g, name, <<operand>>)
  ELSE ReplaceLast(g, name, Append(Last(g[name]), operand))

\* eliminatedoubles, for the alternatives of one key.
WithoutDoubles(alternatives) ==
  Pick(alternatives,
       {n \in DOMAIN alternatives : \A m \in 1..(n - 1) : alternatives[m] # alternatives[n]})

-----------------------------------------------------------------------------

StillParsing == op_count < Len(grammar)

Op(type) == StillParsing /\ grammar[op_count + 1] = type

Tok == parsedtokens[tok_count + 1]

\* A fault: the last token of the file is taken to be behind its end.
HasNextTokShort == tok_count + 2 < Len(parsedtokens)

\* parsedtokens[j + 1] is in the list.
HasNextTok == tok_count + 2 <= Len(parsedtokens)

NextTok == parsedtokens[tok_count + 2]

Advance(ops, toks) ==
  /\ op_count' = op_count + ops
  /\ tok_count' = tok_count + toks

\* A parser is made for the tokens of a file.
Start(file) ==
  /\ parsedtokens' = file
  /\ grammar' = SecondLexer(file)
  /\ op_count' = 0 /\ tok_count' = 0
  /\ axiomflag' = TRUE
  /\ current_rule' = <<>>
  /\ production_rules' = NoRules
  /\ labels' = NoRules /\ keeper' = [name \in {All} |-> {}] /\ strnodes' = NoRules
  /\ tokens' = <<>>
  /\ at' = "check_axiom"

Init ==
  /\ parsedtokens \in Files
  /\ grammar = SecondLexer(parsedtokens)
  /\ op_count = 0 /\ tok_count = 0
  /\ axiomflag = TRUE
  /\ current_rule = <<>>
  /\ production_rules = NoRules
  /\ labels = NoRules /\ keeper = [name \in {All} |-> {}] /\ strnodes = NoRules
  /\ tokens = <<>>
  /\ at = "check_axiom"

\* A fault: the name on the right of AXIOM is not passed over.
CheckAxiomShort ==
  /\ at = "check_axiom" /\ StillParsing
  /\ IF Op("AXIOM") /\ axiomflag
     THEN /\ production_rules' = [m \in DOMAIN production_rules \cup {<<Axiom>>} |->
               IF m = <<Axiom>> THEN <<<<AsOperand(parsedtokens[tok_count + 3])>>>>
               ELSE production_rules[m]]
          /\ axiomflag' = FALSE
          /\ Advance(1, 2)
     ELSE UNCHANGED <<production_rules, axiomflag, op_count, tok_count>>
  /\ at' = "check_left_side"
  /\ UNCHANGED <<input, current_rule, notes, tokens>>

\* A second AXIOM line fails the test and is not passed over by any check.
CheckAxiom ==
  /\ at = "check_axiom" /\ StillParsing
  /\ IF Op("AXIOM") /\ axiomflag
     THEN /\ production_rules' = [m \in DOMAIN production_rules \cup {<<Axiom>>} |->
               IF m = <<Axiom>> THEN <<<<AsOperand(parsedtokens[tok_count + 3])>>>>
               ELSE production_rules[m]]
          /\ axiomflag' = FALSE
          /\ Advance(1, 3)
     ELSE UNCHANGED <<production_rules, axiomflag, op_count, tok_count>>
  /\ at' = "check_left_side"
  /\ UNCHANGED <<input, current_rule, notes, tokens>>

CheckLeftSide ==
  /\ at = "check_left_side"
  /\ IF Op("LSIDE")
     THEN /\ current_rule' = Tok.value
          /\ production_rules' = Declare(production_rules, Tok.value)
          /\ Advance(1, 2)
     ELSE UNCHANGED <<current_rule, production_rules, op_count, tok_count>>
  /\ at' = "check_right_side"
  /\ UNCHANGED <<input, axiomflag, notes, tokens>>

-----------------------------------------------------------------------------
(* check_right_side: one iteration of its loop per step.                    *)

RightSide(type) ==
  /\ at = "check_right_side"
  /\ Op("RSIDE")
  /\ Tok.type \in type
  /\ Advance(1, 1)
  /\ UNCHANGED <<input, axiomflag, current_rule, tokens, at>>

\* s: or label=s:, before the operand whose text is kept.  The label is filed
\* under the operand as it is written, with the dot of a token.
KeepAsText ==
  /\ RightSide({"STR"})
  /\ HasNextTok
  /\ strnodes' = AddTo(strnodes, current_rule, {Clean(NextTok.value)})
  /\ keeper' = AddTo(keeper, current_rule,
                 {Clean(NextTok.value)} \cup ({Tok.label} \ {NoLabel}))
  /\ labels' = (IF Tok.label = NoLabel THEN labels
                ELSE PutLabel(labels, current_rule, NextTok.value, Tok.label))
  /\ UNCHANGED production_rules

\* !, before the operand whose value is kept under its own name.
Keep ==
  /\ RightSide({"EXCL"})
  /\ HasNextTok
  /\ LET name == Clean(NextTok.value)
     IN  /\ labels' = PutLabel(labels, current_rule, name, name)
         /\ keeper' = AddTo(keeper, current_rule, {name})
  /\ UNCHANGED <<production_rules, strnodes>>

\* [] or __list__: the alternative it stands in becomes a pair of the rule.
MakeList ==
  /\ RightSide({"LIST"})
  /\ RulesAt(production_rules, current_rule) # <<>>
  /\ production_rules' = ReplaceLast(production_rules, current_rule,
       <<NameOperand(current_rule), NameOperand(current_rule)>>)
  /\ UNCHANGED notes

\* name=list(...): only printed.
MakeListOp ==
  /\ RightSide({"LISTOP"})
  /\ UNCHANGED <<production_rules, notes>>

\* A fault: the operand opens an alternative of its own.
AddOwnAlternative ==
  /\ RightSide(OperandTypes \cup Separators)
  /\ production_rules' = PushRule(production_rules, current_rule, <<AsOperand(Tok)>>)
  /\ IF Tok.label = NoLabel THEN UNCHANGED <<labels, keeper>>
     ELSE /\ labels' = PutLabel(labels, current_rule, AsOperand(Tok).value, Tok.label)
          /\ keeper' = AddTo(keeper, current_rule, {Tok.label})
  /\ UNCHANGED strnodes

\* A fault: the label is filed, but not kept.
AddUnkept ==
  /\ RightSide(OperandTypes \cup Separators)
  /\ production_rules' = AddOperand(production_rules, current_rule, AsOperand(Tok))
  /\ IF Tok.label = NoLabel THEN UNCHANGED labels
     ELSE labels' = PutLabel(labels, current_rule, AsOperand(Tok).value, Tok.label)
  /\ UNCHANGED <<keeper, strnodes>>

\* Any other token, also one that only the cursors' disagreement brought here.
AddToRule ==
  /\ RightSide(OperandTypes \cup Separators)
  /\ production_rules' = AddOperand(production_rules, current_rule, AsOperand(Tok))
  /\ IF Tok.label = NoLabel THEN UNCHANGED <<labels, keeper>>
     ELSE /\ labels' = PutLabel(labels, current_rule, AsOperand(Tok).value, Tok.label)
          /\ keeper' = AddTo(keeper, current_rule, {Tok.label})
  /\ UNCHANGED strnodes

\* The operator reads a token behind the end of the list, or [] the last of no
\* alternatives: undefined.
RightSideUndefined ==
  /\ at = "check_right_side"
  /\ Op("RSIDE")
  /\ \/ Tok.type \in {"STR", "EXCL"} /\ ~ HasNextTok
     \/ Tok.type = "LIST" /\ RulesAt(production_rules, current_rule) = <<>>
  /\ at' = "undefined"
  /\ UNCHANGED <<input, op_count, tok_count, axiomflag, current_rule,
                 production_rules, notes, tokens>>

LeaveRightSide ==
  /\ at = "check_right_side"
  /\ ~ Op("RSIDE")
  /\ at' = "check_operators"
  /\ UNCHANGED <<input, op_count, tok_count, axiomflag, current_rule,
                 production_rules, notes, tokens>>

-----------------------------------------------------------------------------

\* Both lists agree that an alternative begins.
ReadsOr == Op("OR") /\ Tok.type = "OR"

\* A fault: comments between the rules are not passed over.
CheckOperatorsButComments ==
  /\ at = "check_operators"
  /\ IF ReadsOr
     THEN /\ production_rules' = PushRule(production_rules, current_rule, <<>>)
          /\ Advance(1, 1)
     ELSE UNCHANGED <<production_rules, op_count, tok_count>>
  /\ at' = (IF ReadsOr /\ op_count + 1 = Len(grammar) THEN "undefined" ELSE "check_for_token")
  /\ UNCHANGED <<input, axiomflag, current_rule, notes, tokens>>

\* After | the next types are compared at once.  When nothing follows in the
\* file they are read behind the end of both lists.
CheckOperators ==
  /\ at = "check_operators"
  /\ LET read    == IF ReadsOr THEN 1 ELSE 0
         op      == op_count + read
         tok     == tok_count + read
         comment == /\ op < Len(grammar)
                    /\ grammar[op + 1] = "LINECOMMENT"
                    /\ parsedtokens[tok + 1].type = "LINECOMMENT"
     IN  /\ production_rules' = (IF ReadsOr
                                 THEN PushRule(production_rules, current_rule, <<>>)
                                 ELSE production_rules)
         /\ IF comment THEN Advance(read + 1, read + 1) ELSE Advance(read, read)
         /\ at' = (IF ReadsOr /\ op = Len(grammar) THEN "undefined" ELSE "check_for_token")
  /\ UNCHANGED <<input, axiomflag, current_rule, notes, tokens>>

\* The end of a round of the five checks.
NextRound == at' = "check_axiom"

NoToken ==
  /\ at = "check_for_token"
  /\ ~ Op("TOKEN")
  /\ NextRound
  /\ UNCHANGED <<input, op_count, tok_count, axiomflag, current_rule,
                 production_rules, notes, tokens>>

CheckForToken ==
  /\ at = "check_for_token"
  /\ Op("TOKEN")
  /\ tokens' = Append(tokens, [type |-> Clean(Tok.value), value |-> NextTok.value])
  /\ Advance(1, 2)
  /\ NextRound
  /\ UNCHANGED <<input, axiomflag, current_rule, production_rules, notes>>

\* clean_regex throws on a value of one character, which only a token that is
\* no regex can have.
CleanRegexThrows ==
  /\ at = "check_for_token"
  /\ Op("TOKEN")
  /\ NextTok.type # "REGEX"
  /\ at' = "throws"
  /\ UNCHANGED <<input, op_count, tok_count, axiomflag, current_rule,
                 production_rules, notes, tokens>>

\* The loop ends, and makegrammar drops repeated alternatives.
Finish ==
  /\ at = "check_axiom"
  /\ ~ StillParsing
  /\ production_rules' = [m \in DOMAIN production_rules |-> WithoutDoubles(production_rules[m])]
  /\ at' = "done"
  /\ UNCHANGED <<input, op_count, tok_count, axiomflag, current_rule, notes, tokens>>

Next ==
  \/ CheckAxiom
  \/ CheckLeftSide
  \/ KeepAsText
  \/ Keep
  \/ MakeList
  \/ MakeListOp
  \/ AddToRule
  \/ RightSideUndefined
  \/ LeaveRightSide
  \/ CheckOperators
  \/ NoToken
  \/ CheckForToken
  \/ CleanRegexThrows
  \/ Finish

\* One thread.  A round in which no check reads anything is repeated for ever.
Spec == Init /\ [][Next]_vars /\ WF_vars(Next)

-----------------------------------------------------------------------------
(***************************************************************************)
(* What a file says, read off the places of its tokens.                    *)
(***************************************************************************)

\* A place that no match of the second lexer covers.
Stray(file, p) == Match(file, p) = NoMatch /\ ~ Inside(file, p)

AxiomLines(file) == {p \in DOMAIN file : AxiomAt(file, p)}

\* The files whose parse comes to an end.
Tidy(file) ==
  /\ \A p \in DOMAIN file : ~ Stray(file, p)
  /\ Cardinality(AxiomLines(file)) <= 1

LeftSides(file) == {p \in DOMAIN file : Match(file, p) = "LSIDE"}

LeftNames(file) == {file[q].value : q \in LeftSides(file)}

\* The left side that the place belongs to, 0 before the first one.
Owner(file, p) ==
  LET before == {q \in LeftSides(file) : q < p}
  IN  IF before = {} THEN 0 ELSE CHOOSE q \in before : \A r \in before : r <= q

\* The places of a left side's bars, operands and lists.
Owned(file, q, types) ==
  {p \in DOMAIN file : /\ file[p].type \in types
                       /\ Match(file, p) \in {"OR", "RSIDE"}
                       /\ Owner(file, p) = q}

\* The alternative of its rule that a place is in, from 1.
AlternativeOf(file, p) ==
  Cardinality({b \in Owned(file, Owner(file, p), {"OR"}) : b < p}) + 1

WrittenAlternative(file, q, n) ==
  LET here(types) == {p \in Owned(file, q, types) : AlternativeOf(file, p) = n}
      list     == NameOperand(file[q].value)
      operands == Enumerate(here(OperandTypes), Len(file))
  IN  IF here({"LIST"}) # {} THEN <<list, list>>
      ELSE [m \in DOMAIN operands |-> AsOperand(file[operands[m]])]

WrittenRules(file, q) ==
  [n \in 1..(Cardinality(Owned(file, q, {"OR"})) + 1) |-> WrittenAlternative(file, q, n)]

\* Every rule is written once, begins with an operand, and has a list only as
\* an alternative of its own.
Plain(file) ==
  /\ Tidy(file)
  /\ \A p, q \in LeftSides(file) : file[p].value = file[q].value => p = q
  /\ \A q \in LeftSides(file) :
       \A p \in Owned(file, q, {"LIST"} \cup OperandTypes) :
         \/ file[p].type # "LIST"
         \/ /\ AlternativeOf(file, p) > 1
            /\ \A r \in Owned(file, q, {"LIST"} \cup OperandTypes) :
                 AlternativeOf(file, r) = AlternativeOf(file, p) => r = p
  /\ \A p \in DOMAIN file : Match(file, p) \in {"OR", "RSIDE"} => Owner(file, p) # 0
  /\ \A q \in LeftSides(file) : WrittenAlternative(file, q, 1) # <<>>

\* The patterns that the file defines, in its order.
WrittenTokens(file) ==
  LET defined == Enumerate({p \in DOMAIN file : Match(file, p) = "TOKEN"}, Len(file))
  IN  [n \in DOMAIN defined |->
         [type |-> Clean(file[defined[n]].value), value |-> file[defined[n] + 1].value]]

\* The names and labels that a rule's ! and s: and label= operators mark.
Marked(file, q) ==
  {Clean(file[p + 1].value) : p \in Owned(file, q, {"EXCL", "STR"})}
    \cup ({file[p].label : p \in Owned(file, q, {"STR", "TERMINAL", "NONTERMINAL"})} \ {NoLabel})

-----------------------------------------------------------------------------
(* Properties.                                                              *)

TypeOK ==
  /\ IsFile(parsedtokens)
  /\ op_count \in 0..Len(grammar)
  /\ tok_count \in 0..Len(parsedtokens)
  /\ axiomflag \in BOOLEAN
  /\ \A name \in DOMAIN production_rules :
       production_rules[name] \in
         Seq(Seq({AsOperand(parsedtokens[p]) : p \in DOMAIN parsedtokens}
                   \cup {NameOperand(name)}))
  /\ LabelsAreKept(labels, keeper)
  /\ DOMAIN strnodes \subseteq DOMAIN keeper
  /\ at \in {"check_axiom", "check_left_side", "check_right_side", "check_operators",
             "check_for_token", "done", "undefined", "throws"}

\* The two cursors stay together: as long as no token was skipped, tok_count is
\* the place where the match under op_count starts.  Each of eight branches in
\* five functions has to advance both by the right amounts.
InStep ==
  LET starts == Starts(parsedtokens)
  IN  (/\ op_count < Len(starts)
       /\ \A p \in 1..starts[op_count + 1] : ~ Stray(parsedtokens, p))
        => tok_count + 1 = starts[op_count + 1]

\* The grammar is what the file says: the operands between one bar and the next,
\* in their order, for the name before the arrow, without repetitions; the axiom;
\* rules of no other name; and one pattern for the lexer from every line that
\* defines a token.
GrammarAsWritten ==
  (at = "done" /\ Plain(parsedtokens)) =>
    /\ \A q \in LeftSides(parsedtokens) :
         RulesAt(production_rules, parsedtokens[q].value) =
           WithoutDoubles(WrittenRules(parsedtokens, q))
    /\ \A q \in AxiomLines(parsedtokens) :
         RulesAt(production_rules, <<Axiom>>) = <<<<AsOperand(parsedtokens[q + 2])>>>>
    /\ \A name \in DOMAIN production_rules :
         production_rules[name] # <<>> =>
           \/ name \in LeftNames(parsedtokens)
           \/ name = <<Axiom>> /\ AxiomLines(parsedtokens) # {}
    /\ tokens = WrittenTokens(parsedtokens)

\* "Each operand associated with the operators ! or label= in a production rule
\* tells the parser to save the data": a rule keeps what it marks and no more,
\* and nothing is kept for a name that the file has no rule of.
KeepsWhatIsMarked ==
  (at = "done" /\ Plain(parsedtokens)) =>
    /\ \A q \in LeftSides(parsedtokens) :
         SetAt(keeper, parsedtokens[q].value) = Marked(parsedtokens, q)
    /\ \A name \in DOMAIN keeper : keeper[name] # {} => name \in LeftNames(parsedtokens)

\* What C++ leaves undefined happens only at an operator that the file breaks
\* off after, or at a list with no bar and no operand of its rule before it.
UndefinedOnlyOnBrokenRules ==
  (at = "undefined" /\ Tidy(parsedtokens)) =>
    \/ Last(parsedtokens).type \in {"OR", "EXCL", "STR"}
    \/ \E p \in DOMAIN parsedtokens :
         /\ parsedtokens[p].type = "LIST"
         /\ \A q \in Owned(parsedtokens, Owner(parsedtokens, p), OperandTypes \cup {"OR"}) :
              p < q

\* A file without stray tokens and with one AXIOM line is parsed to its end.
TidyFilesEnd == Tidy(parsedtokens) => <>(at \in {"done", "undefined"})

=============================================================================
