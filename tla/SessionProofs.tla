--------------------------- MODULE SessionProofs ---------------------------
(***************************************************************************)
(* Whatever grammars a session loads and whatever sources it is given,     *)
(* every tree that it hands out is a phrase of the grammar as the author   *)
(* wrote it: what get2nf, the unit relation and the chart do to rules      *)
(* adds nothing to the language. For a proper grammar it loses nothing     *)
(* either: every word of its language is parsed as a whole.                *)
(***************************************************************************)
EXTENDS Driver, SequenceFacts, FiniteSetTheorems

\* The assumptions, as the parts of a session make them.
LEMMA PartsAssumptions ==
  /\ \A g \in SourceGrammars : IsSource(g)
  /\ \A g \in SourceGrammars : Normaliser!IsSource(g)
  /\ KeyOrder \in Seq(Name) /\ IsInjective(KeyOrder)
  /\ \A g : Normaliser!IsSource(g) <=> IsSource(g)
  /\ Normaliser!SourceOperand = SourceOperand
BY SourcesAssumption, NamesInOrder DEF IsSource, Normaliser!IsSource, SourceOperand,
   Normaliser!SourceOperand, TerminalOperands, Normaliser!TerminalOperands, EmptyOperand,
   Normaliser!EmptyOperand

\* Those of the parser.
LEMMA ParserAssumptions ==
  /\ Parser!Name = Name /\ Parser!Rule = Rule
  /\ \A s : Parser!Range(s) = Range(s)
  /\ KeyOrder \in Seq(Parser!Name) /\ Parser!IsInjective(KeyOrder)
<1>1. Parser!Name = Name
  BY DEF Parser!Name, Name, Parser!Atom, Atom
<1>2. Parser!Operand = Operand
  BY <1>1 DEF Parser!Operand, Operand, Parser!TerminalOperands, TerminalOperands,
     Parser!EmptyOperand, EmptyOperand
<1>3. \A s : Parser!Range(s) = Range(s) /\ (Parser!IsInjective(s) <=> IsInjective(s))
  BY DEF Parser!Range, Range, Parser!IsInjective, IsInjective
<1> QED
  BY <1>1, <1>2, <1>3, NamesInOrder DEF Parser!Rule, Rule

-----------------------------------------------------------------------------
(* The invariant.                                                           *)

\* The grammar that is in force is one of the files', or there is none.
GrammarKnown == raw = NoRules \/ raw \in SourceGrammars

\* What get2nf has made of it is sound at every moment.
NormalFormOK == GrammarKnown /\ Normaliser!NormalInv

\* The source is a sequence of tokens.
WordOK == word \in Seq(Terminal)

\* The chart and the frames are sound, and so is the frame that is returned; what
\* is found over the whole word is returned.
ParserOK == Parser!CYKInv /\ Parser!FrameOK /\ Parser!AnswerInv

\* The parser waits while get2nf runs, and reads a finished normal form.
InTurn ==
  /\ mode \in {"idle", "loading", "parsing"}
  /\ mode # "loading" => stage = "DONE"
  /\ mode = "loading" => Parser!Fresh /\ pc = "done"
  /\ mode = "idle" => pc = "done"

\* The chosen tree is in the frame, under the name of the axiom's symbol.
ResultOK ==
  /\ answer \in {"none", "exception", "undefined", "nothing", "tree", "error log"}
  /\ answer # "tree" => tree = NoTree
  /\ answer = "tree" =>
       /\ mode = "idle"
       /\ tree \in Range(frame)
       /\ Parser!HasAxiomSymbol /\ tree.nodetype = Parser!AxiomSymbol
       /\ tree # NoTree

\* The invariant of a session.
SessionInv == NormalFormOK /\ ParserOK /\ InTurn /\ ResultOK

\* The grammars that files may hold.
LEMMA GrammarIsSource ==
  ASSUME GrammarKnown
  PROVE  /\ IsSource(raw) /\ IsFiniteSet(DOMAIN raw)
         /\ <<Axiom>> \in DOMAIN raw =>
              \A rule \in Alternatives(raw, <<Axiom>>) :
                Len(rule) = 1 /\ rule[1].type = "NONTERMINAL"
<1>1. CASE raw = NoRules
  <2>1. DOMAIN raw = {}
    BY <1>1 DEF NoRules
  <2> QED
    BY <2>1, FS_EmptySet DEF IsSource
<1>2. CASE raw \in SourceGrammars
  BY <1>2, SourcesAssumption
<1> QED
  BY <1>1, <1>2 DEF GrammarKnown

\* The keys of the normal form and of the unit relation have their place in the
\* order of the maps.
LEMMA NamesOrdered ==
  ASSUME NormalFormOK
  PROVE  DOMAIN rules \cup DOMAIN unit \subseteq Range(KeyOrder)
<1>1. DOMAIN rules \cup DOMAIN unit \subseteq Normaliser!KeyNames
  BY DEF NormalFormOK, Normaliser!NormalInv, Normaliser!NamesInv
<1>2. Normaliser!MadeNames(raw) \subseteq Range(KeyOrder)
  <2>1. CASE raw = NoRules
    <3>1. DOMAIN raw = {}
      BY <2>1 DEF NoRules
    <3> QED
      BY <3>1 DEF Normaliser!MadeNames
  <2>2. CASE raw \in SourceGrammars
    BY <2>2, NamesInOrder
  <2> QED
    BY <2>1, <2>2 DEF NormalFormOK, GrammarKnown
<1> QED
  BY <1>1, <1>2, NamesInOrder DEF Normaliser!KeyNames

\* So the parser may be called with them.
LEMMA CallIsOK == NormalFormOK /\ WordOK => Parser!CallOK
<1> SUFFICES ASSUME NormalFormOK, WordOK PROVE Parser!CallOK
  OBVIOUS
<1>1. Normaliser!IsProductionRules(rules)
  BY DEF NormalFormOK, Normaliser!NormalInv, Normaliser!ExpansionInv, Normaliser!TypeOK
<1>2. Parser!IsProductionRules(rules)
  BY <1>1 DEF Normaliser!IsProductionRules, Parser!IsProductionRules, Normaliser!Rule,
     Parser!Rule, Normaliser!Operand, Parser!Operand, Normaliser!TerminalOperands,
     Parser!TerminalOperands, Normaliser!EmptyOperand, Parser!EmptyOperand, Normaliser!Name,
     Parser!Name, Normaliser!Atom, Parser!Atom
<1> QED
  BY <1>2, NamesOrdered, ParserAssumptions DEF Parser!CallOK, WordOK

-----------------------------------------------------------------------------
(* The parts' own lemmas, for this step and the next state.                 *)

\* A grammar that was just loaded.
LEMMA NormalInitNext == Normaliser!Init' => Normaliser!NormalInv'
<1>1. Normaliser!Init => Normaliser!NormalInv
  BY Normaliser!NormalInit, PartsAssumptions, NamesAssumption
<1> QED
  BY <1>1, PTL

\* A step of get2nf.
LEMMA NormalStepOK == Normaliser!NormalInv /\ [Normaliser!Next]_(Normaliser!vars) => Normaliser!NormalInv'
BY Normaliser!NormalStep, PartsAssumptions, NamesAssumption

\* A call of the parser with what is there after the step.
LEMMA CallIsOKNext == NormalFormOK' /\ WordOK' => Parser!CallOK'
BY CallIsOK, PTL

\* A parser that was just built.
LEMMA FreshOK == Parser!Fresh => ParserOK
BY Parser!FreshInv, Parser!FreshFrame, Parser!FreshAnswer, ParserAssumptions, NamesAssumption DEF ParserOK

LEMMA FreshOKNext == Parser!Fresh' => ParserOK'
BY FreshOK, PTL

\* A step of membership.
LEMMA ParserStepOK == ParserOK /\ [Parser!Next]_(Parser!vars) => ParserOK'
BY Parser!CYKStep, Parser!FrameStep, Parser!AnswerStep, ParserAssumptions, NamesAssumption
   DEF ParserOK

-----------------------------------------------------------------------------
(* The steps of a session.                                                  *)

\* A new session: no rules, no word.
LEMMA SessionInit == Init => SessionInv
<1> SUFFICES ASSUME Init PROVE SessionInv
  OBVIOUS
<1>1. NormalFormOK
  <2>1. Normaliser!Blank
    BY DEF Init, Normaliser!Blank, NoRules, Normaliser!NoRules
  <2> QED
    BY <2>1, Normaliser!BlankNormal, PartsAssumptions, NamesAssumption
       DEF Init, NormalFormOK, GrammarKnown
<1>2. Parser!Fresh
  <2>1. Parser!CallOK
    BY <1>1, CallIsOK DEF Init, WordOK
  <2>2. P = [x \in 0..(Parser!Size - 1) |-> [y \in 0..(Parser!Size - 1) |-> <<>>]]
    <3>1. 0..(Parser!Size - 1) = {} /\ P = <<>>
      BY DEF Init, Parser!Size
    <3> QED
      BY <3>1
  <2> QED
    BY <2>1, <2>2 DEF Init, Parser!Fresh
<1>3. ParserOK
  BY <1>2, FreshOK
<1>4. InTurn /\ ResultOK
  BY DEF Init, InTurn, ResultOK
<1> QED
  BY <1>1, <1>3, <1>4 DEF SessionInv

\* Loading starts get2nf and leaves nothing of the parses before.
LEMMA LoadStep ==
  ASSUME SessionInv, NEW g \in SourceGrammars, NEW n, LoadGrammar(g, n)
  PROVE  SessionInv'
<1>1. NormalFormOK'
  <2>1. Normaliser!Init'
    BY DEF LoadGrammar, Normaliser!Init, NoRules, Normaliser!NoRules
  <2>2. GrammarKnown'
    BY DEF LoadGrammar, GrammarKnown
  <2> QED
    BY <2>1, <2>2, NormalInitNext DEF NormalFormOK
<1>2. Parser!Fresh'
  <2>1. Parser!CallOK'
    BY <1>1, CallIsOKNext DEF LoadGrammar, WordOK
  <2>2. P' = [x \in 0..(Parser!Size' - 1) |-> [y \in 0..(Parser!Size' - 1) |-> <<>>]]
    <3>1. 0..(Parser!Size' - 1) = {} /\ P' = <<>>
      BY DEF LoadGrammar, Parser!Size
    <3> QED
      BY <3>1
  <2> QED
    BY <2>1, <2>2 DEF LoadGrammar, Parser!Fresh
<1>3. ParserOK'
  BY <1>2, FreshOKNext
<1>4. InTurn' /\ ResultOK'
  BY <1>2 DEF LoadGrammar, InTurn, ResultOK
<1> QED
  BY <1>1, <1>3, <1>4 DEF SessionInv

\* The parser stays fresh while get2nf runs.
LEMMA NormaliseStep ==
  ASSUME SessionInv, Normalise
  PROVE  SessionInv'
<1>1. NormalFormOK'
  <2>1. raw' = raw
    BY DEF Normalise, Normaliser!Next, Normaliser!VisitKey, Normaliser!TermRule,
       Normaliser!BinRule, Normaliser!UniqueRule, Normaliser!NonEmptyRule, Normaliser!NextRule,
       Normaliser!EndPass, Normaliser!SeedNullables, Normaliser!PopNullable,
       Normaliser!Propagate, Normaliser!GetUnitRelation
  <2>2. Normaliser!NormalInv'
    BY NormalStepOK DEF Normalise, SessionInv, NormalFormOK
  <2> QED
    BY <2>1, <2>2 DEF SessionInv, NormalFormOK, GrammarKnown
<1>2. Parser!Fresh'
  <2>1. Parser!Fresh /\ UNCHANGED parserVars
    BY DEF SessionInv, InTurn, Normalise
  <2>2. WordOK'
    BY <2>1 DEF Parser!Fresh, Parser!CallOK, WordOK, parserVars
  <2>3. Parser!CallOK'
    BY <1>1, <2>2, CallIsOKNext
  <2>4. Parser!Size' = Parser!Size
    BY <2>1 DEF Parser!Size, parserVars
  <2> QED
    BY <2>1, <2>3, <2>4 DEF Parser!Fresh, parserVars
<1>3. ParserOK'
  BY <1>2, FreshOKNext
<1>4. InTurn' /\ ResultOK'
  <2>1. mode = "loading" /\ mode' = mode /\ UNCHANGED resultVars
    BY DEF Normalise
  <2>2. answer # "tree"
    BY <2>1 DEF SessionInv, ResultOK
  <2> QED
    BY <1>2, <2>1, <2>2 DEF Normalise, SessionInv, InTurn, ResultOK, resultVars, parserVars
<1> QED
  BY <1>1, <1>3, <1>4 DEF SessionInv

\* get2nf's part of a session that does not run it.
LEMMA NormalFormKept ==
  ASSUME NormalFormOK, UNCHANGED normaliserVars
  PROVE  NormalFormOK'
<1>1. UNCHANGED Normaliser!vars
  BY DEF normaliserVars, Normaliser!vars
<1>2. Normaliser!NormalInv'
  BY <1>1, NormalStepOK DEF NormalFormOK
<1> QED
  BY <1>2 DEF NormalFormOK, GrammarKnown, normaliserVars

\* get2nf is done when the parser is built.
LEMMA BuildStep ==
  ASSUME SessionInv, BuildParser
  PROVE  SessionInv'
<1>1. NormalFormOK'
  BY NormalFormKept DEF SessionInv, BuildParser
<1>2. ParserOK'
  <2>1. UNCHANGED Parser!vars
    BY DEF BuildParser, normaliserVars, parserVars, Parser!vars
  <2> QED
    BY <2>1, ParserStepOK DEF SessionInv
<1>3. InTurn'
  BY DEF SessionInv, InTurn, BuildParser, normaliserVars, parserVars, Parser!Fresh
<1>4. ResultOK'
  BY DEF SessionInv, ResultOK, BuildParser, resultVars
<1> QED
  BY <1>1, <1>2, <1>3, <1>4 DEF SessionInv

\* The word and the normal form are what a call may be made with.
LEMMA SourceStep ==
  ASSUME SessionInv, NEW w \in Seq(Terminal), ProcessSource(w)
  PROVE  SessionInv'
<1>1. NormalFormOK'
  <2>1. UNCHANGED normaliserVars
    BY DEF ProcessSource, Parser!Call, normaliserVars
  <2> QED
    BY <2>1, NormalFormKept DEF SessionInv
<1>2. Parser!Fresh'
  <2>1. /\ word' = w /\ w \in Seq(Terminal)
        /\ P' = [x \in 0..(Len(w) - 1) |-> [y \in 0..(Len(w) - 1) |-> <<>>]]
        /\ l' = 0 /\ i' = 0 /\ k' = 0
        /\ pc' = (IF w = <<>> THEN "result" ELSE "terminals")
        /\ frame' = <<>> /\ outcome' = "none"
    BY DEF ProcessSource, Parser!Call
  <2>2. Parser!CallOK'
    BY <1>1, <2>1, CallIsOKNext DEF WordOK
  <2>3. Parser!Size' = Len(w)
    BY <2>1 DEF Parser!Size
  <2> QED
    BY <2>1, <2>2, <2>3 DEF Parser!Fresh
<1>3. ParserOK'
  BY <1>2, FreshOKNext
<1>4. InTurn' /\ ResultOK'
  BY DEF SessionInv, InTurn, ResultOK, ProcessSource
<1> QED
  BY <1>1, <1>3, <1>4 DEF SessionInv

\* Parsing leaves the normal form alone.
LEMMA ParseStep ==
  ASSUME SessionInv, Parse
  PROVE  SessionInv'
<1>1. rules' = rules /\ unit' = unit
  BY DEF Parse, Parser!Next, Parser!Terminals, Parser!FillSplit, Parser!ReturnAxiomNodes,
     Parser!ReturnBrokenNodes, Parser!ReadOutside, Parser!input
<1>2. NormalFormOK'
  <2>1. UNCHANGED normaliserVars
    BY <1>1 DEF Parse, normaliserVars
  <2> QED
    BY <2>1, NormalFormKept DEF SessionInv
<1>3. ParserOK'
  BY ParserStepOK DEF SessionInv, Parse
<1>4. InTurn' /\ ResultOK'
  BY DEF SessionInv, InTurn, ResultOK, Parse, resultVars
<1> QED
  BY <1>2, <1>3, <1>4 DEF SessionInv

\* A result that is taken is a tree only if the frame has one under the axiom's
\* symbol at that index.
LEMMA TakeStep ==
  ASSUME SessionInv, NEW index \in Nat, TakeResult(index)
  PROVE  SessionInv'
<1>1. NormalFormOK'
  BY NormalFormKept DEF SessionInv, TakeResult
<1>2. ParserOK'
  <2>1. UNCHANGED Parser!vars
    BY DEF TakeResult, normaliserVars, parserVars, Parser!vars
  <2> QED
    BY <2>1, ParserStepOK DEF SessionInv
<1>3. InTurn'
  BY DEF SessionInv, InTurn, TakeResult, normaliserVars, parserVars
<1>4. ResultOK'
  <2>1. /\ answer' = Answer(index) /\ mode' = "idle"
        /\ tree' = (IF Answer(index) = "tree" THEN Selected(index) ELSE NoTree)
        /\ frame' = frame /\ rules' = rules
    BY DEF TakeResult, normaliserVars, parserVars
  <2>2. Answer(index) \in {"exception", "undefined", "nothing", "tree", "error log"}
    BY DEF Answer
  <2>3. ASSUME Answer(index) = "tree"
        PROVE  /\ Selected(index) \in Range(frame)
               /\ Parser!HasAxiomSymbol /\ Selected(index).nodetype = Parser!AxiomSymbol
               /\ Selected(index) # NoTree
    <3>1. /\ frame # <<>> /\ Parser!HasAxiomSymbol
          /\ Selected(index).nodetype = Parser!AxiomSymbol
      BY <2>3 DEF Answer
    <3>2. frame \in Seq(Range(frame))
      BY ParserAssumptions DEF SessionInv, ParserOK, Parser!FrameOK, Parser!IsFrame
    <3>3. (IF index < Len(frame) THEN index ELSE 0) + 1 \in DOMAIN frame
      BY <3>1, <3>2
    <3>4. Selected(index) \in Range(frame)
      BY <3>3 DEF Selected, Range
    <3>5. PICK c \in Parser!Cells : Selected(index) \in Parser!CellSets[c]
      BY <3>4, ParserAssumptions DEF SessionInv, ParserOK, Parser!FrameOK
    <3>6. DOMAIN Selected(index) = {"nodetype", "kind", "parts"}
      BY <3>5, Parser!NodesAreRecords, ParserAssumptions, NamesAssumption
         DEF SessionInv, ParserOK
    <3>7. DOMAIN NoTree = {}
      BY DEF NoTree
    <3> QED
      BY <3>1, <3>4, <3>6, <3>7
  <2>4. Parser!HasAxiomSymbol' = Parser!HasAxiomSymbol /\ Parser!AxiomSymbol' = Parser!AxiomSymbol
    BY <2>1 DEF Parser!HasAxiomSymbol, Parser!AxiomSymbol
  <2> QED
    BY <2>1, <2>2, <2>3, <2>4 DEF ResultOK
<1> QED
  BY <1>1, <1>2, <1>3, <1>4 DEF SessionInv

\* Every step of a session keeps its invariant.
LEMMA SessionStep == SessionInv /\ [Next]_vars => SessionInv'
<1> SUFFICES ASSUME SessionInv, [Next]_vars PROVE SessionInv'
  OBVIOUS
<1>1. CASE UNCHANGED vars
  <2>1. NormalFormOK'
    BY <1>1, NormalFormKept DEF SessionInv, vars
  <2>2. ParserOK'
    <3>1. UNCHANGED Parser!vars
      BY <1>1 DEF vars, normaliserVars, parserVars, Parser!vars
    <3> QED
      BY <3>1, ParserStepOK DEF SessionInv
  <2>3. InTurn'
    <3>1. Parser!Fresh' <=> Parser!Fresh
      BY <1>1 DEF vars, normaliserVars, parserVars, Parser!Fresh, Parser!Size, Parser!CallOK
    <3> QED
      BY <1>1, <3>1 DEF SessionInv, InTurn, vars, normaliserVars, parserVars
  <2>4. ResultOK'
    <3>1. /\ Parser!HasAxiomSymbol' = Parser!HasAxiomSymbol
          /\ Parser!AxiomSymbol' = Parser!AxiomSymbol
      BY <1>1 DEF vars, normaliserVars, Parser!HasAxiomSymbol, Parser!AxiomSymbol
    <3> QED
      BY <1>1, <3>1 DEF SessionInv, ResultOK, vars, parserVars, resultVars
  <2> QED
    BY <2>1, <2>2, <2>3, <2>4 DEF SessionInv
<1> QED
  BY <1>1, LoadStep, NormaliseStep, BuildStep, SourceStep, ParseStep, TakeStep,
     CallsAssumption DEF Next

\* The parts of a session keep their invariants, whatever is loaded and parsed.
THEOREM SessionInvariant == Spec => []SessionInv
BY SessionInit, SessionStep, PTL DEF Spec

\* The invariant has the types.
LEMMA StateTyped == SessionInv => TypeOK
<1> SUFFICES ASSUME SessionInv PROVE TypeOK
  OBVIOUS
<1>1. Normaliser!TypeOK
  BY DEF SessionInv, NormalFormOK, Normaliser!NormalInv, Normaliser!ExpansionInv
<1>2. Parser!TypeOK
  BY Parser!TypesOfMembership, ParserAssumptions, NamesAssumption DEF SessionInv, ParserOK
<1> QED
  BY <1>1, <1>2 DEF TypeOK, SessionInv, InTurn, ResultOK

\* The variables of a session keep their types.
THEOREM SessionTypes == Spec => []TypeOK
BY StateTyped, SessionInvariant, PTL

-----------------------------------------------------------------------------
(* What the trees mean.                                                     *)

\* The two names of the language.
LEMMA SameLanguage ==
  /\ \A g, name : Alternatives(g, name) = Normaliser!Alternatives(g, name)
  /\ \A facts, w, rule, from, to :
       RuleSpans(facts, w, rule, from, to) <=> Normaliser!RuleSpans(facts, w, rule, from, to)
  /\ \A g, w : Derivations(g, w) = Normaliser!Derivations(g, w)
  /\ \A g : Proper(g) <=> Normaliser!Proper(g)
<1>1. \A g, name : Alternatives(g, name) = Normaliser!Alternatives(g, name)
  BY DEF Alternatives, Normaliser!Alternatives
<1>2. \A facts, w, rule, from, to :
        RuleSpans(facts, w, rule, from, to) <=> Normaliser!RuleSpans(facts, w, rule, from, to)
  BY DEF RuleSpans, Normaliser!RuleSpans, OperandSpans, Normaliser!OperandSpans
<1>3. \A g, w : Derivations(g, w) = Normaliser!Derivations(g, w)
  BY DEF Derivations, Normaliser!Derivations, Following, Normaliser!Following, Facts,
     Normaliser!Facts, Alternatives, Normaliser!Alternatives, RuleSpans, Normaliser!RuleSpans,
     OperandSpans, Normaliser!OperandSpans
<1>4. \A g : Proper(g) <=> Normaliser!Proper(g)
  BY <1>1 DEF Proper, Normaliser!Proper
<1> QED
  BY <1>1, <1>2, <1>3, <1>4

\* Nothing more follows from what the grammar derives.
LEMMA LanguageClosed ==
  ASSUME NormalFormOK, WordOK
  PROVE  Normaliser!Closed(raw, word, Derivations(raw, word))
<1>1. IsSource(raw) /\ IsFiniteSet(DOMAIN raw)
  BY GrammarIsSource DEF NormalFormOK
<1>2. Normaliser!IsSource(raw) /\ Normaliser!IsFiniteSet(DOMAIN raw)
  BY <1>1, PartsAssumptions DEF IsFiniteSet, Normaliser!IsFiniteSet
<1>3. Normaliser!Closed(raw, word, Normaliser!Derivations(raw, word))
  BY <1>2, PartsAssumptions, NamesAssumption, Normaliser!DerivationsClosed DEF WordOK
<1> QED
  BY <1>3, SameLanguage

\* What a name spans in the word that is parsed.
Means(name, from, to) == Normaliser!Spans(word, Derivations(raw, word), name, from, to)

\* All that names span in it.
Meant ==
  {x \in Range(KeyOrder) \X (0..Len(word)) \X (0..Len(word)) :
     x[2] <= x[3] /\ Means(x[1], x[2], x[3])}

\* Neither the rules nor the unit edges of a normal form lead to a span that
\* their name does not have.
LEMMA RulesMean ==
  ASSUME NormalFormOK, WordOK, stage = "DONE"
  PROVE  Parser!KeptByRules(Meant)
<1> DEFINE D == Derivations(raw, word)
<1>1. Normaliser!Closed(raw, word, D)
  BY LanguageClosed
<1>2. Normaliser!ExpansionInv /\ Normaliser!UnitSound
  BY DEF NormalFormOK, Normaliser!NormalInv
<1>3. Parser!Size = Len(word) /\ Len(word) \in Nat /\ word \in Seq(Terminal)
  BY DEF Parser!Size, WordOK
<1>4. DOMAIN rules \cup DOMAIN unit \subseteq Range(KeyOrder)
  BY NamesOrdered
<1> HIDE DEF D
<1>5. ASSUME NEW name \in Range(KeyOrder), NEW from \in 0..Len(word), NEW to \in 0..Len(word)
      PROVE  <<name, from, to>> \in Meant <=> from <= to /\ Means(name, from, to)
  BY DEF Meant
<1>6. ASSUME NEW name, NEW from, NEW to, <<name, from, to>> \in Meant
      PROVE  Means(name, from, to)
  BY <1>6 DEF Meant
<1>7. ASSUME NEW name \in DOMAIN rules, NEW y \in 0..(Len(word) - 1),
             <<TerminalOperand(word[y + 1])>> \in Alternatives(rules, name)
      PROVE  <<name, y, y + 1>> \in Meant
  <2>1. Normaliser!TerminalOperand(word[y + 1]) = TerminalOperand(word[y + 1])
    BY DEF Normaliser!TerminalOperand, TerminalOperand
  <2>2. Normaliser!Spans(word, D, name, y, y + 1)
    BY <1>1, <1>2, <1>3, <1>7, <2>1, SameLanguage, Normaliser!TokenMeans, PartsAssumptions,
       NamesAssumption
  <2>3. y \in 0..Len(word) /\ y + 1 \in 0..Len(word) /\ y <= y + 1
    BY <1>3
  <2> QED
    BY <1>4, <1>5, <2>2, <2>3 DEF Means, D
<1>8. ASSUME NEW name \in DOMAIN rules, NEW rule \in Alternatives(rules, name),
             NEW from \in 0..Len(word), NEW mid \in 0..Len(word), NEW to \in 0..Len(word),
             Len(rule) > 1, from <= mid, mid <= to,
             <<rule[1].value, from, mid>> \in Meant, <<rule[2].value, mid, to>> \in Meant
      PROVE  <<name, from, to>> \in Meant
  <2>1. /\ Normaliser!Spans(word, D, rule[1].value, from, mid)
        /\ Normaliser!Spans(word, D, rule[2].value, mid, to)
    BY <1>6, <1>8 DEF Means, D
  <2>2. Normaliser!Spans(word, D, name, from, to)
    BY <1>1, <1>2, <1>3, <1>8, <2>1, SameLanguage, Normaliser!PairMeans, PartsAssumptions,
       NamesAssumption
  <2>3. from <= to
    BY <1>3, <1>8
  <2> QED
    BY <1>4, <1>5, <2>2, <2>3 DEF Means, D
<1>9. ASSUME NEW name \in DOMAIN unit, NEW m \in unit[name],
             NEW from \in 0..Len(word), NEW to \in 0..Len(word), from <= to,
             <<m, from, to>> \in Meant
      PROVE  <<name, from, to>> \in Meant
  <2>1. Normaliser!Spans(word, D, m, from, to)
    BY <1>6, <1>9 DEF Means, D
  <2>2. Normaliser!Spans(word, D, name, from, to)
    BY <1>1, <1>2, <1>3, <1>9, <2>1 DEF Normaliser!UnitSound
  <2> QED
    BY <1>4, <1>5, <1>9, <2>2 DEF Means, D
<1> HIDE DEF Meant
<1>10. \A name, t : Parser!Alternatives(rules, name) = Alternatives(rules, name)
                    /\ Parser!TerminalOperand(t) = TerminalOperand(t)
  BY DEF Parser!Alternatives, Alternatives, Parser!TerminalOperand, TerminalOperand
<1> QED
  BY <1>3, <1>7, <1>8, <1>9, <1>10 DEF Parser!KeptByRules

\* So every node spans what its name does.
LEMMA NodesMean ==
  ASSUME NormalFormOK, Parser!CYKInv, stage = "DONE",
         NEW c \in Parser!Cells, NEW node \in Parser!CellSets[c]
  PROVE  Means(node.nodetype, c[2], c[1] + c[2] + 1)
<1>1. WordOK
  BY DEF Parser!CYKInv, Parser!LoopInv, Parser!CallOK, WordOK
<1>2. Parser!KeptByRules(Meant)
  BY <1>1, RulesMean
<1>3. Parser!Fact(c, node) \in Meant
  BY <1>2, Parser!ChartWithin, ParserAssumptions, NamesAssumption
<1> QED
  BY <1>3 DEF Parser!Fact, Meant

\* A rule that stands for an alternative of the axiom is that alternative.
LEMMA AxiomRules ==
  ASSUME NormalFormOK, NEW rule, Normaliser!MadeRule(rule),
         Normaliser!StandsFor(<<Axiom>>, rule), Len(rule) <= 2
  PROVE  /\ <<Axiom>> \in DOMAIN raw
         /\ Normaliser!Expand(rule) \in Alternatives(raw, <<Axiom>>)
         /\ rule[1].value \in Normaliser!SourceName
         /\ Normaliser!Expand(rule) = <<Normaliser!NameOperand(rule[1].value)>>
         /\ rule # <<>> /\ Len(rule) = 1 /\ rule[1].type = "NONTERMINAL"
<1>1. <<Axiom>> \in Normaliser!SourceName
  BY NamesAssumption DEF Normaliser!SourceName
<1>2. /\ <<Axiom>> \in DOMAIN raw
      /\ Normaliser!Expand(rule) \in Alternatives(raw, <<Axiom>>)
  BY <1>1, SameLanguage DEF Normaliser!StandsFor
<1>3. /\ Normaliser!Expand(rule) \in Seq(Normaliser!SourceOperand)
      /\ Len(Normaliser!Expand(rule)) = 1
      /\ Normaliser!Expand(rule)[1].type = "NONTERMINAL"
  BY <1>2, GrammarIsSource, PartsAssumptions DEF NormalFormOK, IsSource, Alternatives
<1>4. rule # <<>>
  <2> SUFFICES ASSUME rule = <<>> PROVE FALSE
    OBVIOUS
  <2>1. Normaliser!Expand(rule) = <<>>
    BY DEF Normaliser!Expand
  <2> QED
    BY <1>3, <2>1
<1> QED
  BY <1>2, <1>3, <1>4, Normaliser!SingleName, PartsAssumptions, NamesAssumption

\* The symbol that trees are reported under is an author's name, and the only
\* operand of one of the axiom's alternatives.
LEMMA AxiomSymbolIsNamed ==
  ASSUME NormalFormOK, stage = "DONE", Parser!HasAxiomSymbol
  PROVE  /\ Parser!AxiomSymbol \in Normaliser!SourceName
         /\ <<Axiom>> \in DOMAIN raw
         /\ \E rule \in Alternatives(rules, <<Axiom>>) :
              /\ Normaliser!StandsFor(<<Axiom>>, rule)
              /\ Normaliser!Expand(rule) = <<Normaliser!NameOperand(Parser!AxiomSymbol)>>
<1> DEFINE rule == rules[<<Axiom>>][1]
<1>1. /\ <<Axiom>> \in DOMAIN rules /\ rules[<<Axiom>>] # <<>> /\ rule # <<>>
      /\ Parser!AxiomSymbol = rule[1].value
  BY DEF Parser!HasAxiomSymbol, Parser!AxiomSymbol
<1>2. Normaliser!ExpansionInv
  BY DEF NormalFormOK, Normaliser!NormalInv
<1>3. rules[<<Axiom>>] \in Seq(Normaliser!Rule)
  BY <1>1, <1>2 DEF Normaliser!ExpansionInv, Normaliser!TypeOK, Normaliser!IsProductionRules
<1>4. rule \in Alternatives(rules, <<Axiom>>)
  BY <1>1, <1>3 DEF Alternatives
<1> HIDE DEF rule
<1>5. Normaliser!MadeRule(rule) /\ Normaliser!StandsFor(<<Axiom>>, rule) /\ Len(rule) <= 2
  <2>1. Normaliser!BinaryForm
    BY <1>2, Normaliser!BinaryNow, PartsAssumptions, NamesAssumption
  <2> QED
    BY <1>1, <1>2, <1>4, <2>1, SameLanguage
       DEF Normaliser!ExpansionInv, Normaliser!Shape, Normaliser!MadeRules,
         Normaliser!ExpansionSound, Normaliser!ExpandsToSource, Normaliser!BinaryForm,
         Normaliser!AfterBin, Normaliser!Done
<1>6. /\ <<Axiom>> \in DOMAIN raw
      /\ rule[1].value \in Normaliser!SourceName
      /\ Normaliser!Expand(rule) = <<Normaliser!NameOperand(rule[1].value)>>
  BY <1>5, AxiomRules
<1> QED
  BY <1>1, <1>4, <1>5, <1>6

\* What the axiom's symbol derives, the axiom does.
LEMMA AxiomSpans ==
  ASSUME NormalFormOK, WordOK, stage = "DONE", Parser!HasAxiomSymbol,
         NEW from \in 0..Len(word), NEW to \in 0..Len(word), from <= to,
         <<Parser!AxiomSymbol, from, to>> \in Derivations(raw, word)
  PROVE  <<<<Axiom>>, from, to>> \in Derivations(raw, word)
<1> DEFINE D == Derivations(raw, word)
<1>1. Normaliser!Closed(raw, word, D)
  BY LanguageClosed
<1>2. PICK rule \in Alternatives(rules, <<Axiom>>) :
        /\ Normaliser!StandsFor(<<Axiom>>, rule)
        /\ Normaliser!Expand(rule) = <<Normaliser!NameOperand(Parser!AxiomSymbol)>>
  BY AxiomSymbolIsNamed
<1>3. /\ <<Parser!AxiomSymbol, from, to>> \in D
      /\ Len(word) \in Nat /\ word \in Seq(Terminal)
  BY DEF WordOK
<1> HIDE DEF D
<1>4. Normaliser!OperandSpans(D, word, Normaliser!NameOperand(Parser!AxiomSymbol), from, to)
  BY <1>3 DEF Normaliser!OperandSpans, Normaliser!NameOperand
<1>5. Normaliser!RuleSpans(D, word, Normaliser!Expand(rule), from, to)
  BY <1>2, <1>3, <1>4, Normaliser!SpansOne, PartsAssumptions, NamesAssumption
<1>6. Normaliser!Spans(word, D, <<Axiom>>, from, to)
  BY <1>1, <1>2, <1>3, <1>5, Normaliser!RuleMeans, PartsAssumptions, NamesAssumption
<1>7. <<Axiom>> \in Normaliser!SourceName
  BY NamesAssumption DEF Normaliser!SourceName
<1>8. <<<<Axiom>>, from, to>> \in D
  BY <1>6, <1>7, Normaliser!SourceSpans, PartsAssumptions, NamesAssumption
<1> QED
  BY <1>8 DEF D

\* What spans a part of the word by the name of an author is derived.
LEMMA MeansDerived ==
  ASSUME NEW name \in Normaliser!SourceName, NEW from \in Nat, NEW to \in Nat, from <= to,
         Means(name, from, to)
  PROVE  <<name, from, to>> \in Derivations(raw, word)
BY Normaliser!SourceSpans, PartsAssumptions, NamesAssumption DEF Means

\* The chosen tree is over a part of the word that its name derives.
LEMMA TreeSpans ==
  ASSUME SessionInv, answer = "tree"
  PROVE  /\ WordOK /\ stage = "DONE" /\ Parser!HasAxiomSymbol
         /\ tree.nodetype = Parser!AxiomSymbol
         /\ \E c \in Parser!Cells :
              /\ c[1] \in Nat /\ c[2] \in Nat /\ c[1] + c[2] < Len(word)
              /\ Parser!Leaves[tree] = Parser!Span(c)
              /\ <<tree.nodetype, c[2], c[1] + c[2] + 1>> \in Derivations(raw, word)
<1>1. NormalFormOK /\ Parser!CYKInv /\ Parser!FrameOK /\ InTurn /\ ResultOK
  BY DEF SessionInv, ParserOK
<1>2. WordOK
  BY <1>1 DEF Parser!CYKInv, Parser!LoopInv, Parser!CallOK, WordOK
<1>3. \A c \in Parser!Cells : c[1] \in Nat /\ c[2] \in Nat /\ c[1] + c[2] < Len(word)
  BY <1>2 DEF WordOK, Parser!Size, Parser!Cells
<1>4. /\ tree \in Range(frame) /\ mode # "loading"
      /\ Parser!HasAxiomSymbol /\ tree.nodetype = Parser!AxiomSymbol
  BY <1>1 DEF ResultOK
<1>5. stage = "DONE"
  BY <1>1, <1>4 DEF InTurn
<1>6. PICK c \in Parser!Cells : tree \in Parser!CellSets[c]
  BY <1>1, <1>4, ParserAssumptions DEF Parser!FrameOK
<1>7. Parser!Leaves[tree] = Parser!Span(c)
  BY <1>1, <1>6, Parser!LeavesAreSpans, ParserAssumptions, NamesAssumption
<1>8. Means(tree.nodetype, c[2], c[1] + c[2] + 1)
  BY <1>1, <1>5, <1>6, NodesMean
<1>9. tree.nodetype \in Normaliser!SourceName
  BY <1>1, <1>4, <1>5, AxiomSymbolIsNamed
<1>10. <<tree.nodetype, c[2], c[1] + c[2] + 1>> \in Derivations(raw, word)
  <2>1. c[2] \in Nat /\ c[1] + c[2] + 1 \in Nat /\ c[2] <= c[1] + c[2] + 1
    BY <1>3
  <2> QED
    BY <1>8, <1>9, <2>1, MeansDerived
<1> QED
  BY <1>2, <1>3, <1>4, <1>5, <1>7, <1>10

\* A tree spans what its name derives.
LEMMA PhraseFound == SessionInv => TreeIsAPhrase
<1> SUFFICES ASSUME SessionInv PROVE TreeIsAPhrase
  OBVIOUS
<1> DEFINE D == Derivations(raw, word)
<1>1. NormalFormOK /\ Parser!CYKInv /\ Parser!FrameOK /\ InTurn /\ ResultOK
  BY DEF SessionInv, ParserOK
<1>2. WordOK
  BY <1>1 DEF Parser!CYKInv, Parser!LoopInv, Parser!CallOK, WordOK
<1>3. Len(word) \in Nat /\ word \in Seq(Terminal) /\ Parser!Size = Len(word)
  BY <1>2 DEF WordOK, Parser!Size
<1>4. ASSUME answer = "tree"
      PROVE  LET leaves == Parser!Leaves[tree]
                 from   == leaves[1]
                 to     == leaves[Len(leaves)] + 1
             IN  <<tree.nodetype, from, to>> \in D
  <2>1. PICK c \in Parser!Cells :
          /\ c[1] \in Nat /\ c[2] \in Nat
          /\ Parser!Leaves[tree] = Parser!Span(c)
          /\ <<tree.nodetype, c[2], c[1] + c[2] + 1>> \in D
    BY <1>4, TreeSpans
  <2>2. /\ Parser!Span(c)[1] = c[2] /\ Len(Parser!Span(c)) = c[1] + 1
        /\ Parser!Span(c)[c[1] + 1] + 1 = c[1] + c[2] + 1
    BY <2>1 DEF Parser!Span
  <2> HIDE DEF D
  <2> QED
    BY <2>1, <2>2
<1>5. ASSUME outcome = "whole", frame # <<>>
      PROVE  InLanguage(raw, word)
  <2>1. /\ word # <<>> /\ Parser!HasAxiomSymbol
        /\ \A node \in Range(frame) :
             /\ node \in Parser!CellSets[<<Parser!Size - 1, 0>>]
             /\ node.nodetype \in {<<Axiom>>, Parser!AxiomSymbol}
    BY <1>1, <1>5, ParserAssumptions DEF Parser!FrameOK
  <2>2. stage = "DONE"
    BY <1>1, <1>5 DEF InTurn, Parser!Fresh
  <2>3. PICK node : node \in Range(frame)
    <3>1. frame \in Seq(Range(frame))
      BY <1>1, ParserAssumptions DEF Parser!FrameOK, Parser!IsFrame
    <3>2. frame[1] \in Range(frame)
      BY <1>5, <3>1 DEF Range
    <3> QED
      BY <3>2
  <2>4. Len(word) - 1 \in Nat /\ Len(word) - 1 + 0 + 1 = Len(word)
    BY <1>3, <2>1
  <2>5. <<Len(word) - 1, 0>> \in Parser!Cells
    BY <1>3, <2>4 DEF Parser!Cells
  <2>6. Means(node.nodetype, 0, Len(word))
    <3> DEFINE c == <<Len(word) - 1, 0>>
    <3>1. c \in Parser!Cells /\ node \in Parser!CellSets[c] /\ c[2] = 0
          /\ c[1] + c[2] + 1 = Len(word)
      BY <1>3, <2>1, <2>3, <2>4, <2>5
    <3> HIDE DEF c
    <3>2. Means(node.nodetype, c[2], c[1] + c[2] + 1)
      BY <1>1, <2>2, <3>1, NodesMean
    <3> QED
      BY <3>1, <3>2
  <2>7. 0 \in 0..Len(word) /\ Len(word) \in 0..Len(word) /\ 0 <= Len(word)
    BY <1>3
  <2>8. <<Axiom>> \in Normaliser!SourceName
    BY NamesAssumption DEF Normaliser!SourceName
  <2>9. <<<<Axiom>>, 0, Len(word)>> \in D
    <3>1. CASE node.nodetype = <<Axiom>>
      BY <2>6, <2>8, <3>1, MeansDerived
    <3>2. CASE node.nodetype = Parser!AxiomSymbol
      <4>1. Parser!AxiomSymbol \in Normaliser!SourceName
        BY <1>1, <2>1, <2>2, AxiomSymbolIsNamed
      <4>2. <<Parser!AxiomSymbol, 0, Len(word)>> \in D
        BY <2>6, <3>2, <4>1, MeansDerived
      <4> QED
        BY <1>1, <1>2, <2>1, <2>2, <2>7, <4>2, AxiomSpans
    <3> QED
      BY <2>1, <2>3, <3>1, <3>2
  <2> QED
    BY <2>9 DEF InLanguage
<1> QED
  BY <1>4, <1>5 DEF TreeIsAPhrase

\* Whatever tree is handed out covers a part of the source that the axiom's symbol
\* derives by the rules that the author wrote, and the whole of it when the parse
\* is reported as whole: cut rules, shared keys, dropped duplicates and the unit
\* relation over empty operands add nothing to the language.
THEOREM TreesArePhrases == Spec => []TreeIsAPhrase
BY PhraseFound, SessionInvariant, PTL

-----------------------------------------------------------------------------
(* What is found.                                                           *)

\* When a call has ended, its nodes fill the word by the rules of the normal form
\* and its unit relation.
LEMMA WordIsFilled ==
  ASSUME Parser!CYKInv, pc = "done"
  PROVE  Normaliser!Fills(word, Parser!NodeFacts, Parser!BaseFacts)
<1>1. Parser!FilledByRules(Parser!NodeFacts, Parser!BaseFacts)
  BY Parser!FinishedChart, ParserAssumptions, NamesAssumption
<1>2. Parser!Size = Len(word)
  BY DEF Parser!Size
<1>3. \A name, t : /\ Parser!Alternatives(rules, name) = Normaliser!Alternatives(rules, name)
                   /\ Parser!TerminalOperand(t) = Normaliser!TerminalOperand(t)
  BY DEF Parser!Alternatives, Normaliser!Alternatives, Parser!TerminalOperand,
     Normaliser!TerminalOperand
<1> QED
  BY <1>1, <1>2, <1>3 DEF Parser!FilledByRules, Normaliser!Fills

\* The parser's axiom when its grammar is proper: one rule, and one edge at most
\* of the unit relation.
LEMMA OneAxiomSymbol ==
  ASSUME NormalFormOK, stage = "DONE", Proper(raw), NEW source,
         <<Axiom>> \in DOMAIN raw, source \in Alternatives(raw, <<Axiom>>)
  PROVE  /\ Parser!HasAxiomSymbol
         /\ source[1].value = Parser!AxiomSymbol
         /\ \A rule \in Alternatives(rules, <<Axiom>>) :
              Len(rule) = 1 /\ rule[1].type = "NONTERMINAL"
         /\ <<Axiom>> \in DOMAIN unit => unit[<<Axiom>>] \subseteq {Parser!AxiomSymbol}
<1>1. /\ Normaliser!ExpansionInv /\ Normaliser!LinksInv
      /\ IsSource(raw)
  BY GrammarIsSource DEF NormalFormOK, Normaliser!NormalInv
<1>2. ASSUME NEW rule, Normaliser!MadeRule(rule),
             Normaliser!StandsFor(<<Axiom>>, rule), Len(rule) <= 2
      PROVE  /\ rule # <<>> /\ Len(rule) = 1 /\ rule[1].type = "NONTERMINAL"
             /\ source[1].value = rule[1].value
  <2>1. /\ Normaliser!Expand(rule) \in Alternatives(raw, <<Axiom>>)
        /\ Normaliser!Expand(rule) = <<Normaliser!NameOperand(rule[1].value)>>
        /\ rule # <<>> /\ Len(rule) = 1 /\ rule[1].type = "NONTERMINAL"
    BY <1>2, AxiomRules
  <2>2. Normaliser!Expand(rule) = source
    BY <2>1 DEF Proper
  <2>3. source[1] = Normaliser!NameOperand(rule[1].value)
    BY <2>1, <2>2
  <2> QED
    BY <2>1, <2>3 DEF Normaliser!NameOperand
<1>3. ASSUME NEW rule \in Alternatives(rules, <<Axiom>>), <<Axiom>> \in DOMAIN rules
      PROVE  /\ rule # <<>> /\ Len(rule) = 1 /\ rule[1].type = "NONTERMINAL"
             /\ source[1].value = rule[1].value
  <2>1. Normaliser!BinaryForm
    BY <1>1, Normaliser!BinaryNow, PartsAssumptions, NamesAssumption
  <2>2. Normaliser!MadeRule(rule) /\ Normaliser!StandsFor(<<Axiom>>, rule) /\ Len(rule) <= 2
    BY <1>1, <1>3, <2>1, SameLanguage
       DEF Normaliser!ExpansionInv, Normaliser!Shape, Normaliser!MadeRules,
         Normaliser!ExpansionSound, Normaliser!ExpandsToSource, Normaliser!BinaryForm,
         Normaliser!AfterBin, Normaliser!Done
  <2> QED
    BY <1>2, <2>2
<1>4. <<Axiom>> \in DOMAIN rules /\ Alternatives(rules, <<Axiom>>) # {}
  <2>1. \/ <<Axiom>> \in DOMAIN rules
           /\ \E r \in Alternatives(rules, <<Axiom>>) : Normaliser!Expand(r) = source
        \/ Normaliser!IsEmptyRule(source)
    BY <1>1, SameLanguage DEF Normaliser!ExpansionInv, Normaliser!ExpansionComplete
  <2>2. ~ Normaliser!IsEmptyRule(source)
    <3>1. Len(source) = 1 /\ source[1].type = "NONTERMINAL"
      BY GrammarIsSource DEF NormalFormOK
    <3> QED
      BY <3>1 DEF Normaliser!IsEmptyRule
  <2> QED
    BY <2>1, <2>2
<1>5. rules[<<Axiom>>] # <<>> /\ rules[<<Axiom>>][1] \in Alternatives(rules, <<Axiom>>)
  <2>1. rules[<<Axiom>>] \in Seq(Normaliser!Rule)
    BY <1>1, <1>4 DEF Normaliser!ExpansionInv, Normaliser!TypeOK, Normaliser!IsProductionRules
  <2>2. rules[<<Axiom>>] # <<>>
    BY <1>4 DEF Alternatives
  <2> QED
    BY <1>4, <2>1, <2>2 DEF Alternatives
<1>6. Parser!HasAxiomSymbol /\ source[1].value = Parser!AxiomSymbol
  BY <1>3, <1>4, <1>5 DEF Parser!HasAxiomSymbol, Parser!AxiomSymbol
<1>7. ASSUME <<Axiom>> \in DOMAIN unit, NEW m \in unit[<<Axiom>>]
      PROVE  m = Parser!AxiomSymbol
  <2>1. PICK rule : /\ Normaliser!MadeRule(rule) /\ Normaliser!StandsFor(<<Axiom>>, rule)
                    /\ Len(rule) = 2 \/ rule = <<Normaliser!NameOperand(m)>>
    BY <1>1, <1>7 DEF Normaliser!LinksInv, Normaliser!UnitsOfRules
  <2>2. Len(rule) <= 2
    BY <2>1
  <2>3. Len(rule) = 1 /\ source[1].value = rule[1].value
    BY <1>2, <2>1, <2>2
  <2>4. rule[1].value = m
    BY <2>1, <2>3 DEF Normaliser!NameOperand
  <2> QED
    BY <1>6, <2>3, <2>4
<1> QED
  BY <1>3, <1>4, <1>6, <1>7

\* What a grammar derives is by the rules of its names.
LEMMA DerivedByRules ==
  ASSUME NormalFormOK, NEW w \in Seq(Terminal), InLanguage(raw, w)
  PROVE  <<Axiom>> \in DOMAIN raw /\ raw # NoRules
<1> DEFINE f == <<<<Axiom>>, 0, Len(w)>>
<1>1. IsFiniteSet(DOMAIN raw) /\ IsSource(raw)
  BY GrammarIsSource DEF NormalFormOK
<1>2. Normaliser!IsFiniteSet(DOMAIN raw) /\ Normaliser!IsSource(raw)
  BY <1>1, PartsAssumptions DEF IsFiniteSet, Normaliser!IsFiniteSet
<1>3. f \in Normaliser!Derivations(raw, w)
  BY SameLanguage DEF InLanguage
<1>4. f \in Normaliser!Facts(raw, w)
  BY <1>2, <1>3, Normaliser!DerivationsClosed, PartsAssumptions, NamesAssumption
     DEF Normaliser!Closed
<1>5. <<Axiom>> \in DOMAIN raw
  BY <1>4 DEF Normaliser!Facts
<1> QED
  BY <1>5 DEF NoRules

\* What a proper grammar derives is in the chart, and is returned.
LEMMA ProperAnswered ==
  ASSUME SessionInv, stage = "DONE", pc = "done", Proper(raw), InLanguage(raw, word)
  PROVE  /\ outcome = "whole" /\ Parser!HasAxiomSymbol
         /\ frame # <<>> /\ frame[1].nodetype = Parser!AxiomSymbol
<1> DEFINE H == Parser!NodeFacts
           B == Parser!BaseFacts
           f == <<<<Axiom>>, 0, Len(word)>>
<1>1. NormalFormOK /\ Parser!CYKInv /\ Parser!AnswerInv
  BY DEF SessionInv, ParserOK
<1>2. word \in Seq(Terminal) /\ Parser!Size = Len(word)
  BY <1>1 DEF Parser!CYKInv, Parser!LoopInv, Parser!CallOK, Parser!Size
<1>3. /\ Normaliser!ExpansionInv /\ Normaliser!LinksInv
      /\ IsSource(raw) /\ IsFiniteSet(DOMAIN raw)
      /\ <<Axiom>> \in DOMAIN raw =>
           \A rule \in Normaliser!Alternatives(raw, <<Axiom>>) :
             Len(rule) = 1 /\ rule[1].type = "NONTERMINAL"
  BY <1>1, GrammarIsSource, SameLanguage DEF NormalFormOK, Normaliser!NormalInv
<1>4. Normaliser!IsFiniteSet(DOMAIN raw) /\ Normaliser!IsSource(raw)
  BY <1>3, PartsAssumptions DEF IsFiniteSet, Normaliser!IsFiniteSet
<1>5. Normaliser!Fills(word, H, B)
  BY <1>1, WordIsFilled
<1>6. f \in Normaliser!Derivations(raw, word)
  BY SameLanguage DEF InLanguage
<1>7. Normaliser!Proper(raw)
  BY SameLanguage
<1> HIDE DEF H, B
<1>8. f[2] < f[3] /\ Normaliser!Found(f, H, B)
  BY <1>1, <1>2, <1>3, <1>4, <1>5, <1>6, <1>7, Normaliser!DerivedIsFound, PartsAssumptions,
     NamesAssumption
<1>9. f \in Normaliser!Facts(raw, word)
  BY <1>2, <1>4, <1>6, Normaliser!DerivationsClosed, PartsAssumptions, NamesAssumption
     DEF Normaliser!Closed
<1>10. word # <<>> /\ <<Axiom>> \in DOMAIN raw
  BY <1>8, <1>9 DEF Normaliser!Facts
<1>11. PICK source \in Alternatives(raw, <<Axiom>>) : <<source[1].value, 0, Len(word)>> \in H
  BY <1>8, SameLanguage DEF Normaliser!Found
<1>12. /\ Parser!HasAxiomSymbol
       /\ source[1].value = Parser!AxiomSymbol
       /\ \A rule \in Alternatives(rules, <<Axiom>>) :
            Len(rule) = 1 /\ rule[1].type = "NONTERMINAL"
       /\ <<Axiom>> \in DOMAIN unit => unit[<<Axiom>>] \subseteq {Parser!AxiomSymbol}
  BY <1>1, <1>10, OneAxiomSymbol
<1>13. <<Parser!AxiomSymbol, 0, Parser!Size>> \in Parser!NodeFacts
  BY <1>2, <1>11, <1>12 DEF H
<1>14. \A rule \in Parser!Alternatives(rules, <<Axiom>>) :
         Len(rule) = 1 /\ rule[1].type = "NONTERMINAL"
  BY <1>12 DEF Parser!Alternatives, Alternatives
<1> QED
  BY <1>1, <1>10, <1>12, <1>13, <1>14, Parser!FirstIsSymbol, ParserAssumptions,
     NamesAssumption

LEMMA ProperParsed == SessionInv => ProperGrammarsAreParsed
BY ProperAnswered DEF ProperGrammarsAreParsed, SessionInv, InTurn

\* For a proper grammar the session finds every word of the language: the answer
\* is that of a whole parse, and its first tree is under the axiom's symbol.
THEOREM ProperGrammarsParsed == Spec => []ProperGrammarsAreParsed
BY ProperParsed, SessionInvariant, PTL

-----------------------------------------------------------------------------
(* The nodes of the chart as trees.                                         *)

\* Parts rank lower than their node, and a node's tokens are those of its parts.
NodesAreTrees ==
  /\ Parser!NodeRank \in [Parser!Nodes -> Nat]
  /\ \A node \in Parser!Nodes :
       /\ Parser!Leaves[node] \in Seq(Nat) /\ Distinct(Parser!Leaves[node])
       /\ \/ /\ node.kind = "token"
             /\ \E place \in Nat : node.parts = <<place>>
             /\ Parser!Leaves[node] = node.parts
          \/ /\ node.kind = "unit"
             /\ node.parts = <<node.parts[1]>> /\ node.parts[1] \in Parser!Nodes
             /\ Parser!NodeRank[node.parts[1]] < Parser!NodeRank[node]
             /\ Parser!Leaves[node] = Parser!Leaves[node.parts[1]]
          \/ /\ node.kind = "bin"
             /\ node.parts = <<node.parts[1], node.parts[2]>>
             /\ node.parts[1] \in Parser!Nodes /\ node.parts[2] \in Parser!Nodes
             /\ Parser!NodeRank[node.parts[1]] < Parser!NodeRank[node]
             /\ Parser!NodeRank[node.parts[2]] < Parser!NodeRank[node]
             /\ Parser!Leaves[node]
                  = Parser!Leaves[node.parts[1]] \o Parser!Leaves[node.parts[2]]

LEMMA ChartHoldsTrees == ParserOK => NodesAreTrees
<1>1. \A s : Parser!Distinct(s) <=> Distinct(s)
  BY DEF Parser!Distinct, Distinct
<1> QED
  BY <1>1, Parser!NodeShape, ParserAssumptions, NamesAssumption DEF ParserOK, NodesAreTrees

\* The places of the tokens below a node.
Places(node) == Range(Parser!Leaves[node])

\* The nodes are next to each other and together stand over the places.
Covers(nodes, places) ==
  /\ nodes \in Seq(Parser!Nodes)
  /\ \A m \in DOMAIN nodes : Places(nodes[m]) \subseteq places
  /\ \A m, o \in DOMAIN nodes : \A place \in Places(nodes[m]) :
       place \in Places(nodes[o]) => m = o
  /\ \A place \in places : \E m \in DOMAIN nodes : place \in Places(nodes[m])

LEMMA CoversOne == ASSUME NEW node \in Parser!Nodes PROVE Covers(<<node>>, Places(node))
BY DEF Covers

LEMMA CoversConcat ==
  ASSUME NEW s, NEW t, NEW A, NEW B, Covers(s, A), Covers(t, B), A \cap B = {}
  PROVE  Covers(s \o t, A \cup B)
<1>1. s \in Seq(Parser!Nodes) /\ t \in Seq(Parser!Nodes) /\ s \o t \in Seq(Parser!Nodes)
  BY DEF Covers
<1>2. ASSUME NEW m \in DOMAIN (s \o t)
      PROVE  \/ m \in DOMAIN s /\ (s \o t)[m] = s[m]
             \/ m - Len(s) \in DOMAIN t /\ (s \o t)[m] = t[m - Len(s)]
  BY <1>1
<1>3. ASSUME NEW m \in DOMAIN s
      PROVE  m \in DOMAIN (s \o t) /\ (s \o t)[m] = s[m]
  BY <1>1
<1>4. ASSUME NEW m \in DOMAIN t
      PROVE  m + Len(s) \in DOMAIN (s \o t) /\ (s \o t)[m + Len(s)] = t[m]
  BY <1>1
<1>5. ASSUME NEW m \in DOMAIN (s \o t) PROVE Places((s \o t)[m]) \subseteq A \cup B
  BY <1>2 DEF Covers
<1>6. ASSUME NEW m \in DOMAIN (s \o t), NEW o \in DOMAIN (s \o t),
             NEW place \in Places((s \o t)[m]), place \in Places((s \o t)[o])
      PROVE  m = o
  <2>1. m \in Int /\ o \in Int /\ Len(s) \in Int
    BY <1>1
  <2>2. CASE m \in DOMAIN s /\ (s \o t)[m] = s[m]
    <3>1. place \notin B
      BY <1>6, <2>2 DEF Covers
    <3>2. o \in DOMAIN s /\ (s \o t)[o] = s[o]
      BY <1>2, <1>6, <3>1 DEF Covers
    <3> QED
      BY <1>6, <2>2, <3>2 DEF Covers
  <2>3. CASE m - Len(s) \in DOMAIN t /\ (s \o t)[m] = t[m - Len(s)]
    <3>1. place \notin A
      BY <1>6, <2>3 DEF Covers
    <3>2. o - Len(s) \in DOMAIN t /\ (s \o t)[o] = t[o - Len(s)]
      BY <1>2, <1>6, <3>1 DEF Covers
    <3>3. m - Len(s) = o - Len(s)
      BY <1>6, <2>3, <3>2 DEF Covers
    <3> QED
      BY <2>1, <3>3
  <2> QED
    BY <1>2, <2>2, <2>3
<1>7. ASSUME NEW place \in A \cup B
      PROVE  \E m \in DOMAIN (s \o t) : place \in Places((s \o t)[m])
  <2>1. CASE place \in A
    BY <1>3, <2>1 DEF Covers
  <2>2. CASE place \in B
    <3>1. PICK m \in DOMAIN t : place \in Places(t[m])
      BY <2>2 DEF Covers
    <3> QED
      BY <1>4, <3>1
  <2> QED
    BY <2>1, <2>2
<1> QED
  BY <1>1, <1>5, <1>6, <1>7 DEF Covers

-----------------------------------------------------------------------------
(* unfold.                                                                  *)

\* What is below a node, given what is below its parts.
BelowRule(below, node) ==
  LET unfolded(m) == Unfold(node.parts[m], node.nodetype, below[node.parts[m]])
  IN  CASE node.kind = "token" -> <<>>
        [] node.kind = "unit"  -> unfolded(1)
        [] node.kind = "bin"   -> MergeTrees(unfolded(1), unfolded(2))

IsBelow(below) == below = [node \in Parser!Nodes |-> BelowRule(below, node)]

LEMMA BelowChosen == (\E f : IsBelow(f)) => IsBelow(Below)
BY DEF IsBelow, BelowRule, Below

LEMMA UnfoldType ==
  ASSUME NEW node \in Parser!Nodes, NEW parent, NEW below \in Seq(Parser!Nodes)
  PROVE  Unfold(node, parent, below) \in Seq(Parser!Nodes)
BY DEF Unfold

\* unfold comes to an end: a node's branch is made of its parts' branches.
LEMMA BelowExists == NodesAreTrees => IsBelow(Below)
<1> SUFFICES ASSUME NodesAreTrees PROVE IsBelow(Below)
  OBVIOUS
<1> DEFINE N == Parser!Nodes
           T == Seq(N)
           R == Parser!NodeRank
           G == [f \in [N -> T] |-> [node \in N |-> BelowRule(f, node)]]
<1>1. ASSUME NEW f \in [N -> T], NEW node \in N PROVE BelowRule(f, node) \in T
  <2>1. CASE node.kind = "token"
    BY <2>1 DEF BelowRule
  <2>2. CASE node.kind = "unit"
    BY <2>2, UnfoldType DEF NodesAreTrees, BelowRule
  <2>3. CASE node.kind = "bin"
    <3>1. \A m \in {1, 2} : Unfold(node.parts[m], node.nodetype, f[node.parts[m]]) \in T
      BY <2>3, UnfoldType DEF NodesAreTrees
    <3> QED
      BY <2>3, <3>1 DEF BelowRule, MergeTrees
  <2> QED
    BY <2>1, <2>2, <2>3 DEF NodesAreTrees
<1>2. G \in [[N -> T] -> [N -> T]] /\ R \in [N -> Nat]
  BY <1>1 DEF NodesAreTrees
<1>3. ASSUME NEW f \in [N -> T], NEW h \in [N -> T], NEW node \in N,
             \A y \in N : R[y] < R[node] => f[y] = h[y]
      PROVE  G[f][node] = G[h][node]
  BY <1>3 DEF NodesAreTrees, BelowRule
<1>4. LooksBelow(G, N, T, R) /\ <<>> \in T
  <2>1. LooksBelow(G, N, T, R)
    <3> HIDE DEF G, N, T, R
    <3> QED BY <1>2, <1>3 DEF LooksBelow
  <2> QED BY <2>1
<1>5. PICK f \in [N -> T] : f = G[f]
  <2> HIDE DEF G, R, N, T
  <2> QED BY <1>4, RecursionExists
<1>6. IsBelow(f)
  BY <1>5 DEF IsBelow
<1> QED
  BY <1>6, BelowChosen

\* The branch below a node: parts of lower rank that cover its tokens.
BelowOK(node) ==
  /\ Below[node] \in Seq(Parser!Nodes)
  /\ \A m \in DOMAIN Below[node] :
       Parser!NodeRank[Below[node][m]] < Parser!NodeRank[node]
  /\ node.kind # "token" => Covers(Below[node], Places(node))

LEMMA UnfoldOK ==
  ASSUME NodesAreTrees, NEW node \in Parser!Nodes, BelowOK(node), NEW parent
  PROVE  /\ Covers(Unfold(node, parent, Below[node]), Places(node))
         /\ \A m \in DOMAIN Unfold(node, parent, Below[node]) :
              Parser!NodeRank[Unfold(node, parent, Below[node])[m]] <= Parser!NodeRank[node]
<1>1. CASE node.kind # "token" /\ (IsCompacted(node) \/ parent = node.nodetype)
  <2>1. Unfold(node, parent, Below[node]) = Below[node]
    BY <1>1 DEF Unfold
  <2>2. ASSUME NEW m \in DOMAIN Below[node]
        PROVE  Parser!NodeRank[Below[node][m]] <= Parser!NodeRank[node]
    <3>1. Below[node][m] \in Parser!Nodes
      BY DEF BelowOK
    <3> QED
      BY <3>1 DEF BelowOK, NodesAreTrees
  <2> QED
    BY <1>1, <2>1, <2>2 DEF BelowOK
<1>2. CASE ~ (node.kind # "token" /\ (IsCompacted(node) \/ parent = node.nodetype))
  <2>1. Unfold(node, parent, Below[node]) = <<node>>
    BY <1>2 DEF Unfold
  <2>2. Parser!NodeRank[node] \in Nat
    BY DEF NodesAreTrees
  <2> QED
    BY <2>1, <2>2, CoversOne
<1> QED
  BY <1>1, <1>2

LEMMA BelowCovers == NodesAreTrees => \A node \in Parser!Nodes : BelowOK(node)
<1> SUFFICES ASSUME NodesAreTrees PROVE \A node \in Parser!Nodes : BelowOK(node)
  OBVIOUS
<1> DEFINE N == Parser!Nodes
           R == Parser!NodeRank
           I == {node \in N : BelowOK(node)}
<1>1. \A node \in N : Below[node] = BelowRule(Below, node)
  BY BelowExists DEF IsBelow
<1>2. ASSUME NEW node \in N, \A y \in N : R[y] < R[node] => BelowOK(y)
      PROVE  BelowOK(node)
  <2>1. CASE node.kind = "token"
    <3>1. Below[node] = <<>>
      BY <1>1, <2>1 DEF BelowRule
    <3> QED
      BY <2>1, <3>1 DEF BelowOK
  <2>2. CASE node.kind = "unit"
    <3> DEFINE a == node.parts[1]
               u == Unfold(a, node.nodetype, Below[a])
    <3>1. a \in N /\ R[a] < R[node] /\ Places(node) = Places(a) /\ R[a] \in Nat /\ R[node] \in Nat
      BY <2>2 DEF NodesAreTrees, Places
    <3>2. Below[node] = u
      BY <1>1, <2>2 DEF BelowRule
    <3>3. Covers(u, Places(a)) /\ \A m \in DOMAIN u : R[u[m]] <= R[a]
      BY <1>2, <3>1, UnfoldOK
    <3> HIDE DEF u, a
    <3>4. ASSUME NEW m \in DOMAIN u PROVE R[u[m]] < R[node]
      <4>1. u[m] \in N
        BY <3>3 DEF Covers
      <4>2. R[u[m]] \in Nat
        BY <4>1 DEF NodesAreTrees
      <4> QED
        BY <3>1, <3>3, <4>2
    <3> QED
      BY <3>1, <3>2, <3>3, <3>4 DEF BelowOK, Covers
  <2>3. CASE node.kind = "bin"
    <3> DEFINE a == node.parts[1]
               b == node.parts[2]
               u == Unfold(a, node.nodetype, Below[a])
               v == Unfold(b, node.nodetype, Below[b])
    <3>1. /\ a \in N /\ R[a] < R[node] /\ R[a] \in Nat /\ R[node] \in Nat
          /\ b \in N /\ R[b] < R[node] /\ R[b] \in Nat
          /\ Parser!Leaves[node] = Parser!Leaves[a] \o Parser!Leaves[b]
          /\ Parser!Leaves[a] \in Seq(Nat) /\ Parser!Leaves[b] \in Seq(Nat)
          /\ Distinct(Parser!Leaves[node])
      BY <2>3 DEF NodesAreTrees
    <3>2. Below[node] = u \o v
      BY <1>1, <2>3 DEF BelowRule, MergeTrees
    <3>3. Covers(u, Places(a)) /\ \A m \in DOMAIN u : R[u[m]] <= R[a]
      BY <1>2, <3>1, UnfoldOK
    <3>4. Covers(v, Places(b)) /\ \A m \in DOMAIN v : R[v[m]] <= R[b]
      BY <1>2, <3>1, UnfoldOK
    <3> HIDE DEF u, v, a, b
    <3>5. Places(node) = Places(a) \cup Places(b)
      BY <3>1, RangeOfConcat DEF Places
    <3>6. Places(a) \cap Places(b) = {}
      BY <3>1, DistinctApart DEF Places
    <3>7. Covers(u \o v, Places(node))
      BY <3>3, <3>4, <3>5, <3>6, CoversConcat
    <3>8. ASSUME NEW m \in DOMAIN (u \o v) PROVE R[(u \o v)[m]] < R[node]
      <4>1. u \in Seq(N) /\ v \in Seq(N)
        BY <3>3, <3>4 DEF Covers
      <4>2. \/ m \in DOMAIN u /\ (u \o v)[m] = u[m]
            \/ m - Len(u) \in DOMAIN v /\ (u \o v)[m] = v[m - Len(u)]
        BY <4>1
      <4>3. (u \o v)[m] \in N
        BY <4>1
      <4>4. R[(u \o v)[m]] \in Nat
        BY <4>3 DEF NodesAreTrees
      <4>5. R[(u \o v)[m]] <= R[a] \/ R[(u \o v)[m]] <= R[b]
        BY <3>3, <3>4, <4>2
      <4> QED
        BY <3>1, <4>4, <4>5
    <3> QED
      BY <3>2, <3>7, <3>8 DEF BelowOK, Covers
  <2> QED
    BY <2>1, <2>2, <2>3 DEF NodesAreTrees
<1>3. R \in [N -> Nat]
  BY DEF NodesAreTrees
<1>4. \A node \in N : (\A y \in N : R[y] < R[node] => y \in I) => node \in I
  BY <1>2
<1>5. N \subseteq I
  <2> HIDE DEF I, R, N
  <2> QED BY <1>3, <1>4, RankInduction
<1> QED
  BY <1>5

-----------------------------------------------------------------------------
(* strUnfold.                                                               *)

TextRule(text, node) ==
  IF node.kind = "token" THEN node.parts
  ELSE FlattenSeq([m \in DOMAIN Below[node] |-> text[Below[node][m]]])

IsText(text) == text = [node \in Parser!Nodes |-> TextRule(text, node)]

LEMMA TextChosen == (\E f : IsText(f)) => IsText(StrUnfold)
BY DEF IsText, TextRule, StrUnfold

\* The texts of the parts of a branch.
LEMMA TextsOfParts ==
  ASSUME NEW nodes \in Seq(Parser!Nodes), NEW text,
         \A m \in DOMAIN nodes : text[nodes[m]] \in Seq(Nat)
  PROVE  [m \in DOMAIN nodes |-> text[nodes[m]]] \in Seq(Seq(Nat))
<1>1. DOMAIN nodes = 1..Len(nodes) /\ Len(nodes) \in Nat
  OBVIOUS
<1> QED
  BY <1>1

LEMMA TextExists == NodesAreTrees => IsText(StrUnfold)
<1> SUFFICES ASSUME NodesAreTrees PROVE IsText(StrUnfold)
  OBVIOUS
<1> DEFINE N == Parser!Nodes
           T == Seq(Nat)
           R == Parser!NodeRank
           G == [f \in [N -> T] |-> [node \in N |-> TextRule(f, node)]]
<1>1. ASSUME NEW f \in [N -> T], NEW node \in N PROVE TextRule(f, node) \in T
  <2>1. CASE node.kind = "token"
    <3>1. node.parts \in T
      BY <2>1 DEF NodesAreTrees
    <3> QED
      BY <2>1, <3>1 DEF TextRule
  <2>2. CASE node.kind # "token"
    <3>1. Below[node] \in Seq(N)
      BY BelowCovers DEF BelowOK
    <3>2. \A m \in DOMAIN Below[node] : f[Below[node][m]] \in Seq(Nat)
      BY <3>1
    <3>3. [m \in DOMAIN Below[node] |-> f[Below[node][m]]] \in Seq(Seq(Nat))
      BY <3>1, <3>2, TextsOfParts
    <3>4. FlattenSeq([m \in DOMAIN Below[node] |-> f[Below[node][m]]]) \in Seq(Nat)
      BY <3>3, FlattenType
    <3> QED
      BY <2>2, <3>4 DEF TextRule
  <2> QED
    BY <2>1, <2>2
<1>2. G \in [[N -> T] -> [N -> T]] /\ R \in [N -> Nat]
  BY <1>1 DEF NodesAreTrees
<1>3. ASSUME NEW f \in [N -> T], NEW h \in [N -> T], NEW node \in N,
             \A y \in N : R[y] < R[node] => f[y] = h[y]
      PROVE  G[f][node] = G[h][node]
  <2>1. Below[node] \in Seq(N) /\ \A m \in DOMAIN Below[node] : R[Below[node][m]] < R[node]
    BY BelowCovers DEF BelowOK
  <2>2. ASSUME NEW m \in DOMAIN Below[node] PROVE f[Below[node][m]] = h[Below[node][m]]
    <3>1. Below[node][m] \in N
      BY <2>1
    <3> QED
      BY <1>3, <2>1, <3>1
  <2>3. [m \in DOMAIN Below[node] |-> f[Below[node][m]]]
          = [m \in DOMAIN Below[node] |-> h[Below[node][m]]]
    BY <2>2
  <2>4. TextRule(f, node) = TextRule(h, node)
    BY <2>3 DEF TextRule
  <2> QED
    BY <2>4
<1>4. LooksBelow(G, N, T, R) /\ <<>> \in T
  <2>1. LooksBelow(G, N, T, R)
    <3> HIDE DEF G, N, T, R
    <3> QED BY <1>2, <1>3 DEF LooksBelow
  <2> QED BY <2>1
<1>5. PICK f \in [N -> T] : f = G[f]
  <2> HIDE DEF G, R, N, T
  <2> QED BY <1>4, RecursionExists
<1>6. IsText(f)
  BY <1>5 DEF IsText
<1> QED
  BY <1>6, TextChosen

\* The text of a node is made of its tokens, each once.
TextOK(node) ==
  /\ StrUnfold[node] \in Seq(Nat)
  /\ Distinct(StrUnfold[node])
  /\ Range(StrUnfold[node]) = Places(node)

LEMMA TextIsTokens == NodesAreTrees => \A node \in Parser!Nodes : TextOK(node)
<1> SUFFICES ASSUME NodesAreTrees PROVE \A node \in Parser!Nodes : TextOK(node)
  OBVIOUS
<1> DEFINE N == Parser!Nodes
           R == Parser!NodeRank
           I == {node \in N : TextOK(node)}
<1>1. \A node \in N : StrUnfold[node] = TextRule(StrUnfold, node)
  BY TextExists DEF IsText
<1>2. ASSUME NEW node \in N, \A y \in N : R[y] < R[node] => TextOK(y)
      PROVE  TextOK(node)
  <2>1. CASE node.kind = "token"
    <3>1. /\ StrUnfold[node] = Parser!Leaves[node]
          /\ Parser!Leaves[node] \in Seq(Nat) /\ Distinct(Parser!Leaves[node])
      BY <1>1, <2>1 DEF NodesAreTrees, TextRule
    <3> QED
      BY <3>1 DEF TextOK, Places
  <2>2. CASE node.kind # "token"
    <3> DEFINE b == Below[node]
               ss == [m \in DOMAIN b |-> StrUnfold[b[m]]]
    <3>1. /\ b \in Seq(N) /\ \A m \in DOMAIN b : R[b[m]] < R[node]
          /\ Covers(b, Places(node))
      BY <2>2, BelowCovers DEF BelowOK
    <3>2. StrUnfold[node] = FlattenSeq(ss)
      BY <1>1, <2>2 DEF TextRule
    <3> HIDE DEF b
    <3>3. \A m \in DOMAIN b : b[m] \in N
      BY <3>1
    <3>4. \A m \in DOMAIN b : TextOK(b[m])
      BY <1>2, <3>1, <3>3
    <3>5. ss \in Seq(Seq(Nat)) /\ DOMAIN ss = DOMAIN b
      BY <3>1, <3>4, TextsOfParts DEF TextOK
    <3>6. \A m \in DOMAIN ss : ss[m] = StrUnfold[b[m]]
      BY <3>5
    <3> HIDE DEF ss
    <3>7. \A m \in DOMAIN ss : Distinct(ss[m]) /\ Range(ss[m]) = Places(b[m])
      BY <3>4, <3>5, <3>6 DEF TextOK
    <3>8. \A m, o \in DOMAIN ss : \A x \in Range(ss[m]) : x \in Range(ss[o]) => m = o
      BY <3>1, <3>5, <3>7 DEF Covers
    <3>9. FlattenSeq(ss) \in Seq(Nat) /\ Distinct(FlattenSeq(ss))
      BY <3>5, <3>7, <3>8, FlattenType, FlattenDistinct
    <3>10. \A x : x \in Range(FlattenSeq(ss)) <=> \E m \in DOMAIN ss : x \in Range(ss[m])
      BY <3>5, FlattenRange
    <3>11. \A x : x \in Range(FlattenSeq(ss)) <=> x \in Places(node)
      BY <3>1, <3>5, <3>7, <3>10 DEF Covers
    <3> QED
      BY <3>2, <3>9, <3>11 DEF TextOK
  <2> QED
    BY <2>1, <2>2
<1>3. R \in [N -> Nat]
  BY DEF NodesAreTrees
<1>4. \A node \in N : (\A y \in N : R[y] < R[node] => y \in I) => node \in I
  BY <1>2
<1>5. N \subseteq I
  <2> HIDE DEF I, R, N
  <2> QED BY <1>3, <1>4, RankInduction
<1> QED
  BY <1>5

-----------------------------------------------------------------------------
(* parse.                                                                   *)

ParsedRule(parsed, node) == ParseParts(parsed, Below[node], NameOf(node))

IsParsed(parsed) == parsed = [node \in Parser!Nodes |-> ParsedRule(parsed, node)]

LEMMA ParsedChosen == (\E f : IsParsed(f)) => IsParsed(Parsed)
BY DEF IsParsed, ParsedRule, Parsed

\* Where the first part is that is named AXIOM, if there is one.
AxiomParts(parts) == {m \in DOMAIN parts : parts[m].nodetype = <<Axiom>>}

FirstAxiom(parts) ==
  CHOOSE m \in AxiomParts(parts) : \A o \in AxiomParts(parts) : m <= o

LEMMA FirstAxiomIsPart ==
  ASSUME NEW parts \in Seq(Parser!Nodes), AxiomParts(parts) # {}
  PROVE  FirstAxiom(parts) \in DOMAIN parts
<1>1. AxiomParts(parts) \in SUBSET Nat /\ AxiomParts(parts) \subseteq DOMAIN parts
  BY DEF AxiomParts
<1>2. \E m \in AxiomParts(parts) : \A o \in AxiomParts(parts) : m <= o
  BY <1>1, LeastNat
<1> QED
  BY <1>1, <1>2 DEF FirstAxiom

\* The texts that a part adds, below what precedes it on their paths.
Added(parsed, parts, parent, m) ==
  Inside(<<NodeLabel(parent, parts[m]), m>>, Stored(parent, parts[m], parsed[parts[m]]))

LEMMA ParsePartsIs ==
  ASSUME NEW parsed, NEW parts, NEW parent
  PROVE  ParseParts(parsed, parts, parent) =
           IF AxiomParts(parts) # {} THEN parsed[parts[FirstAxiom(parts)]]
           ELSE Text(<<>>) \cup UNION {Added(parsed, parts, parent, m) : m \in DOMAIN parts}
BY DEF ParseParts, AxiomParts, FirstAxiom, Added

\* The steps of the paths, and the property trees.
Steps == {NodeLabel(NameOf(x[1]), x[2]) : x \in Parser!Nodes \X Parser!Nodes} \X Nat

PropertyTree == SUBSET (Seq(Steps) \X Seq(Nat))

LEMMA TextType ==
  /\ \A places \in Seq(Nat) : Text(places) \in PropertyTree
  /\ Text(<<>>) \in PropertyTree
<1>1. <<>> \in Seq(Steps) /\ <<>> \in Seq(Nat)
  OBVIOUS
<1>2. \A places \in Seq(Nat) : <<<<>>, places>> \in Seq(Steps) \X Seq(Nat)
  BY <1>1
<1> QED
  BY <1>1, <1>2 DEF Text, PropertyTree

LEMMA InsideType ==
  ASSUME NEW data \in PropertyTree, NEW step \in Steps
  PROVE  Inside(step, data) \in PropertyTree
<1> SUFFICES ASSUME NEW y \in Inside(step, data) PROVE y \in Seq(Steps) \X Seq(Nat)
  BY DEF PropertyTree
<1>1. PICK x \in data : y = <<<<step>> \o x[1], x[2]>>
  BY DEF Inside
<1>2. x[1] \in Seq(Steps) /\ x[2] \in Seq(Nat)
  BY DEF PropertyTree
<1>3. <<step>> \o x[1] \in Seq(Steps)
  BY <1>2
<1> QED
  BY <1>1, <1>2, <1>3

LEMMA StoredType ==
  ASSUME NodesAreTrees, NEW part \in Parser!Nodes, NEW parent, NEW below \in PropertyTree
  PROVE  Stored(parent, part, below) \in PropertyTree
<1>1. StrUnfold[part] \in Seq(Nat)
  BY TextIsTokens DEF TextOK
<1>2. part.kind = "token" => part.parts \in Seq(Nat)
  BY DEF NodesAreTrees
<1>3. {} \in PropertyTree
  BY DEF PropertyTree
<1> QED
  BY <1>1, <1>2, <1>3, TextType DEF Stored

LEMMA ParsedExists == NodesAreTrees => IsParsed(Parsed)
<1> SUFFICES ASSUME NodesAreTrees PROVE IsParsed(Parsed)
  OBVIOUS
<1> DEFINE N == Parser!Nodes
           T == PropertyTree
           R == Parser!NodeRank
           G == [f \in [N -> T] |-> [node \in N |-> ParsedRule(f, node)]]
<1>1. ASSUME NEW f \in [N -> T], NEW node \in N PROVE ParsedRule(f, node) \in T
  <2> DEFINE b == Below[node]
             name == NameOf(node)
  <2>1. b \in Seq(N) /\ \A m \in DOMAIN b : b[m] \in N /\ m \in Nat
    BY BelowCovers DEF BelowOK
  <2>2. CASE AxiomParts(b) # {}
    <3>1. b[FirstAxiom(b)] \in N
      BY <2>1, <2>2, FirstAxiomIsPart
    <3> HIDE DEF b, N, T
    <3> QED
      BY <2>2, <3>1, ParsePartsIs DEF ParsedRule, b
  <2>3. CASE AxiomParts(b) = {}
    <3>1. ASSUME NEW m \in DOMAIN b PROVE Added(f, b, name, m) \in T
      <4>1. b[m] \in N /\ m \in Nat /\ f[b[m]] \in T
        BY <2>1
      <4>2. <<NodeLabel(name, b[m]), m>> \in Steps
        <5>1. <<node, b[m]>> \in N \X N
          BY <4>1
        <5> QED
          BY <4>1, <5>1 DEF Steps
      <4> HIDE DEF b, name
      <4>3. Stored(name, b[m], f[b[m]]) \in T
        BY <4>1, StoredType
      <4> QED
        BY <4>2, <4>3, InsideType DEF Added
    <3>2. Text(<<>>) \in T
      BY TextType
    <3> HIDE DEF b, name
    <3>3. Text(<<>>) \cup UNION {Added(f, b, name, m) : m \in DOMAIN b} \in T
      BY <3>1, <3>2 DEF PropertyTree
    <3> QED
      BY <2>3, <3>3, ParsePartsIs DEF ParsedRule, b, name
  <2> QED
    BY <2>2, <2>3
<1>2. G \in [[N -> T] -> [N -> T]] /\ R \in [N -> Nat]
  <2>1. \A f \in [N -> T] : [node \in N |-> ParsedRule(f, node)] \in [N -> T]
    BY <1>1
  <2>2. R \in [N -> Nat]
    BY DEF NodesAreTrees
  <2> HIDE DEF N, T, R
  <2> QED
    BY <2>1, <2>2
<1>3. ASSUME NEW f \in [N -> T], NEW h \in [N -> T], NEW node \in N,
             \A y \in N : R[y] < R[node] => f[y] = h[y]
      PROVE  G[f][node] = G[h][node]
  <2> DEFINE b == Below[node]
             name == NameOf(node)
  <2>1. b \in Seq(N) /\ \A m \in DOMAIN b : R[b[m]] < R[node] /\ b[m] \in N
    BY BelowCovers DEF BelowOK
  <2>2. \A m \in DOMAIN b : f[b[m]] = h[b[m]]
    BY <1>3, <2>1
  <2>3. AxiomParts(b) # {} => FirstAxiom(b) \in DOMAIN b
    BY <2>1, FirstAxiomIsPart
  <2> HIDE DEF b, name
  <2>4. \A m \in DOMAIN b : Added(f, b, name, m) = Added(h, b, name, m)
    BY <2>2 DEF Added
  <2>5. UNION {Added(f, b, name, m) : m \in DOMAIN b}
          = UNION {Added(h, b, name, m) : m \in DOMAIN b}
    BY <2>4
  <2>6. ParseParts(f, b, name) = ParseParts(h, b, name)
    BY <2>2, <2>3, <2>5, ParsePartsIs
  <2>7. ParsedRule(f, node) = ParsedRule(h, node)
    BY <2>6 DEF ParsedRule, b, name
  <2> HIDE DEF N, T
  <2> QED
    BY <2>7
<1>4. LooksBelow(G, N, T, R) /\ Text(<<>>) \in T
  <2>1. LooksBelow(G, N, T, R)
    <3> HIDE DEF G, N, T, R
    <3> QED BY <1>2, <1>3 DEF LooksBelow
  <2> QED BY <2>1, TextType
<1>5. PICK f \in [N -> T] : f = G[f]
  <2> HIDE DEF G, R, N, T
  <2> QED BY <1>4, RecursionExists
<1>6. IsParsed(f)
  <2> HIDE DEF N, T
  <2> QED BY <1>5 DEF IsParsed, N
<1> QED
  BY <1>6, ParsedChosen

\* The texts are of different tokens, each once, and all among the places.
Tidy(data, places) ==
  /\ \A x \in data : Distinct(x[2])
  /\ \A x, y \in data : \A place \in Range(x[2]) : place \in Range(y[2]) => x = y
  /\ Values(data) \subseteq places

LEMMA TextTidy ==
  ASSUME NEW text, NEW places, Distinct(text), Range(text) \subseteq places
  PROVE  Tidy(Text(text), places)
BY DEF Text, Tidy, Values

LEMMA InsideTidy ==
  ASSUME NEW data, NEW places, NEW step, Tidy(data, places)
  PROVE  Tidy(Inside(step, data), places)
<1>1. ASSUME NEW y \in Inside(step, data)
      PROVE  \E x \in data : y = <<<<step>> \o x[1], x[2]>> /\ y[2] = x[2]
  BY DEF Inside
<1>2. \A y \in Inside(step, data) : Distinct(y[2])
  BY <1>1 DEF Tidy
<1>3. ASSUME NEW y \in Inside(step, data), NEW z \in Inside(step, data),
             NEW place \in Range(y[2]), place \in Range(z[2])
      PROVE  y = z
  <2>1. PICK x \in data : y = <<<<step>> \o x[1], x[2]>> /\ y[2] = x[2]
    BY <1>1
  <2>2. PICK w \in data : z = <<<<step>> \o w[1], w[2]>> /\ z[2] = w[2]
    BY <1>1
  <2>3. x = w
    BY <1>3, <2>1, <2>2 DEF Tidy
  <2> QED
    BY <2>1, <2>2, <2>3
<1>4. Values(Inside(step, data)) \subseteq places
  <2> SUFFICES ASSUME NEW y \in Inside(step, data), NEW place \in Range(y[2])
               PROVE  place \in places
    BY DEF Values
  <2>1. PICK x \in data : y[2] = x[2]
    BY <1>1
  <2> QED
    BY <2>1 DEF Tidy, Values
<1> QED
  BY <1>2, <1>3, <1>4 DEF Tidy

LEMMA StoredTidy ==
  ASSUME NodesAreTrees, NEW part \in Parser!Nodes, NEW parent, NEW below,
         Tidy(below, Places(part))
  PROVE  Tidy(Stored(parent, part, below), Places(part))
<1>1. Tidy(Text(StrUnfold[part]), Places(part))
  BY TextIsTokens, TextTidy DEF TextOK
<1>2. part.kind = "token" => Tidy(Text(part.parts), Places(part))
  <2>1. part.kind = "token" => Distinct(part.parts) /\ Range(part.parts) = Places(part)
    BY DEF NodesAreTrees, Places
  <2> QED
    BY <2>1, TextTidy
<1>3. Tidy({}, Places(part))
  BY DEF Tidy, Values
<1> QED
  BY <1>1, <1>2, <1>3 DEF Stored

\* Parts that stand next to each other have no text in common.
LEMMA ParsePartsTidy ==
  ASSUME NodesAreTrees, NEW parsed, NEW parts, NEW parent, NEW places, Covers(parts, places),
         \A m \in DOMAIN parts : Tidy(parsed[parts[m]], Places(parts[m]))
  PROVE  Tidy(ParseParts(parsed, parts, parent), places)
<1>1. parts \in Seq(Parser!Nodes) /\ \A m \in DOMAIN parts : parts[m] \in Parser!Nodes
  BY DEF Covers
<1>2. CASE AxiomParts(parts) # {}
  <2> DEFINE m == FirstAxiom(parts)
  <2>1. m \in DOMAIN parts
    BY <1>1, <1>2, FirstAxiomIsPart
  <2>2. Tidy(parsed[parts[m]], Places(parts[m])) /\ Places(parts[m]) \subseteq places
    BY <2>1 DEF Covers
  <2>3. Tidy(parsed[parts[m]], places)
    BY <2>2 DEF Tidy
  <2> QED
    BY <1>2, <2>3, ParsePartsIs
<1>3. CASE AxiomParts(parts) = {}
  <2> DEFINE A(m) == Added(parsed, parts, parent, m)
             out == Text(<<>>) \cup UNION {A(m) : m \in DOMAIN parts}
  <2>1. ASSUME NEW m \in DOMAIN parts PROVE Tidy(A(m), Places(parts[m]))
    BY <1>1, StoredTidy, InsideTidy DEF Added
  <2> HIDE DEF A
  <2>2. ASSUME NEW x \in out
        PROVE  x = <<<<>>, <<>>>> \/ \E m \in DOMAIN parts : x \in A(m)
    BY DEF Text
  <2>3. Range(<<>>) = {} /\ Distinct(<<>>)
    BY DEF Range, Distinct
  <2>4. \A m \in DOMAIN parts : \A x \in A(m) :
          Distinct(x[2]) /\ Range(x[2]) \subseteq Places(parts[m])
    BY <2>1 DEF Tidy, Values
  <2> HIDE DEF out
  <2>5. \A x \in out : Distinct(x[2])
    <3> SUFFICES ASSUME NEW x \in out PROVE Distinct(x[2])
      OBVIOUS
    <3>1. CASE x = <<<<>>, <<>>>>
      BY <2>3, <3>1
    <3> QED
      BY <2>2, <2>4, <3>1
  <2>6. ASSUME NEW x \in out, NEW y \in out,
               NEW place \in Range(x[2]), place \in Range(y[2])
        PROVE  x = y
    <3>1. x # <<<<>>, <<>>>> /\ y # <<<<>>, <<>>>>
      BY <2>3, <2>6
    <3>2. PICK m \in DOMAIN parts : x \in A(m)
      BY <2>2, <3>1
    <3>3. PICK o \in DOMAIN parts : y \in A(o)
      BY <2>2, <3>1
    <3>4. place \in Places(parts[m]) /\ place \in Places(parts[o])
      BY <2>4, <2>6, <3>2, <3>3
    <3>5. m = o
      BY <3>4 DEF Covers
    <3> QED
      BY <2>1, <2>6, <3>2, <3>3, <3>5 DEF Tidy
  <2>7. Values(out) \subseteq places
    <3> SUFFICES ASSUME NEW x \in out, NEW place \in Range(x[2]) PROVE place \in places
      BY DEF Values
    <3>1. x # <<<<>>, <<>>>>
      BY <2>3
    <3>2. PICK m \in DOMAIN parts : x \in A(m)
      BY <2>2, <3>1
    <3> QED
      BY <2>4, <3>2 DEF Covers
  <2>8. Tidy(out, places)
    BY <2>5, <2>6, <2>7 DEF Tidy
  <2> QED
    BY <1>3, <2>8, ParsePartsIs DEF out, A
<1> QED
  BY <1>2, <1>3

\* So the property tree that parse makes of a branch is tidy.
LEMMA ParsedTidy ==
  NodesAreTrees => \A node \in Parser!Nodes : Tidy(Parsed[node], Places(node))
<1> SUFFICES ASSUME NodesAreTrees
             PROVE  \A node \in Parser!Nodes : Tidy(Parsed[node], Places(node))
  OBVIOUS
<1> DEFINE N == Parser!Nodes
           R == Parser!NodeRank
           I == {node \in N : Tidy(Parsed[node], Places(node))}
<1>1. \A node \in N : Parsed[node] = ParseParts(Parsed, Below[node], NameOf(node))
  BY ParsedExists DEF IsParsed, ParsedRule
<1>2. ASSUME NEW node \in N, \A y \in N : R[y] < R[node] => Tidy(Parsed[y], Places(y))
      PROVE  Tidy(Parsed[node], Places(node))
  <2> DEFINE b == Below[node]
             places == IF node.kind = "token" THEN {} ELSE Places(node)
  <2>1. b \in Seq(N) /\ \A m \in DOMAIN b : R[b[m]] < R[node] /\ b[m] \in N
    BY BelowCovers DEF BelowOK
  <2>2. \A m \in DOMAIN b : Tidy(Parsed[b[m]], Places(b[m]))
    BY <1>2, <2>1
  <2>3. Covers(b, places)
    <3>1. CASE node.kind = "token"
      <4>1. b = <<>>
        BY <3>1, BelowExists DEF IsBelow, BelowRule
      <4>2. Covers(<<>>, {})
        BY DEF Covers
      <4> HIDE DEF b
      <4> QED
        BY <3>1, <4>1, <4>2
    <3>2. CASE node.kind # "token"
      BY <3>2, BelowCovers DEF BelowOK
    <3> QED
      BY <3>1, <3>2
  <2>4. Tidy(ParseParts(Parsed, b, NameOf(node)), places)
    <3> HIDE DEF b, places
    <3> QED BY <2>2, <2>3, ParsePartsTidy
  <2>5. places \subseteq Places(node)
    OBVIOUS
  <2> HIDE DEF places
  <2> QED
    BY <1>1, <2>4, <2>5 DEF Tidy
<1>3. R \in [N -> Nat]
  BY DEF NodesAreTrees
<1>4. \A node \in N : (\A y \in N : R[y] < R[node] => y \in I) => node \in I
  BY <1>2
<1>5. N \subseteq I
  <2> HIDE DEF I, R, N
  <2> QED BY <1>3, <1>4, RankInduction
<1> QED
  BY <1>5

\* A tree that is handed out is a node of the chart.
LEMMA TreeIsNode == ASSUME SessionInv, answer = "tree" PROVE tree \in Parser!Nodes
<1>1. /\ tree \in Range(frame) /\ Parser!CYKInv /\ Parser!FrameOK
  BY DEF SessionInv, ResultOK, ParserOK
<1>2. PICK c \in Parser!Cells : tree \in Parser!CellSets[c]
  BY <1>1, ParserAssumptions DEF Parser!FrameOK
<1> QED
  BY <1>1, <1>2, Parser!NodesOfCells, ParserAssumptions, NamesAssumption

LEMMA OutputIsTidy == SessionInv => SavedAtMostOnce
<1> SUFFICES ASSUME SessionInv, answer = "tree"
             PROVE  /\ \A x \in Output : IsInjective(x[2])
                    /\ \A x, y \in Output : x # y => Range(x[2]) \cap Range(y[2]) = {}
                    /\ Values(Output) \subseteq Range(Parser!Leaves[tree])
  BY DEF SavedAtMostOnce
<1>1. NodesAreTrees /\ tree \in Parser!Nodes
  BY ChartHoldsTrees, TreeIsNode DEF SessionInv
<1> DEFINE u == Unfold(tree, <<>>, Below[tree])
<1>2. Covers(u, Places(tree))
  BY <1>1, BelowCovers, UnfoldOK
<1>3. \A m \in DOMAIN u : Tidy(Parsed[u[m]], Places(u[m]))
  BY <1>1, <1>2, ParsedTidy DEF Covers
<1> HIDE DEF u
<1>4. Tidy(ParseParts(Parsed, u, <<>>), Places(tree))
  BY <1>1, <1>2, <1>3, ParsePartsTidy
<1>5. Tidy(Output, Places(tree))
  BY <1>4 DEF Output, u
<1>6. \A s : Distinct(s) => IsInjective(s)
  BY DEF Distinct, IsInjective
<1> QED
  BY <1>5, <1>6 DEF Tidy, Places

-----------------------------------------------------------------------------
(* What is marked is saved.                                                 *)

\* A node that stands for a token has the name of a token's rule.
LEMMA TokenNodesNamed ==
  ASSUME SessionInv, stage = "DONE", NEW node \in Parser!Nodes, node.kind = "token"
  PROVE  node.nodetype \in Normaliser!TokenName
<1>1. PICK t \in Terminal :
        /\ node.nodetype \in DOMAIN rules
        /\ <<Parser!TerminalOperand(t)>> \in Parser!Alternatives(rules, node.nodetype)
  BY Parser!PartNames, ParserAssumptions, NamesAssumption DEF SessionInv, ParserOK
<1> DEFINE rule == <<Parser!TerminalOperand(t)>>
<1>2. /\ rule \in Normaliser!Alternatives(rules, node.nodetype)
      /\ 1 \in DOMAIN rule /\ rule[1].type = "TERMINAL"
  BY <1>1 DEF Parser!Alternatives, Normaliser!Alternatives, Parser!TerminalOperand
<1>3. Normaliser!TokensNamed(rules)
  BY DEF SessionInv, NormalFormOK, Normaliser!NormalInv, Normaliser!LinksInv
<1> QED
  BY <1>1, <1>2, <1>3 DEF Normaliser!TokensNamed

\* The parts of a node have names of operands, and the axiom is none.
LEMMA PartsNotAxiom ==
  ASSUME SessionInv, stage = "DONE", AxiomIsNoOperand, NodesAreTrees,
         NEW node \in Parser!Nodes, node.kind # "token", NEW m \in DOMAIN node.parts
  PROVE  node.parts[m].nodetype # <<Axiom>>
<1>1. /\ Normaliser!AxiomApart(rules)
      /\ \A name \in DOMAIN unit : <<Axiom>> \notin unit[name]
  BY DEF SessionInv, NormalFormOK, Normaliser!NormalInv, Normaliser!AxiomInv,
     AxiomIsNoOperand, Normaliser!AxiomApart, Alternatives, Normaliser!Alternatives
<1>2. \/ /\ node.kind = "bin" /\ node.nodetype \in DOMAIN rules
         /\ \E rule \in Parser!Alternatives(rules, node.nodetype) :
              /\ Len(rule) > 1
              /\ rule[1].value = node.parts[1].nodetype
              /\ rule[2].value = node.parts[2].nodetype
      \/ /\ node.kind = "unit" /\ node.nodetype \in DOMAIN unit
         /\ node.parts[1].nodetype \in unit[node.nodetype]
  BY Parser!PartNames, ParserAssumptions, NamesAssumption DEF SessionInv, ParserOK
<1>3. CASE node.kind = "bin"
  <2>1. PICK rule \in Parser!Alternatives(rules, node.nodetype) :
          /\ Len(rule) > 1
          /\ rule[1].value = node.parts[1].nodetype
          /\ rule[2].value = node.parts[2].nodetype
    BY <1>2, <1>3
  <2>2. rule \in Normaliser!Alternatives(rules, node.nodetype) /\ node.nodetype \in DOMAIN rules
    BY <1>2, <1>3, <2>1 DEF Parser!Alternatives, Normaliser!Alternatives
  <2>3. rule \in Seq(Normaliser!Operand)
    <3>1. Normaliser!IsProductionRules(rules)
      BY DEF SessionInv, NormalFormOK, Normaliser!NormalInv, Normaliser!ExpansionInv,
         Normaliser!TypeOK
    <3> QED
      BY <2>2, <3>1 DEF Normaliser!IsProductionRules, Normaliser!Alternatives, Normaliser!Rule
  <2>4. 1 \in DOMAIN rule /\ 2 \in DOMAIN rule
    BY <2>1, <2>3
  <2>5. rule[1].value # <<Axiom>> /\ rule[2].value # <<Axiom>>
    BY <1>1, <2>2, <2>4 DEF Normaliser!AxiomApart
  <2>6. m \in {1, 2}
    <3>1. node.parts = <<node.parts[1], node.parts[2]>>
      BY <1>3 DEF NodesAreTrees
    <3> QED
      BY <3>1
  <2> QED
    BY <2>1, <2>5, <2>6
<1>4. CASE node.kind = "unit"
  <2>1. m = 1
    <3>1. node.parts = <<node.parts[1]>>
      BY <1>4 DEF NodesAreTrees
    <3> QED
      BY <3>1
  <2> QED
    BY <1>1, <1>2, <1>4, <2>1
<1> QED
  BY <1>2, <1>3, <1>4

\* What is below a node is below a part of it, or is a part of it.
LEMMA BelowIsOfParts ==
  ASSUME NodesAreTrees, NEW node \in Parser!Nodes, node.kind # "token"
  PROVE  /\ \A m \in DOMAIN node.parts :
              /\ node.parts[m] \in Parser!Nodes
              /\ Parser!NodeRank[node.parts[m]] < Parser!NodeRank[node]
              /\ Places(node.parts[m]) \subseteq Places(node)
              /\ Range(Unfold(node.parts[m], node.nodetype, Below[node.parts[m]]))
                   \subseteq Range(Below[node])
         /\ \A x \in Range(Below[node]) : \E m \in DOMAIN node.parts :
              x = node.parts[m] \/ x \in Range(Below[node.parts[m]])
<1> DEFINE u(m) == Unfold(node.parts[m], node.nodetype, Below[node.parts[m]])
<1>1. Below[node] = BelowRule(Below, node)
  BY BelowExists DEF IsBelow
<1>2. \A m : u(m) = <<node.parts[m]>> \/ u(m) = Below[node.parts[m]]
  BY DEF Unfold
<1>3. \A m : \A x \in Range(u(m)) :
        x = node.parts[m] \/ x \in Range(Below[node.parts[m]])
  <2>1. \A y : Range(<<y>>) = {y}
    BY DEF Range
  <2> QED
    BY <1>2, <2>1
<1>4. CASE node.kind = "unit"
  <2>1. node.parts = <<node.parts[1]>> /\ DOMAIN node.parts = {1}
    <3>1. node.parts = <<node.parts[1]>>
      BY <1>4 DEF NodesAreTrees
    <3>2. DOMAIN <<node.parts[1]>> = {1}
      OBVIOUS
    <3> QED
      BY <3>1, <3>2
  <2>2. Below[node] = u(1)
    BY <1>1, <1>4 DEF BelowRule
  <2>3. /\ node.parts[1] \in Parser!Nodes
        /\ Parser!NodeRank[node.parts[1]] < Parser!NodeRank[node]
        /\ Places(node) = Places(node.parts[1])
    BY <1>4 DEF NodesAreTrees, Places
  <2> HIDE DEF u
  <2> QED
    BY <1>3, <2>1, <2>2, <2>3 DEF u
<1>5. CASE node.kind = "bin"
  <2>1. DOMAIN node.parts = {1, 2}
    <3>1. node.parts = <<node.parts[1], node.parts[2]>>
      BY <1>5 DEF NodesAreTrees
    <3>2. DOMAIN <<node.parts[1], node.parts[2]>> = {1, 2}
      OBVIOUS
    <3> QED
      BY <3>1, <3>2
  <2>2. Below[node] = u(1) \o u(2)
    BY <1>1, <1>5 DEF BelowRule, MergeTrees
  <2>3. /\ node.parts[1] \in Parser!Nodes /\ node.parts[2] \in Parser!Nodes
        /\ Parser!NodeRank[node.parts[1]] < Parser!NodeRank[node]
        /\ Parser!NodeRank[node.parts[2]] < Parser!NodeRank[node]
        /\ Parser!Leaves[node]
             = Parser!Leaves[node.parts[1]] \o Parser!Leaves[node.parts[2]]
    BY <1>5 DEF NodesAreTrees
  <2>4. \A m \in {1, 2} : u(m) \in Seq(Parser!Nodes) /\ Parser!Leaves[node.parts[m]] \in Seq(Nat)
    BY <2>3, BelowCovers, UnfoldType DEF BelowOK, NodesAreTrees
  <2> HIDE DEF u
  <2>5. Range(Below[node]) = Range(u(1)) \cup Range(u(2))
    BY <2>2, <2>4, RangeOfConcat
  <2>6. Places(node) = Places(node.parts[1]) \cup Places(node.parts[2])
    BY <2>3, <2>4, RangeOfConcat DEF Places
  <2> QED
    BY <1>3, <2>1, <2>3, <2>5, <2>6 DEF u
<1> QED
  BY <1>4, <1>5 DEF NodesAreTrees

\* So no part named AXIOM takes the place of its siblings.
LEMMA BelowNotAxiom ==
  ASSUME SessionInv, stage = "DONE", AxiomIsNoOperand, NodesAreTrees
  PROVE  \A node \in Parser!Nodes : AxiomParts(Below[node]) = {}
<1> DEFINE N == Parser!Nodes
           R == Parser!NodeRank
           OK(node) == \A x \in Range(Below[node]) : x.nodetype # <<Axiom>>
           I == {node \in N : OK(node)}
<1>1. ASSUME NEW node \in N, \A y \in N : R[y] < R[node] => OK(y)
      PROVE  OK(node)
  <2>1. CASE node.kind = "token"
    <3>1. Below[node] = <<>>
      BY <2>1, BelowExists DEF IsBelow, BelowRule
    <3> QED
      BY <3>1 DEF Range
  <2>2. CASE node.kind # "token"
    <3> SUFFICES ASSUME NEW x \in Range(Below[node]) PROVE x.nodetype # <<Axiom>>
      OBVIOUS
    <3>1. PICK m \in DOMAIN node.parts :
            x = node.parts[m] \/ x \in Range(Below[node.parts[m]])
      BY <2>2, BelowIsOfParts
    <3>2. node.parts[m].nodetype # <<Axiom>>
      BY <2>2, PartsNotAxiom
    <3>3. OK(node.parts[m])
      BY <1>1, <2>2, BelowIsOfParts
    <3> QED
      BY <3>1, <3>2, <3>3
  <2> QED
    BY <2>1, <2>2
<1>2. R \in [N -> Nat]
  BY DEF NodesAreTrees
<1>3. \A node \in N : (\A y \in N : R[y] < R[node] => y \in I) => node \in I
  BY <1>1
<1>4. N \subseteq I
  <2> HIDE DEF I, R, N
  <2> QED BY <1>2, <1>3, RankInduction
<1>5. \A node \in N : \A m \in DOMAIN Below[node] : Below[node][m] \in Range(Below[node])
  BY DEF Range
<1> QED
  BY <1>4, <1>5 DEF AxiomParts

\* The children that the author wrote.
ChildrenRule(children, node) ==
  IF node.kind = "token" THEN {}
  ELSE UNION {IF IsCompacted(child) THEN children[child] ELSE {child} :
                child \in Range(node.parts)}

IsChildren(children) == children = [node \in Parser!Nodes |-> ChildrenRule(children, node)]

LEMMA ChildrenChosen == (\E f : IsChildren(f)) => IsChildren(Children)
BY DEF IsChildren, ChildrenRule, Children

\* The parts of a node, as a set.
LEMMA PartsOf ==
  ASSUME NodesAreTrees, NEW node \in Parser!Nodes, node.kind # "token",
         NEW part \in Range(node.parts)
  PROVE  /\ part \in Parser!Nodes
         /\ Parser!NodeRank[part] < Parser!NodeRank[node]
         /\ Places(part) \subseteq Places(node)
         /\ Range(Unfold(part, node.nodetype, Below[part])) \subseteq Range(Below[node])
<1>1. PICK m \in DOMAIN node.parts : part = node.parts[m]
  BY DEF Range
<1> QED
  BY <1>1, BelowIsOfParts

LEMMA ChildrenExist == NodesAreTrees => IsChildren(Children)
<1> SUFFICES ASSUME NodesAreTrees PROVE IsChildren(Children)
  OBVIOUS
<1> DEFINE N == Parser!Nodes
           T == SUBSET N
           R == Parser!NodeRank
           G == [f \in [N -> T] |-> [node \in N |-> ChildrenRule(f, node)]]
<1>1. ASSUME NEW f \in [N -> T], NEW node \in N PROVE ChildrenRule(f, node) \in T
  <2>1. CASE node.kind = "token"
    BY <2>1 DEF ChildrenRule
  <2>2. CASE node.kind # "token"
    <3>1. \A child \in Range(node.parts) : child \in N /\ f[child] \in T
      BY <2>2, PartsOf
    <3> QED
      BY <2>2, <3>1 DEF ChildrenRule
  <2> QED
    BY <2>1, <2>2
<1>2. G \in [[N -> T] -> [N -> T]] /\ R \in [N -> Nat]
  BY <1>1 DEF NodesAreTrees
<1>3. ASSUME NEW f \in [N -> T], NEW h \in [N -> T], NEW node \in N,
             \A y \in N : R[y] < R[node] => f[y] = h[y]
      PROVE  G[f][node] = G[h][node]
  <2>1. ChildrenRule(f, node) = ChildrenRule(h, node)
    <3>1. CASE node.kind = "token"
      BY <3>1 DEF ChildrenRule
    <3>2. CASE node.kind # "token"
      <4>1. \A child \in Range(node.parts) : f[child] = h[child]
        BY <1>3, <3>2, PartsOf
      <4> QED
        BY <4>1 DEF ChildrenRule
    <3> QED
      BY <3>1, <3>2
  <2> QED
    BY <2>1
<1>4. LooksBelow(G, N, T, R) /\ {} \in T
  <2>1. LooksBelow(G, N, T, R)
    <3> HIDE DEF G, N, T, R
    <3> QED BY <1>2, <1>3 DEF LooksBelow
  <2> QED BY <2>1
<1>5. PICK f \in [N -> T] : f = G[f]
  <2> HIDE DEF G, R, N, T
  <2> QED BY <1>4, RecursionExists
<1>6. IsChildren(f)
  BY <1>5 DEF IsChildren
<1> QED
  BY <1>6, ChildrenChosen

\* A child is in the branch that unfold makes, or has the name of its parent, and
\* then the branch below it is in there.
ChildIsThere(node, child) ==
  \/ child \in Range(Below[node])
  \/ /\ child.kind # "token" /\ child.nodetype = node.nodetype
     /\ Range(Below[child]) \subseteq Range(Below[node])

ChildOK(node, child) ==
  /\ child \in Parser!Nodes
  /\ Parser!NodeRank[child] < Parser!NodeRank[node]
  /\ Places(child) \subseteq Places(node)
  /\ ~ IsCompacted(child)
  /\ ChildIsThere(node, child)

LEMMA ChildrenAreThere ==
  NodesAreTrees =>
    \A node \in Parser!Nodes : \A child \in Children[node] : ChildOK(node, child)
<1> SUFFICES ASSUME NodesAreTrees
             PROVE  \A node \in Parser!Nodes : \A child \in Children[node] : ChildOK(node, child)
  OBVIOUS
<1> DEFINE N == Parser!Nodes
           R == Parser!NodeRank
           OK(node) == \A child \in Children[node] : ChildOK(node, child)
           I == {node \in N : OK(node)}
<1>1. R \in [N -> Nat]
  BY DEF NodesAreTrees
<1>2. ASSUME NEW node \in N, \A y \in N : R[y] < R[node] => OK(y)
      PROVE  OK(node)
  <2> SUFFICES ASSUME NEW child \in Children[node] PROVE ChildOK(node, child)
    OBVIOUS
  <2>1. child \in ChildrenRule(Children, node)
    BY ChildrenExist DEF IsChildren
  <2>2. /\ node.kind # "token"
        /\ \E part \in Range(node.parts) :
             child \in (IF IsCompacted(part) THEN Children[part] ELSE {part})
    BY <2>1 DEF ChildrenRule
  <2>3. PICK part \in Range(node.parts) :
          child \in (IF IsCompacted(part) THEN Children[part] ELSE {part})
    BY <2>2
  <2>4. /\ part \in N /\ R[part] < R[node] /\ Places(part) \subseteq Places(node)
        /\ Range(Unfold(part, node.nodetype, Below[part])) \subseteq Range(Below[node])
    BY <2>2, PartsOf
  <2>5. CASE IsCompacted(part)
    <3>1. child \in Children[part]
      BY <2>3, <2>5
    <3>2. ChildOK(part, child)
      BY <1>2, <2>4, <3>1
    <3>3. part.kind # "token"
      <4>1. part.kind = "token" => Children[part] = {}
        BY <2>4, ChildrenExist DEF IsChildren, ChildrenRule
      <4> QED
        BY <3>1, <4>1
    <3>4. Unfold(part, node.nodetype, Below[part]) = Below[part]
      BY <2>5, <3>3 DEF Unfold
    <3>5. child \in Range(Below[part])
      BY <2>5, <3>2 DEF ChildOK, ChildIsThere, IsCompacted
    <3>6. R[child] < R[node]
      BY <1>1, <2>4, <3>2 DEF ChildOK
    <3> QED
      BY <2>4, <3>2, <3>4, <3>5, <3>6 DEF ChildOK, ChildIsThere
  <2>6. CASE ~ IsCompacted(part)
    <3>1. child = part
      BY <2>3, <2>6
    <3>2. CASE part.kind # "token" /\ node.nodetype = part.nodetype
      <4>1. Unfold(part, node.nodetype, Below[part]) = Below[part]
        BY <3>2 DEF Unfold
      <4> QED
        BY <2>4, <2>6, <3>1, <3>2, <4>1 DEF ChildOK, ChildIsThere
    <3>3. CASE ~ (part.kind # "token" /\ node.nodetype = part.nodetype)
      <4>1. Unfold(part, node.nodetype, Below[part]) = <<part>>
        BY <2>6, <3>3 DEF Unfold
      <4>2. part \in Range(<<part>>)
        BY DEF Range
      <4> QED
        BY <2>4, <2>6, <3>1, <4>1, <4>2 DEF ChildOK, ChildIsThere
    <3> QED
      BY <3>2, <3>3
  <2> QED
    BY <2>5, <2>6
<1>3. \A node \in N : (\A y \in N : R[y] < R[node] => y \in I) => node \in I
  BY <1>2
<1>4. N \subseteq I
  <2> HIDE DEF I, R, N
  <2> QED BY <1>1, <1>3, RankInduction
<1> QED
  BY <1>4

-----------------------------------------------------------------------------

MarkedRule(marked, node) ==
  IF node.kind = "token" THEN Range(node.parts)
  ELSE UNION {marked[child] :
                child \in {c \in Children[node] : IsMarked(NameOf(node), NameOf(c))}}

IsMarkedTokens(marked) == marked = [node \in Parser!Nodes |-> MarkedRule(marked, node)]

LEMMA MarkedChosen == (\E f : IsMarkedTokens(f)) => IsMarkedTokens(MarkedTokens)
BY DEF IsMarkedTokens, MarkedRule, MarkedTokens

LEMMA MarkedExist == NodesAreTrees => IsMarkedTokens(MarkedTokens)
<1> SUFFICES ASSUME NodesAreTrees PROVE IsMarkedTokens(MarkedTokens)
  OBVIOUS
<1> DEFINE N == Parser!Nodes
           T == SUBSET Nat
           R == Parser!NodeRank
           G == [f \in [N -> T] |-> [node \in N |-> MarkedRule(f, node)]]
           K(node) == {c \in Children[node] : IsMarked(NameOf(node), NameOf(c))}
<1>0. \A node \in N : \A c \in K(node) : c \in N /\ R[c] < R[node]
  BY ChildrenAreThere DEF ChildOK
<1>1. ASSUME NEW f \in [N -> T], NEW node \in N PROVE MarkedRule(f, node) \in T
  <2>1. CASE node.kind = "token"
    <3>1. PICK place \in Nat : node.parts = <<place>>
      BY <2>1 DEF NodesAreTrees
    <3>2. Range(<<place>>) = {place}
      BY DEF Range
    <3> QED
      BY <2>1, <3>1, <3>2 DEF MarkedRule
  <2>2. CASE node.kind # "token"
    <3>1. \A c \in K(node) : f[c] \in T
      BY <1>0
    <3>2. MarkedRule(f, node) = UNION {f[c] : c \in K(node)}
      BY <2>2 DEF MarkedRule
    <3> HIDE DEF K, N
    <3> QED
      BY <3>1, <3>2
  <2> QED
    BY <2>1, <2>2
<1>2. G \in [[N -> T] -> [N -> T]] /\ R \in [N -> Nat]
  BY <1>1 DEF NodesAreTrees
<1>3. ASSUME NEW f \in [N -> T], NEW h \in [N -> T], NEW node \in N,
             \A y \in N : R[y] < R[node] => f[y] = h[y]
      PROVE  G[f][node] = G[h][node]
  <2>1. \A c \in K(node) : f[c] = h[c]
    BY <1>0, <1>3
  <2>2. MarkedRule(f, node) = MarkedRule(h, node)
    BY <2>1 DEF MarkedRule
  <2> QED
    BY <2>2
<1>4. LooksBelow(G, N, T, R) /\ {} \in T
  <2>1. LooksBelow(G, N, T, R)
    <3> HIDE DEF G, N, T, R, K
    <3> QED BY <1>2, <1>3 DEF LooksBelow
  <2> QED BY <2>1
<1>5. PICK f \in [N -> T] : f = G[f]
  <2> HIDE DEF G, R, N, T
  <2> QED BY <1>4, RecursionExists
<1>6. IsMarkedTokens(f)
  BY <1>5 DEF IsMarkedTokens
<1> QED
  BY <1>6, MarkedChosen

\* What is marked in a node is of the node.
LEMMA MarkedPlaces ==
  NodesAreTrees => \A node \in Parser!Nodes : MarkedTokens[node] \subseteq Places(node)
<1> SUFFICES ASSUME NodesAreTrees
             PROVE  \A node \in Parser!Nodes : MarkedTokens[node] \subseteq Places(node)
  OBVIOUS
<1> DEFINE N == Parser!Nodes
           R == Parser!NodeRank
           I == {node \in N : MarkedTokens[node] \subseteq Places(node)}
<1>1. R \in [N -> Nat]
  BY DEF NodesAreTrees
<1>2. ASSUME NEW node \in N, \A y \in N : R[y] < R[node] => MarkedTokens[y] \subseteq Places(y)
      PROVE  MarkedTokens[node] \subseteq Places(node)
  <2>1. MarkedTokens[node] = MarkedRule(MarkedTokens, node)
    BY MarkedExist DEF IsMarkedTokens
  <2>2. CASE node.kind = "token"
    BY <2>1, <2>2 DEF MarkedRule, NodesAreTrees, Places
  <2>3. CASE node.kind # "token"
    <3> SUFFICES ASSUME NEW place \in MarkedTokens[node] PROVE place \in Places(node)
      OBVIOUS
    <3>1. PICK c \in Children[node] : place \in MarkedTokens[c]
      BY <2>1, <2>3 DEF MarkedRule
    <3>2. c \in N /\ R[c] < R[node] /\ Places(c) \subseteq Places(node)
      BY ChildrenAreThere DEF ChildOK
    <3> QED
      BY <1>2, <3>1, <3>2
  <2> QED
    BY <2>2, <2>3
<1>3. \A node \in N : (\A y \in N : R[y] < R[node] => y \in I) => node \in I
  BY <1>2
<1>4. N \subseteq I
  <2> HIDE DEF I, R, N
  <2> QED BY <1>1, <1>3, RankInduction
<1> QED
  BY <1>4

-----------------------------------------------------------------------------
(* The values of what is stored.                                            *)

LEMMA ValuesOfText == ASSUME NEW text PROVE Values(Text(text)) = Range(text)
BY DEF Values, Text

LEMMA ValuesInside == ASSUME NEW step, NEW data PROVE Values(Inside(step, data)) = Values(data)
<1>1. \A x \in data : <<<<step>> \o x[1], x[2]>> \in Inside(step, data)
                      /\ <<<<step>> \o x[1], x[2]>>[2] = x[2]
  BY DEF Inside
<1>2. \A y \in Inside(step, data) : \E x \in data : y[2] = x[2]
  BY DEF Inside
<1> QED
  BY <1>1, <1>2 DEF Values

\* Nothing that is stored for a part of a branch is lost.
LEMMA ValuesOfParts ==
  ASSUME NEW parsed, NEW parts, NEW parent, AxiomParts(parts) = {}, NEW part \in Range(parts)
  PROVE  Values(Stored(parent, part, parsed[part]))
           \subseteq Values(ParseParts(parsed, parts, parent))
<1>1. PICK m \in DOMAIN parts : part = parts[m]
  BY DEF Range
<1>2. Values(Added(parsed, parts, parent, m)) = Values(Stored(parent, part, parsed[part]))
  BY <1>1, ValuesInside DEF Added
<1>3. Added(parsed, parts, parent, m) \subseteq ParseParts(parsed, parts, parent)
  BY ParsePartsIs
<1> QED
  BY <1>2, <1>3 DEF Values

\* A part with a mark is stored.
LEMMA MarkedIsStored ==
  ASSUME NodesAreTrees, NotesFit(notes), NEW node \in Parser!Nodes, NEW parent,
         IsMarked(parent, NameOf(node)),
         node.kind # "token" => MarkedTokens[node] \subseteq Values(Parsed[node])
  PROVE  MarkedTokens[node] \subseteq Values(Stored(parent, node, Parsed[node]))
<1> DEFINE label == NodeLabel(parent, node)
<1>1. parent \in DOMAIN notes.keeper /\ label \in notes.keeper[parent]
  BY DEF IsMarked, NodeLabel, NotesFit, LabelsAreKept
<1>2. InKeeperKeys(label) /\ IsTokenSavable(parent, label)
  BY <1>1 DEF NotesFit, InKeeperKeys, IsTokenSavable
<1>3. CASE KeyIsStr(parent, NameOf(node))
  <2>1. Stored(parent, node, Parsed[node]) = Text(StrUnfold[node])
    BY <1>2, <1>3 DEF Stored
  <2>2. Values(Text(StrUnfold[node])) = Places(node)
    BY ValuesOfText, TextIsTokens DEF TextOK
  <2> QED
    BY <2>1, <2>2, MarkedPlaces
<1>4. CASE ~ KeyIsStr(parent, NameOf(node))
  <2>1. Stored(parent, node, Parsed[node])
          = IF node.kind = "token" THEN Text(node.parts) ELSE Parsed[node]
    BY <1>2, <1>4 DEF Stored
  <2>2. CASE node.kind = "token"
    <3>1. MarkedTokens[node] = Range(node.parts)
      BY <2>2, MarkedExist DEF IsMarkedTokens, MarkedRule
    <3> QED
      BY <2>1, <2>2, <3>1, ValuesOfText
  <2> QED
    BY <2>1, <2>2
<1> QED
  BY <1>3, <1>4

\* Whatever is marked in a node is in what parse makes of the branch below it.
LEMMA MarkedIsParsed ==
  ASSUME SessionInv, stage = "DONE", AxiomIsNoOperand, NodesAreTrees, NotesFit(notes)
  PROVE  \A node \in Parser!Nodes :
           node.kind # "token" => MarkedTokens[node] \subseteq Values(Parsed[node])
<1> DEFINE N == Parser!Nodes
           R == Parser!NodeRank
           OK(node) == node.kind # "token" => MarkedTokens[node] \subseteq Values(Parsed[node])
           I == {node \in N : OK(node)}
<1>1. R \in [N -> Nat]
  BY DEF NodesAreTrees
<1>2. ASSUME NEW node \in N, \A y \in N : R[y] < R[node] => OK(y)
      PROVE  OK(node)
  <2> SUFFICES ASSUME node.kind # "token", NEW place \in MarkedTokens[node]
               PROVE  place \in Values(Parsed[node])
    OBVIOUS
  <2> DEFINE name == NameOf(node)
  <2>1. place \in MarkedRule(MarkedTokens, node)
    BY MarkedExist DEF IsMarkedTokens
  <2>2. PICK c \in Children[node] : IsMarked(name, NameOf(c)) /\ place \in MarkedTokens[c]
    BY <2>1 DEF MarkedRule
  <2>3. c \in N /\ R[c] < R[node] /\ ChildIsThere(node, c)
    BY ChildrenAreThere DEF ChildOK
  <2>4. Parsed[node] = ParseParts(Parsed, Below[node], name) /\ AxiomParts(Below[node]) = {}
    BY ParsedExists, BelowNotAxiom DEF IsParsed, ParsedRule
  <2>5. CASE c \in Range(Below[node])
    <3>1. MarkedTokens[c] \subseteq Values(Stored(name, c, Parsed[c]))
      BY <1>2, <2>2, <2>3, MarkedIsStored
    <3>2. Values(Stored(name, c, Parsed[c])) \subseteq Values(Parsed[node])
      BY <2>4, <2>5, ValuesOfParts
    <3> QED
      BY <2>2, <3>1, <3>2
  <2>6. CASE /\ c.kind # "token" /\ c.nodetype = node.nodetype
             /\ Range(Below[c]) \subseteq Range(Below[node])
    <3>1. place \in Values(Parsed[c])
      BY <1>2, <2>2, <2>3, <2>6
    <3>2. Parsed[c] = ParseParts(Parsed, Below[c], name) /\ AxiomParts(Below[c]) = {}
      BY <2>3, <2>6, ParsedExists, BelowNotAxiom DEF IsParsed, ParsedRule, NameOf
    <3> HIDE DEF name
    <3>3. Parsed[c] = Text(<<>>) \cup UNION {Added(Parsed, Below[c], name, m) : m \in DOMAIN Below[c]}
      BY <3>2, ParsePartsIs
    <3>4. PICK x \in Parsed[c] : place \in Range(x[2])
      BY <3>1 DEF Values
    <3>5. x \notin Text(<<>>)
      BY <3>4 DEF Text, Range
    <3>6. PICK m \in DOMAIN Below[c] : x \in Added(Parsed, Below[c], name, m)
      BY <3>3, <3>4, <3>5
    <3> DEFINE part == Below[c][m]
    <3>7. part \in Range(Below[node])
      BY <2>6 DEF Range
    <3>8. place \in Values(Added(Parsed, Below[c], name, m))
      BY <3>4, <3>6 DEF Values
    <3>9. place \in Values(Stored(name, part, Parsed[part]))
      BY <3>8, ValuesInside DEF Added
    <3> QED
      BY <2>4, <3>7, <3>9, ValuesOfParts
  <2> QED
    BY <2>3, <2>5, <2>6 DEF ChildIsThere
<1>3. \A node \in N : (\A y \in N : R[y] < R[node] => y \in I) => node \in I
  BY <1>2
<1>4. N \subseteq I
  <2> HIDE DEF I, R, N
  <2> QED BY <1>1, <1>3, RankInduction
<1> QED
  BY <1>4

\* What is stored of the whole tree is what is stored of its root, which is under the
\* axiom's symbol.
LEMMA RootOfOutput ==
  ASSUME SessionInv, answer = "tree", AxiomIsNoOperand
  PROVE  /\ NodesAreTrees /\ tree \in Parser!Nodes /\ stage = "DONE"
         /\ tree.kind # "token" /\ NameOf(tree) = Parser!AxiomSymbol
         /\ Output = ParseParts(Parsed, <<tree>>, <<>>)
         /\ AxiomParts(<<tree>>) = {} /\ tree \in Range(<<tree>>)
<1>1. NodesAreTrees /\ tree \in Parser!Nodes
  BY ChartHoldsTrees, TreeIsNode DEF SessionInv
<1>2. /\ stage = "DONE" /\ NormalFormOK
      /\ Parser!HasAxiomSymbol /\ tree.nodetype = Parser!AxiomSymbol
  BY DEF SessionInv, InTurn, ResultOK
<1>3. tree.nodetype \in Normaliser!SourceName
  BY <1>2, AxiomSymbolIsNamed
<1>4. PICK A \in NonTerminal : tree.nodetype = <<A>>
  BY <1>3 DEF Normaliser!SourceName
<1>5. \A t \in Terminal : tree.nodetype # <<Dotted[t]>>
  BY <1>4, NamesAssumption
<1>6. tree.kind # "token"
  BY <1>1, <1>2, <1>5, TokenNodesNamed DEF Normaliser!TokenName
<1>7. tree.nodetype # <<Axiom>>
  <2>1. PICK rule \in Alternatives(rules, <<Axiom>>) :
          /\ Normaliser!StandsFor(<<Axiom>>, rule)
          /\ Normaliser!Expand(rule) = <<Normaliser!NameOperand(Parser!AxiomSymbol)>>
    BY <1>2, AxiomSymbolIsNamed
  <2>2. <<Normaliser!NameOperand(Parser!AxiomSymbol)>> \in Alternatives(raw, <<Axiom>>)
        /\ <<Axiom>> \in DOMAIN raw
    <3>1. <<Axiom>> \in Normaliser!SourceName
      BY NamesAssumption DEF Normaliser!SourceName
    <3> QED
      BY <1>2, <2>1, <3>1, AxiomSymbolIsNamed
         DEF Normaliser!StandsFor, Normaliser!Alternatives, Alternatives
  <2> DEFINE r == <<Normaliser!NameOperand(Parser!AxiomSymbol)>>
  <2>3. 1 \in DOMAIN r /\ r[1].value = Parser!AxiomSymbol
    BY DEF Normaliser!NameOperand
  <2> QED
    BY <1>2, <2>2, <2>3 DEF AxiomIsNoOperand
<1>8. Unfold(tree, <<>>, Below[tree]) = <<tree>>
  BY <1>4 DEF Unfold, IsCompacted
<1>9. Output = ParseParts(Parsed, <<tree>>, <<>>)
  BY <1>8 DEF Output
<1>10. AxiomParts(<<tree>>) = {} /\ tree \in Range(<<tree>>)
  BY <1>7 DEF AxiomParts, Range
<1>11. NameOf(tree) = Parser!AxiomSymbol
  BY <1>2, <1>5 DEF NameOf, ProcessNodeName
<1> QED
  BY <1>1, <1>2, <1>6, <1>9, <1>10, <1>11

\* The label of the root is among the keys, and is saved, if the axiom's symbol is.
LEMMA RootIsSavable ==
  ASSUME NotesFit(notes), NameOf(tree) = Parser!AxiomSymbol, InKeeperKeys(Parser!AxiomSymbol)
  PROVE  /\ InKeeperKeys(NodeLabel(<<>>, tree))
         /\ IsTokenSavable(<<>>, NodeLabel(<<>>, tree))
<1> DEFINE label == NodeLabel(<<>>, tree)
<1>1. CASE label = NameOf(tree)
  BY <1>1 DEF IsTokenSavable
<1>2. CASE label # NameOf(tree)
  BY <1>2 DEF NodeLabel, NotesFit, LabelsAreKept, InKeeperKeys, IsTokenSavable
<1> QED
  BY <1>1, <1>2

\* The root is stored whenever anything is marked below it: its rule keeps that.
LEMMA OutputHoldsMarked ==
  ASSUME SessionInv, NotesFit(notes)
  PROVE  MarkedIsSaved
<1> SUFFICES ASSUME answer = "tree", AxiomIsNoOperand, NEW place \in MarkedTokens[tree]
             PROVE  place \in Values(Output)
  BY DEF MarkedIsSaved
<1>1. /\ NodesAreTrees /\ tree \in Parser!Nodes /\ stage = "DONE"
      /\ tree.kind # "token" /\ NameOf(tree) = Parser!AxiomSymbol
      /\ Output = ParseParts(Parsed, <<tree>>, <<>>)
      /\ AxiomParts(<<tree>>) = {} /\ tree \in Range(<<tree>>)
  BY RootOfOutput
<1>2. Values(Stored(<<>>, tree, Parsed[tree])) \subseteq Values(Output)
  BY <1>1, ValuesOfParts
<1>3. place \in Values(Parsed[tree])
  BY <1>1, MarkedIsParsed
<1>4. InKeeperKeys(Parser!AxiomSymbol)
  <2>1. place \in MarkedRule(MarkedTokens, tree)
    BY <1>1, MarkedExist DEF IsMarkedTokens
  <2>2. \E c : IsMarked(NameOf(tree), NameOf(c))
    BY <1>1, <2>1 DEF MarkedRule
  <2> QED
    BY <1>1, <2>2 DEF IsMarked, NotesFit, LabelsAreKept, InKeeperKeys
<1>5. InKeeperKeys(NodeLabel(<<>>, tree)) /\ IsTokenSavable(<<>>, NodeLabel(<<>>, tree))
  BY <1>1, <1>4, RootIsSavable
<1>6. CASE KeyIsStr(<<>>, NameOf(tree))
  <2>1. Stored(<<>>, tree, Parsed[tree]) = Text(StrUnfold[tree])
    BY <1>5, <1>6 DEF Stored
  <2>2. Values(Text(StrUnfold[tree])) = Places(tree)
    BY <1>1, ValuesOfText, TextIsTokens DEF TextOK
  <2>3. place \in Places(tree)
    BY <1>1, MarkedPlaces
  <2> QED
    BY <1>2, <2>1, <2>2, <2>3
<1>7. CASE ~ KeyIsStr(<<>>, NameOf(tree))
  <2>1. Stored(<<>>, tree, Parsed[tree]) = Parsed[tree]
    BY <1>1, <1>5, <1>7 DEF Stored
  <2> QED
    BY <1>2, <1>3, <2>1
<1> QED
  BY <1>6, <1>7

-----------------------------------------------------------------------------

\* The notes in force are a file's.
LEMMA NotesInit == Init => NotesFit(notes)
BY DEF Init, NoNotes, NoRules, NotesFit, LabelsAreKept

LEMMA NotesStep == NotesFit(notes) /\ [Next]_vars => NotesFit(notes)'
<1> SUFFICES ASSUME NotesFit(notes), [Next]_vars PROVE NotesFit(notes)'
  OBVIOUS
<1>1. ASSUME NEW g \in SourceGrammars, NEW n \in NotesOf[g], LoadGrammar(g, n)
      PROVE  NotesFit(notes)'
  <2>1. notes' = n
    BY <1>1 DEF LoadGrammar
  <2> QED
    BY <2>1, NotesAssumption DEF NotesFit, LabelsAreKept
<1>2. ASSUME notes' = notes PROVE NotesFit(notes)'
  BY <1>2 DEF NotesFit, LabelsAreKept
<1> QED
  BY <1>1, <1>2 DEF Next, vars, Normalise, BuildParser, ProcessSource, Parse, TakeResult

\* What a session hands out never has a token twice, and only tokens of the tree.
THEOREM SavedAtMostOnceHolds == Spec => []SavedAtMostOnce
<1>1. Spec => []SessionInv
  BY SessionInvariant
<1> QED
  BY <1>1, OutputIsTidy, PTL

\* And everything that the author marked.
THEOREM MarkedIsSavedHolds == Spec => []MarkedIsSaved
<1>1. Spec => []SessionInv
  BY SessionInvariant
<1>2. Spec => []NotesFit(notes)
  BY NotesInit, NotesStep, PTL DEF Spec
<1>3. SessionInv /\ NotesFit(notes) => MarkedIsSaved
  BY OutputHoldsMarked
<1> QED
  BY <1>1, <1>2, <1>3, PTL

-----------------------------------------------------------------------------
(* The lexer.                                                               *)

\* What tokenize makes of the text from a place on.
TokensRule(text, from, place) ==
  IF place > Len(text) THEN <<>>
  ELSE LET first == FirstMatching(Patterns, text, place)
       IN  IF first = 0 THEN from[place + 1]
           ELSE <<Patterns[first].type>>
                  \o from[place + LongestMatch(Patterns[first], text, place)]

\* The pattern that matches first is one of the grammar's, with a longest match.
LEMMA FirstMatchingIs ==
  ASSUME NEW text, Len(text) \in Nat, NEW place \in 1..Len(text)
  PROVE  LET first == FirstMatching(Patterns, text, place)
         IN  \/ first = 0
             \/ /\ first \in DOMAIN Patterns
                /\ LongestMatch(Patterns[first], text, place) \in 1..(Len(text) - place + 1)
<1> DEFINE first == FirstMatching(Patterns, text, place)
           Found == {n \in 1..Len(Patterns) : MatchLengths(Patterns[n], text, place) # {}}
<1>1. first = IF Found # {} THEN CHOOSE x \in Found : \A y \in Found : x <= y ELSE 0
  BY DEF FirstMatching, SelectInSeq, Min
<1>2. SUFFICES ASSUME first # 0
               PROVE  /\ first \in DOMAIN Patterns
                      /\ LongestMatch(Patterns[first], text, place) \in 1..(Len(text) - place + 1)
  OBVIOUS
<1>3. DOMAIN Patterns = 1..Len(Patterns) /\ Len(Patterns) \in Nat
  BY PatternsAssumption
<1>4. Found # {} /\ Found \in SUBSET Nat
  <2>1. Found \in SUBSET Nat
    BY <1>3
  <2> HIDE DEF first, Found
  <2> QED BY <1>1, <1>2, <2>1
<1>5. first \in Found
  <2>1. \E x \in Found : \A y \in Found : x <= y
    <3> HIDE DEF Found
    <3> QED BY <1>4, LeastNat
  <2> HIDE DEF first, Found
  <2> QED BY <1>1, <1>4, <2>1
<1> DEFINE L == MatchLengths(Patterns[first], text, place)
           bound == Len(text) - place + 1
<1>6. L \subseteq 1..bound /\ L # {} /\ bound \in Nat
  BY <1>5 DEF MatchLengths
<1>7. \E x \in L : \A y \in L : y <= x
  <2> DEFINE T == {bound - x : x \in L}
  <2> HIDE DEF L, bound
  <2>1. T \in SUBSET Nat /\ T # {}
    <3>1. \A x \in L : bound - x \in Nat
      BY <1>6
    <3> QED BY <1>6, <3>1
  <2>2. PICK t \in T : \A u \in T : t <= u
    <3> HIDE DEF T
    <3> QED BY <2>1, LeastNat
  <2>3. PICK x \in L : t = bound - x
    BY <2>2
  <2>4. \A y \in L : y <= x
    <3> SUFFICES ASSUME NEW y \in L PROVE y <= x
      OBVIOUS
    <3>1. bound - x <= bound - y
      BY <2>2, <2>3
    <3>2. x \in Int /\ y \in Int
      BY <1>6
    <3> QED BY <1>6, <3>1, <3>2
  <2> QED BY <2>4
<1>8. LongestMatch(Patterns[first], text, place) \in L
  <2>1. LongestMatch(Patterns[first], text, place) = CHOOSE x \in L : \A y \in L : y <= x
    BY DEF LongestMatch
  <2> HIDE DEF L
  <2> QED BY <1>7, <2>1
<1> QED
  <2> HIDE DEF L, first
  <2>1. first \in 1..Len(Patterns)
    BY <1>5
  <2> QED BY <1>3, <1>6, <1>8, <2>1

\* A word is a sequence of tokens of the patterns, whatever the text.
LEMMA TokenizeType ==
  ASSUME NEW text, Len(text) \in Nat
  PROVE  Tokenize(Patterns, text) \in Seq(Terminal)
<1> DEFINE N == 1..(Len(text) + 1)
           T == Seq(Terminal)
           R == [place \in N |-> Len(text) + 1 - place]
           G == [f \in [N -> T] |-> [place \in N |-> TokensRule(text, f, place)]]
           IsFrom(from) == from = [place \in N |-> TokensRule(text, from, place)]
<1>1. ASSUME NEW place \in N, place <= Len(text)
      PROVE  /\ place + 1 \in N /\ place + 1 > place
             /\ LET first == FirstMatching(Patterns, text, place)
                    next  == place + LongestMatch(Patterns[first], text, place)
                IN  first # 0 =>
                      /\ first \in DOMAIN Patterns /\ Patterns[first].type \in Terminal
                      /\ next \in N /\ next > place
  <2> DEFINE first == FirstMatching(Patterns, text, place)
             len   == LongestMatch(Patterns[first], text, place)
  <2>1. place \in 1..Len(text)
    BY <1>1
  <2>2. first = 0 \/ (first \in DOMAIN Patterns /\ len \in 1..(Len(text) - place + 1))
    BY <2>1, FirstMatchingIs
  <2> HIDE DEF first, len
  <2>3. first # 0 => place + len \in N /\ place + len > place
    BY <2>1, <2>2
  <2>4. first # 0 => first \in DOMAIN Patterns /\ Patterns[first].type \in Terminal
    BY <2>2, PatternsAssumption
  <2> QED
    BY <2>1, <2>3, <2>4 DEF first, len
<1>2. ASSUME NEW f, NEW place \in N, \A y \in N : R[y] < R[place] => f[y] \in T
      PROVE  TokensRule(text, f, place) \in T
  <2>1. CASE place > Len(text)
    BY <2>1 DEF TokensRule
  <2>2. CASE ~ (place > Len(text))
    <3> DEFINE first == FirstMatching(Patterns, text, place)
               next  == place + LongestMatch(Patterns[first], text, place)
    <3>1. /\ place + 1 \in N
          /\ first # 0 => Patterns[first].type \in Terminal /\ next \in N
      BY <1>1, <2>2
    <3>2. TokensRule(text, f, place) =
            IF first = 0 THEN f[place + 1] ELSE <<Patterns[first].type>> \o f[next]
      BY <2>2 DEF TokensRule
    <3>3. f[place + 1] \in T /\ (first # 0 => f[next] \in T)
      <4>1. place + 1 > place /\ (first # 0 => next > place)
        BY <1>1, <2>2
      <4> HIDE DEF first, next
      <4>2. \A y \in N : y > place => R[y] < R[place]
        OBVIOUS
      <4> QED BY <1>2, <3>1, <4>1, <4>2
    <3> HIDE DEF first, next, N
    <3> QED
      BY <3>1, <3>2, <3>3
  <2> QED
    BY <2>1, <2>2
<1>3. G \in [[N -> T] -> [N -> T]] /\ R \in [N -> Nat]
  BY <1>2
<1>4. ASSUME NEW f \in [N -> T], NEW h \in [N -> T], NEW place \in N,
             \A y \in N : R[y] < R[place] => f[y] = h[y]
      PROVE  G[f][place] = G[h][place]
  <2>1. CASE place > Len(text)
    BY <2>1 DEF TokensRule
  <2>2. CASE ~ (place > Len(text))
    <3> DEFINE first == FirstMatching(Patterns, text, place)
               next  == place + LongestMatch(Patterns[first], text, place)
    <3>1. /\ place + 1 \in N /\ place + 1 > place
          /\ first # 0 => next \in N /\ next > place
      BY <1>1, <2>2
    <3>2. f[place + 1] = h[place + 1] /\ (first # 0 => f[next] = h[next])
      <4> HIDE DEF first, next
      <4>1. \A y \in N : y > place => R[y] < R[place]
        OBVIOUS
      <4> QED BY <1>4, <3>1, <4>1
    <3>3. \A e : TokensRule(text, e, place) =
            IF first = 0 THEN e[place + 1] ELSE <<Patterns[first].type>> \o e[next]
      BY <2>2 DEF TokensRule
    <3>4. TokensRule(text, f, place) = TokensRule(text, h, place)
      <4> HIDE DEF first, next
      <4> QED BY <3>2, <3>3
    <3> QED
      BY <3>4
  <2> QED
    BY <2>1, <2>2
<1>5. LooksBelow(G, N, T, R) /\ <<>> \in T
  <2>1. LooksBelow(G, N, T, R)
    <3> HIDE DEF G, N, T, R
    <3> QED BY <1>3, <1>4 DEF LooksBelow
  <2> QED BY <2>1
<1>6. PICK f \in [N -> T] : f = G[f]
  <2> HIDE DEF G, R, N, T
  <2> QED BY <1>5, RecursionExists
<1>7. IsFrom(f)
  BY <1>6
<1> DEFINE from == CHOOSE g : IsFrom(g)
<1>8. IsFrom(from)
  BY <1>7
<1>9. Tokenize(Patterns, text) = from[1]
  BY DEF Tokenize, TokensRule
<1> DEFINE I == {place \in N : from[place] \in T}
<1>10. ASSUME NEW place \in N, \A y \in N : R[y] < R[place] => y \in I
       PROVE  place \in I
  <2>1. TokensRule(text, from, place) \in T
    <3> HIDE DEF from, N, T, R
    <3>1. \A y \in N : R[y] < R[place] => from[y] \in T
      BY <1>10
    <3> QED BY <1>2, <3>1
  <2>2. from[place] = TokensRule(text, from, place)
    <3> HIDE DEF from, T, R
    <3> QED BY <1>8
  <2> HIDE DEF from, N, T, R
  <2> QED BY <2>1, <2>2
<1>11. N \subseteq I
  <2> HIDE DEF I, R, N
  <2> QED BY <1>3, <1>10, RankInduction
<1>12. 1 \in N
  OBVIOUS
<1> QED
  <2> HIDE DEF from, N, T, R
  <2>1. from[1] \in T
    BY <1>11, <1>12
  <2> QED BY <1>9, <2>1 DEF T

-----------------------------------------------------------------------------
(* Paths.                                                                   *)

\* The characters of the first parts of a path, and the dots between them.
LengthRule(path, upTo, n) == IF n = 0 THEN -1 ELSE upTo[n - 1] + 1 + Chars[path[n]]

\* The length of a path is a number.
LEMMA PathLengthType ==
  ASSUME NEW path, IsPath(path)
  PROVE  PathLength(path) \in Int
<1> DEFINE N == 0..Len(path)
           R == [n \in N |-> n]
           G == [f \in [N -> Int] |-> [n \in N |-> LengthRule(path, f, n)]]
           IsUpTo(upTo) == upTo = [n \in N |-> LengthRule(path, upTo, n)]
<1>0. /\ Len(path) \in Nat
      /\ \A n \in 1..Len(path) : Chars[path[n]] \in Nat
  BY DisksAssumption DEF IsPath
<1>1. ASSUME NEW f, NEW n \in N, \A y \in N : R[y] < R[n] => f[y] \in Int
      PROVE  LengthRule(path, f, n) \in Int
  <2>1. CASE n = 0
    BY <2>1 DEF LengthRule
  <2>2. CASE n # 0
    <3>1. n - 1 \in N /\ R[n - 1] < R[n] /\ n \in 1..Len(path)
      BY <1>0, <2>2
    <3>2. f[n - 1] \in Int /\ Chars[path[n]] \in Nat
      <4> HIDE DEF N, R
      <4> QED BY <1>0, <1>1, <3>1
    <3>3. f[n - 1] + 1 + Chars[path[n]] \in Int
      BY <3>2
    <3> QED
      BY <2>2, <3>3 DEF LengthRule
  <2> QED
    BY <2>1, <2>2
<1>2. G \in [[N -> Int] -> [N -> Int]] /\ R \in [N -> Nat]
  <2>1. \A f \in [N -> Int] : \A n \in N : LengthRule(path, f, n) \in Int
    <3> HIDE DEF R
    <3> QED BY <1>1
  <2> QED BY <2>1
<1>3. ASSUME NEW f \in [N -> Int], NEW h \in [N -> Int], NEW n \in N,
             \A y \in N : R[y] < R[n] => f[y] = h[y]
      PROVE  G[f][n] = G[h][n]
  <2>1. CASE n = 0
    BY <2>1 DEF LengthRule
  <2>2. CASE n # 0
    <3>1. n - 1 \in N /\ R[n - 1] < R[n]
      BY <1>0, <2>2
    <3>2. f[n - 1] = h[n - 1]
      <4> HIDE DEF N, R
      <4> QED BY <1>3, <3>1
    <3> QED
      BY <2>2, <3>2 DEF LengthRule
  <2> QED
    BY <2>1, <2>2
<1>4. LooksBelow(G, N, Int, R) /\ 0 \in Int
  <2>1. LooksBelow(G, N, Int, R)
    <3> HIDE DEF G, N, R
    <3> QED BY <1>2, <1>3 DEF LooksBelow
  <2> QED BY <2>1
<1>5. PICK f \in [N -> Int] : f = G[f]
  <2> HIDE DEF G, R, N
  <2> QED BY <1>4, RecursionExists
<1>6. IsUpTo(f)
  BY <1>5
<1> DEFINE upTo == CHOOSE g : IsUpTo(g)
<1>7. IsUpTo(upTo)
  BY <1>6
<1>8. PathLength(path) = upTo[Len(path)]
  BY DEF PathLength, LengthRule
<1> DEFINE I == {n \in N : upTo[n] \in Int}
<1>9. ASSUME NEW n \in N, \A y \in N : R[y] < R[n] => y \in I
      PROVE  n \in I
  <2>1. LengthRule(path, upTo, n) \in Int
    <3> HIDE DEF upTo, N, R
    <3>1. \A y \in N : R[y] < R[n] => upTo[y] \in Int
      BY <1>9
    <3> QED BY <1>1, <3>1
  <2>2. upTo[n] = LengthRule(path, upTo, n)
    <3> HIDE DEF upTo, R
    <3> QED BY <1>7
  <2> HIDE DEF upTo, N, R
  <2> QED BY <2>1, <2>2
<1>10. N \subseteq I
  <2> HIDE DEF I, R, N
  <2> QED BY <1>2, <1>9, RankInduction
<1>11. Len(path) \in N
  BY <1>0
<1> QED
  <2> HIDE DEF upTo, N, R
  <2>1. upTo[Len(path)] \in Int
    BY <1>10, <1>11
  <2> QED BY <1>8, <2>1

\* substr throws only for a path that is no longer than the extension: without
\* a wrap around the index is within the path.
LEMMA ThrowsOnShortPaths ==
  ASSUME NEW path, IsPath(path), NEW ext \in DOMAIN Chars, SubstrThrows(path, ext)
  PROVE  PathLength(path) <= Chars[ext]
<1> DEFINE length == PathLength(path)
           index  == length - Chars[ext] - 1
<1>1. length \in Int /\ Chars[ext] \in Nat
  BY PathLengthType, DisksAssumption
<1>2. index % SizeT > length
  BY DEF SubstrThrows, SuffixIndex
<1> HIDE DEF length
<1>3. SUFFICES ASSUME length > Chars[ext] PROVE FALSE
  BY <1>1 DEF length
<1>4. index \in Nat /\ index < length
  BY <1>1, <1>3
<1>5. index % 65536 <= index
  <2> HIDE DEF index
  <2> QED BY <1>4
<1> QED
  BY <1>1, <1>2, <1>4, <1>5 DEF SizeT

\* The orders of a finite set: every element is there, at one place.
LEMMA OrdersOfSet ==
  ASSUME NEW S, IsFiniteSet(S), NEW order \in SetToSeqs(S)
  PROVE  /\ order \in Seq(S)
         /\ \A m, n \in DOMAIN order : order[m] = order[n] => m = n
<1>1. Cardinality(S) \in Nat
  BY FS_CardinalityType
<1>2. /\ order \in [1..Cardinality(S) -> S]
      /\ \A m, n \in 1..Cardinality(S) : m # n => order[m] # order[n]
  BY DEF SetToSeqs
<1> QED
  BY <1>1, <1>2

-----------------------------------------------------------------------------
(* The invariant of main.                                                   *)

\* What the directory holds: files that main writes have names of their own.
EntryOK(path) ==
  /\ IsPath(path)
  /\ \/ disk[path] = Directory /\ Last(path) \notin Written
     \/ disk[path].kind = "source" /\ Len(disk[path].text) \in Nat
     \/ disk[path].kind = "json" /\ Last(path) = "json"
     \/ disk[path].kind = "log" /\ Last(path) = "log"

DiskOK == IsFiniteSet(DOMAIN disk) /\ \A path \in DOMAIN disk : EntryOK(path)

\* The sources of a run: each once, and none is a file that main writes.
Sources == {path \in Seq(DOMAIN Chars) : path # <<>> /\ Last(path) \notin Written}

FilesOK ==
  /\ files \in Seq(Sources)
  /\ \A m, n \in DOMAIN files : files[m] = files[n] => m = n

\* The word that the session is given for a source.
WordHere == IF raw = NoRules THEN <<>> ELSE WordOf(files[at + 1])

Phases == {"library", "off", "loading", "choosing", "processing", "ended", "aborted"}

\* main's own place, and where that leaves its session.
PhaseOK ==
  /\ phase \in Phases
  /\ at \in Nat /\ at <= Len(files)
  /\ phase \in {"off", "choosing", "ended", "aborted"} => mode = "idle"
  /\ phase = "loading" => mode = "loading"
  /\ phase = "processing" => mode # "loading"
  /\ phase \notin {"processing", "ended", "aborted"} => files = <<>>
  /\ phase \notin {"library", "off"} => \E argv \in Commands : args = ParseArguments(argv)
  /\ phase = "ended" => at = Len(files)
  /\ (phase = "processing" /\ mode = "parsing") =>
       at < Len(files) /\ word = WordHere /\ ~ CannotRead(files[at + 1])

MainInv == SessionInv /\ NotesFit(notes) /\ DiskOK /\ FilesOK /\ PhaseOK

\* A source, and the word that is made of it.
LEMMA SourceIs ==
  ASSUME FilesOK, NEW n \in DOMAIN files
  PROVE  /\ files[n] \in Sources /\ IsPath(files[n]) /\ Last(files[n]) \notin Written
<1>1. files[n] \in Sources
  BY DEF FilesOK
<1> QED
  BY <1>1 DEF Sources, IsPath

LEMMA SourceWordType ==
  ASSUME DiskOK, FilesOK, NEW n \in DOMAIN files, ~ CannotRead(files[n])
  PROVE  WordOf(files[n]) \in Seq(Terminal)
<1>1. Len(TextOf(files[n])) \in Nat
  <2>1. CASE files[n] \in DOMAIN disk
    <3>1. EntryOK(files[n]) /\ Last(files[n]) \notin Written
      BY <2>1, SourceIs DEF DiskOK
    <3>2. disk[files[n]].kind # "directory"
      BY <2>1 DEF CannotRead
    <3>3. Len(disk[files[n]].text) \in Nat
      BY <3>1, <3>2 DEF EntryOK, Written, Directory
    <3> QED
      BY <2>1, <3>3 DEF TextOf
  <2>2. CASE files[n] \notin DOMAIN disk
    BY <2>2 DEF TextOf
  <2> QED
    BY <2>1, <2>2
<1> QED
  BY <1>1, TokenizeType DEF WordOf

\* The names of main's files.
LEMMA NamesOfFiles ==
  ASSUME NEW path \in Sources
  PROVE  /\ IsPath(OutputName(path)) /\ Last(OutputName(path)) = "json"
         /\ IsPath(LogName(path)) /\ Last(LogName(path)) = "log"
         /\ OutputName(path) # LogName(path)
         /\ OutputName(path) \notin Sources /\ LogName(path) \notin Sources
<1>1. /\ path \in Seq(DOMAIN Chars) /\ "json" \in DOMAIN Chars /\ "log" \in DOMAIN Chars
  BY DisksAssumption DEF Sources, Written
<1> DEFINE C == DOMAIN Chars
<1>2. ASSUME NEW s \in Seq(C), NEW part \in C
      PROVE  /\ s \o <<part>> \in Seq(C) /\ s \o <<part>> # <<>>
             /\ Last(s \o <<part>>) = part
  BY DEF Last
<1>3. path \o <<"json", "json">> = (path \o <<"json">>) \o <<"json">>
  BY <1>1
<1> HIDE DEF C
<1>4. IsPath(OutputName(path)) /\ Last(OutputName(path)) = "json"
  BY <1>1, <1>2, <1>3 DEF OutputName, IsPath, C
<1>5. IsPath(LogName(path)) /\ Last(LogName(path)) = "log"
  BY <1>1, <1>2 DEF LogName, IsPath, C
<1> QED
  BY <1>4, <1>5 DEF Sources, Written

LEMMA OutputsApart ==
  ASSUME NEW p \in Sources, NEW q \in Sources, OutputName(p) = OutputName(q)
  PROVE  p = q
<1>1. p \in Seq(DOMAIN Chars) /\ q \in Seq(DOMAIN Chars)
  BY DEF Sources
<1>2. ASSUME NEW tail \in Seq({"json"}), p \o tail = q \o tail PROVE p = q
  <2>1. Len(p \o tail) = Len(p) + Len(tail) /\ Len(q \o tail) = Len(q) + Len(tail)
    BY <1>1
  <2>2. Len(p) = Len(q)
    BY <1>1, <1>2, <2>1
  <2>3. \A n \in 1..Len(p) : (p \o tail)[n] = p[n] /\ (q \o tail)[n] = q[n]
    BY <1>1, <2>2
  <2>4. \A n \in 1..Len(p) : p[n] = q[n]
    BY <1>2, <2>3
  <2> QED
    BY <1>1, <2>2, <2>4
<1>3. <<"json", "json">> \in Seq({"json"}) /\ <<"json">> \in Seq({"json"})
  OBVIOUS
<1> QED
  BY <1>2, <1>3 DEF OutputName

-----------------------------------------------------------------------------
(* The steps of main.                                                       *)

\* Nothing is on the way at the start.
LEMMA MainInit == DriverInit => MainInv
<1> SUFFICES ASSUME DriverInit PROVE MainInv
  OBVIOUS
<1>1. Init /\ files = <<>> /\ at = 0 /\ mode = "idle"
  BY DEF DriverInit, Init
<1>2. SessionInv /\ NotesFit(notes)
  BY <1>1, SessionInit, NotesInit
<1>3. DiskOK
  <2>1. CASE disk = [path \in {} |-> Directory]
    <3>1. DOMAIN disk = {}
      BY <2>1
    <3> QED
      BY <3>1, FS_EmptySet DEF DiskOK
  <2>2. CASE disk \in Disks
    <3>1. /\ IsFiniteSet(DOMAIN disk)
          /\ \A path \in DOMAIN disk :
               /\ IsPath(path)
               /\ \/ disk[path] = Directory /\ Last(path) \notin Written
                  \/ /\ disk[path] = Source(disk[path].text)
                     /\ disk[path].text \in Seq(Range(disk[path].text))
      BY <2>2, DisksAssumption
    <3>2. ASSUME NEW path \in DOMAIN disk PROVE EntryOK(path)
      <4>1. \A text : Source(text).kind = "source"
        BY DEF Source
      <4> QED
        BY <3>1, <4>1 DEF EntryOK
    <3> QED
      BY <3>1, <3>2 DEF DiskOK
  <2> QED
    BY <2>1, <2>2 DEF DriverInit
<1>4. FilesOK /\ PhaseOK
  BY <1>1 DEF DriverInit, FilesOK, PhaseOK, Phases
<1> QED
  BY <1>2, <1>3, <1>4 DEF MainInv

\* A disk that is not written to.
LEMMA DiskKept == DiskOK /\ UNCHANGED disk => DiskOK'
BY DEF DiskOK, EntryOK

LEMMA FilesKept == FilesOK /\ UNCHANGED files => FilesOK'
BY DEF FilesOK

LEMMA NotesKept == NotesFit(notes) /\ UNCHANGED notes => NotesFit(notes)'
BY DEF NotesFit, LabelsAreKept

LEMMA SessionKept == SessionInv /\ UNCHANGED vars => SessionInv'
BY SessionStep

LEMMA LibraryStep ==
  ASSUME MainInv, CallLibrary
  PROVE  MainInv'
<1>1. SessionInv' /\ NotesFit(notes)'
  BY SessionStep, NotesStep DEF MainInv, CallLibrary
<1>2. DiskOK' /\ FilesOK'
  BY DiskKept, FilesKept DEF MainInv, CallLibrary, mainVars
<1>3. PhaseOK'
  BY DEF MainInv, CallLibrary, mainVars, PhaseOK, Phases
<1> QED
  BY <1>1, <1>2, <1>3 DEF MainInv

\* A new process loads what the file holds.
LEMMA StartStep ==
  ASSUME MainInv, NEW argv \in Commands, StartMain(argv)
  PROVE  MainInv'
<1>1. DiskOK' /\ files' = <<>> /\ at' = 0 /\ args' = ParseArguments(argv) /\ FilesOK'
  BY DiskKept DEF MainInv, StartMain, FilesOK
<1>2. CASE phase' = "ended" /\ UNCHANGED sessionVars
  <2>1. SessionInv' /\ NotesFit(notes)' /\ mode' = "idle"
    <3>1. UNCHANGED vars /\ UNCHANGED notes /\ mode' = mode
      BY <1>2 DEF sessionVars, vars
    <3>2. mode = "idle"
      BY DEF MainInv, PhaseOK, StartMain
    <3> QED
      BY <3>1, <3>2, SessionKept, NotesKept DEF MainInv
  <2>2. PhaseOK'
    BY <1>1, <1>2, <2>1 DEF PhaseOK, Phases
  <2> QED
    BY <1>1, <2>1, <2>2 DEF MainInv
<1>3. ASSUME NEW g \in SourceGrammars, NEW n, NotesFit(n), LoadGrammar(g, n), phase' = "loading"
      PROVE  MainInv'
  <2>1. SessionInv'
    BY <1>3, LoadStep DEF MainInv
  <2>2. notes' = n /\ mode' = "loading"
    BY <1>3 DEF LoadGrammar
  <2>3. NotesFit(notes)'
    BY <1>3, <2>2 DEF NotesFit, LabelsAreKept
  <2>4. PhaseOK'
    BY <1>1, <1>3, <2>2 DEF PhaseOK, Phases
  <2> QED
    BY <1>1, <2>1, <2>3, <2>4 DEF MainInv
<1>4. NotesFit(NoNotes)
  BY DEF NoNotes, NoRules, NotesFit, LabelsAreKept
<1> DEFINE file == Get(args', "--gsrc")
<1>5. CASE phase' = "loading" /\ file \in DOMAIN GrammarFiles
           /\ LoadGrammar(GrammarFiles[file].rules, GrammarFiles[file].notes)
  BY <1>3, <1>5, FilesAssumption
<1>6. CASE phase' = "loading" /\ LoadGrammar(NoRules, NoNotes)
  BY <1>3, <1>4, <1>6, FilesAssumption
<1> QED
  BY <1>2, <1>5, <1>6 DEF StartMain

LEMMA LoadingStep ==
  ASSUME MainInv, LoadInMain
  PROVE  MainInv'
<1>1. SessionInv'
  BY NormaliseStep, BuildStep DEF MainInv, LoadInMain
<1>2. UNCHANGED notes /\ mode' \in {"loading", "idle"}
  BY DEF MainInv, PhaseOK, LoadInMain, Normalise, BuildParser
<1>3. NotesFit(notes)' /\ DiskOK' /\ FilesOK'
  BY <1>2, NotesKept, DiskKept, FilesKept DEF MainInv, LoadInMain
<1>4. PhaseOK'
  BY <1>2 DEF MainInv, PhaseOK, Phases, LoadInMain
<1> QED
  BY <1>1, <1>3, <1>4 DEF MainInv

\* Whatever main chooses, it does not write over it.
LEMMA ChooseStep ==
  ASSUME MainInv, ChooseOneSource \/ GlobSources \/ ChooseNothing
  PROVE  MainInv'
<1>1. UNCHANGED <<sessionVars, args, disk, at>> /\ phase = "choosing" /\ files = <<>> /\ at = 0
  BY DEF MainInv, PhaseOK, ChooseOneSource, GlobSources, ChooseNothing
<1>2. SessionInv' /\ NotesFit(notes)' /\ DiskOK' /\ mode' = "idle"
  <2>1. UNCHANGED vars /\ UNCHANGED notes /\ mode' = mode
    BY <1>1 DEF sessionVars, vars
  <2> QED
    BY <1>1, <2>1, SessionKept, NotesKept, DiskKept DEF MainInv, PhaseOK
<1>3. PICK argv \in Commands : args = ParseArguments(argv)
  BY <1>1 DEF MainInv, PhaseOK
<1>4. CASE ChooseOneSource
  <2> DEFINE path == Get(args, "--src")
  <2>1. path \in Sources
    BY <1>3, <1>4, CommandsAssumption DEF ChooseOneSource, Sources, IsPath
  <2>2. files' = <<path>> /\ phase' = "processing"
    BY <1>4 DEF ChooseOneSource
  <2> HIDE DEF path
  <2>3. FilesOK'
    BY <2>1, <2>2 DEF FilesOK, Sources, Written
  <2>4. PhaseOK'
    BY <1>1, <1>2, <1>3, <2>2 DEF PhaseOK, Phases
  <2> QED
    BY <1>2, <2>3, <2>4 DEF MainInv
<1>5. CASE GlobSources
  <2> DEFINE ext == Get(args, "--ext")[1]
             found == {path \in DOMAIN disk : HasExtension(path, ext)}
  <2>1. ext \notin Written
    BY <1>3, <1>5, CommandsAssumption DEF GlobSources
  <2>2. \/ phase' = "aborted" /\ files' = files
        \/ phase' = "processing" /\ files' \in SetToSeqs(found)
    BY <1>5 DEF GlobSources
  <2>3. IsFiniteSet(found) /\ found \subseteq Sources
    <3>1. \A path \in found : path \in Sources
      BY <2>1 DEF MainInv, DiskOK, EntryOK, IsPath, HasExtension, Sources
    <3> QED
      BY <3>1, FS_Subset DEF MainInv, DiskOK
  <2>4. FilesOK'
    <3>1. CASE files' = files
      BY <3>1, FilesKept DEF MainInv
    <3>2. CASE files' \in SetToSeqs(found)
      <4> HIDE DEF found
      <4>1. /\ files' \in Seq(found)
            /\ \A m, n \in DOMAIN files' : files'[m] = files'[n] => m = n
        BY <2>3, <3>2, OrdersOfSet
      <4>2. files' \in Seq(Sources)
        BY <2>3, <4>1
      <4> QED
        BY <4>1, <4>2 DEF FilesOK, Sources, Written
    <3> QED
      BY <2>2, <3>1, <3>2
  <2>5. PhaseOK'
    <3>1. Len(files') \in Nat
      BY <2>4 DEF FilesOK
    <3> QED
      BY <1>1, <1>2, <1>3, <2>2, <3>1 DEF PhaseOK, Phases
  <2> QED
    BY <1>2, <2>4, <2>5 DEF MainInv
<1>6. CASE ChooseNothing
  <2>1. files' = files /\ phase' = "ended"
    BY <1>6 DEF ChooseNothing
  <2>2. FilesOK'
    BY <2>1, FilesKept DEF MainInv
  <2>3. PhaseOK'
    BY <1>1, <1>2, <1>3, <2>1 DEF PhaseOK, Phases
  <2> QED
    BY <1>2, <2>2, <2>3 DEF MainInv
<1> QED
  BY <1>4, <1>5, <1>6

\* The session gets a word of tokens.
LEMMA ProcessStep ==
  ASSUME MainInv, ProcessFile
  PROVE  MainInv'
<1>1. /\ UNCHANGED <<args, disk, files, at>> /\ phase = "processing" /\ mode = "idle"
      /\ at < Len(files) /\ at \in Nat /\ files \in Seq(Sources)
  BY DEF MainInv, PhaseOK, FilesOK, ProcessFile
<1>2. DiskOK' /\ FilesOK' /\ at + 1 \in DOMAIN files
  BY <1>1, DiskKept, FilesKept DEF MainInv
<1>3. CASE phase' = "aborted" /\ UNCHANGED sessionVars
  <2>1. UNCHANGED vars /\ UNCHANGED notes /\ mode' = mode
    BY <1>3 DEF sessionVars, vars
  <2>2. SessionInv' /\ NotesFit(notes)'
    BY <2>1, SessionKept, NotesKept DEF MainInv
  <2>3. PhaseOK'
    BY <1>1, <1>3, <2>1 DEF MainInv, PhaseOK, Phases
  <2> QED
    BY <1>2, <2>2, <2>3 DEF MainInv
<1>4. CASE ~ CannotRead(files[at + 1]) /\ ProcessSource(WordHere) /\ phase' = phase
  <2>1. WordHere \in Seq(Terminal)
    BY <1>2, <1>4, SourceWordType DEF MainInv, WordHere
  <2>2. SessionInv'
    BY <1>4, <2>1, SourceStep DEF MainInv
  <2>3. mode' = "parsing" /\ word' = WordHere /\ UNCHANGED <<raw, notes>>
    BY <1>4 DEF ProcessSource, Parser!Call
  <2>4. WordHere' = WordHere /\ ~ CannotRead(files[at + 1])'
    BY <1>1, <1>4, <2>3 DEF WordHere, WordOf, TextOf, CannotRead
  <2>5. NotesFit(notes)'
    BY <2>3, NotesKept DEF MainInv
  <2>6. PhaseOK'
    BY <1>1, <1>4, <2>3, <2>4 DEF MainInv, PhaseOK, Phases
  <2> QED
    BY <1>2, <2>2, <2>5, <2>6 DEF MainInv
<1> QED
  BY <1>3, <1>4 DEF ProcessFile, WordHere

LEMMA ParsingStep ==
  ASSUME MainInv, ParseInMain
  PROVE  MainInv'
<1>1. SessionInv'
  BY ParseStep DEF MainInv, ParseInMain
<1>2. UNCHANGED <<notes, mode, raw, word>>
  BY DEF ParseInMain, Parse, Parser!Next, Parser!Terminals, Parser!FillSplit,
     Parser!ReturnAxiomNodes, Parser!ReturnBrokenNodes, Parser!ReadOutside, Parser!input
<1>3. NotesFit(notes)' /\ DiskOK' /\ FilesOK'
  BY <1>2, NotesKept, DiskKept, FilesKept DEF MainInv, ParseInMain, mainVars
<1>4. /\ WordHere' = WordHere
      /\ CannotRead(files[at + 1])' <=> CannotRead(files[at + 1])
  BY <1>2 DEF ParseInMain, mainVars, WordHere, WordOf, TextOf, CannotRead
<1>5. PhaseOK'
  BY <1>2, <1>4 DEF MainInv, PhaseOK, Phases, ParseInMain, mainVars
<1> QED
  BY <1>1, <1>3, <1>5 DEF MainInv

\* What the disk holds after a result is stored.
LEMMA StoredDisk ==
  ASSUME MainInv, StoreResult, phase' # "aborted"
  PROVE  /\ at < Len(files) /\ at + 1 \in DOMAIN files
         /\ LET path == files[at + 1]
            IN  /\ OutputName(path) \in DOMAIN disk'
                /\ disk'[OutputName(path)] = Json(Output')
                /\ DOMAIN disk \subseteq DOMAIN disk'
                /\ DOMAIN disk' \subseteq DOMAIN disk \cup {OutputName(path), LogName(path)}
                /\ LogName(path) \in DOMAIN disk' =>
                     \/ disk'[LogName(path)] = Log(Selected(0))
                     \/ LogName(path) \in DOMAIN disk /\ disk'[LogName(path)] = disk[LogName(path)]
                /\ \A other \in DOMAIN disk \ {OutputName(path), LogName(path)} :
                     disk'[other] = disk[other]
<1>1. mode = "parsing" /\ phase = "processing"
  BY DEF StoreResult, TakeResult
<1>2. at < Len(files) /\ at + 1 \in DOMAIN files
  BY <1>1 DEF MainInv, PhaseOK, FilesOK
<1> DEFINE path == files[at + 1]
<1>3. path \in Sources
  BY <1>2, SourceIs DEF MainInv
<1>4. OutputName(path) # LogName(path)
  BY <1>3, NamesOfFiles
<1> DEFINE before == IF answer' = "error log" THEN Put(disk, LogName(path), Log(Selected(0)))
                     ELSE disk
<1>5. disk' = Put(before, OutputName(path), Json(Output'))
  BY DEF StoreResult
<1> HIDE DEF path
<1>6. /\ DOMAIN disk \subseteq DOMAIN before
      /\ DOMAIN before \subseteq DOMAIN disk \cup {LogName(path)}
      /\ LogName(path) \in DOMAIN before =>
           \/ before[LogName(path)] = Log(Selected(0))
           \/ LogName(path) \in DOMAIN disk /\ before[LogName(path)] = disk[LogName(path)]
      /\ \A other \in DOMAIN disk \ {LogName(path)} : before[other] = disk[other]
  <2>1. CASE answer' = "error log"
    <3>1. before = Put(disk, LogName(path), Log(Selected(0)))
      BY <2>1
    <3> HIDE DEF before
    <3> QED
      BY <3>1 DEF Put
  <2>2. CASE answer' # "error log"
    BY <2>2
  <2> QED
    BY <2>1, <2>2
<1> HIDE DEF before
<1>7. /\ DOMAIN disk' = {OutputName(path)} \cup DOMAIN before
       /\ disk'[OutputName(path)] = Json(Output')
       /\ \A x \in DOMAIN before \ {OutputName(path)} : disk'[x] = before[x]
  BY <1>5 DEF Put
<1> QED
  BY <1>2, <1>4, <1>6, <1>7 DEF path

LEMMA StoreStep ==
  ASSUME MainInv, StoreResult
  PROVE  MainInv'
<1>1. /\ UNCHANGED <<args, files, notes, raw>> /\ phase = "processing" /\ mode = "parsing"
      /\ mode' = "idle" /\ at < Len(files) /\ at \in Nat /\ files \in Seq(Sources)
  BY DEF MainInv, PhaseOK, FilesOK, StoreResult, TakeResult, normaliserVars
<1>2. SessionInv'
  BY TakeStep DEF MainInv, StoreResult
<1>3. NotesFit(notes)' /\ FilesOK'
  BY <1>1, NotesKept, FilesKept DEF MainInv
<1>4. CASE phase' = "aborted" /\ UNCHANGED <<disk, at>>
  <2>1. PhaseOK'
    BY <1>1, <1>4 DEF MainInv, PhaseOK, Phases
  <2> QED
    BY <1>2, <1>3, <1>4, <2>1, DiskKept DEF MainInv
<1>5. CASE phase' = phase /\ at' = at + 1
  <2> DEFINE path == files[at + 1]
  <2>1. PhaseOK'
    BY <1>1, <1>5 DEF MainInv, PhaseOK, Phases
  <2>2. path \in Sources
    BY <1>1, SourceIs DEF MainInv
  <2>3. /\ IsPath(OutputName(path)) /\ Last(OutputName(path)) = "json"
        /\ IsPath(LogName(path)) /\ Last(LogName(path)) = "log"
        /\ OutputName(path) # LogName(path)
    BY <2>2, NamesOfFiles
  <2>4. /\ disk'[OutputName(path)] = Json(Output')
        /\ DOMAIN disk' \subseteq DOMAIN disk \cup {OutputName(path), LogName(path)}
        /\ LogName(path) \in DOMAIN disk' =>
             \/ disk'[LogName(path)] = Log(Selected(0))
             \/ LogName(path) \in DOMAIN disk /\ disk'[LogName(path)] = disk[LogName(path)]
        /\ \A other \in DOMAIN disk \ {OutputName(path), LogName(path)} :
             disk'[other] = disk[other]
    BY <1>1, <1>5, StoredDisk
  <2> HIDE DEF path
  <2>5. IsFiniteSet(DOMAIN disk')
    <3>1. IsFiniteSet({OutputName(path)}) /\ IsFiniteSet({LogName(path)})
      BY FS_Singleton
    <3>2. IsFiniteSet(DOMAIN disk \cup {OutputName(path), LogName(path)})
      <4>1. IsFiniteSet({OutputName(path)} \cup {LogName(path)})
        BY <3>1, FS_Union
      <4>2. IsFiniteSet(DOMAIN disk \cup ({OutputName(path)} \cup {LogName(path)}))
        BY <4>1, FS_Union DEF MainInv, DiskOK
      <4>3. {OutputName(path)} \cup {LogName(path)} = {OutputName(path), LogName(path)}
        OBVIOUS
      <4> QED BY <4>2, <4>3
    <3> QED
      BY <2>4, <3>2, FS_Subset
  <2>6. ASSUME NEW x \in DOMAIN disk' PROVE EntryOK(x)'
    <3>1. (x \in DOMAIN disk /\ disk'[x] = disk[x]) => EntryOK(x)'
      BY DEF MainInv, DiskOK, EntryOK
    <3>2. CASE x = OutputName(path)
      <4>1. disk'[x].kind = "json"
        BY <2>4, <3>2 DEF Json
      <4> QED
        BY <2>3, <3>2, <4>1 DEF EntryOK
    <3>3. CASE x = LogName(path)
      <4>1. Log(Selected(0)).kind = "log"
        BY DEF Log
      <4>2. disk'[x] = Log(Selected(0)) => EntryOK(x)'
        BY <2>3, <3>3, <4>1 DEF EntryOK
      <4> QED
        BY <2>4, <3>1, <3>3, <4>2
    <3> QED
      BY <2>4, <3>1, <3>2, <3>3
  <2>7. DiskOK'
    BY <2>5, <2>6 DEF DiskOK
  <2> QED
    BY <1>2, <1>3, <2>1, <2>7 DEF MainInv
<1> QED
  BY <1>4, <1>5 DEF StoreResult

LEMMA EndStep ==
  ASSUME MainInv, EndMain
  PROVE  MainInv'
<1>1. UNCHANGED vars /\ UNCHANGED notes /\ mode' = mode
  BY DEF EndMain, sessionVars, vars
<1>2. SessionInv' /\ NotesFit(notes)' /\ DiskOK' /\ FilesOK'
  BY <1>1, SessionKept, NotesKept, DiskKept, FilesKept DEF MainInv, EndMain
<1>3. PhaseOK'
  BY <1>1 DEF MainInv, PhaseOK, Phases, EndMain
<1> QED
  BY <1>2, <1>3 DEF MainInv

\* Every step of main, and every call of a program that links the library.
LEMMA MainStep == MainInv /\ [DriverNext]_allVars => MainInv'
<1> SUFFICES ASSUME MainInv, [DriverNext]_allVars PROVE MainInv'
  OBVIOUS
<1>1. CASE UNCHANGED allVars
  <2>1. UNCHANGED vars /\ UNCHANGED <<notes, mode, raw, word>>
    BY <1>1 DEF allVars, sessionVars, vars, normaliserVars, parserVars
  <2>2. UNCHANGED <<phase, args, disk, files, at>>
    BY <1>1 DEF allVars, mainVars
  <2>3. SessionInv' /\ NotesFit(notes)' /\ DiskOK' /\ FilesOK'
    BY <2>1, <2>2, SessionKept, NotesKept, DiskKept, FilesKept DEF MainInv
  <2>4. /\ WordHere' = WordHere
        /\ CannotRead(files[at + 1])' <=> CannotRead(files[at + 1])
    BY <2>1, <2>2 DEF WordHere, WordOf, TextOf, CannotRead
  <2>5. PhaseOK'
    BY <2>1, <2>2, <2>4 DEF MainInv, PhaseOK, Phases
  <2> QED
    BY <2>3, <2>5 DEF MainInv
<1> QED
  BY <1>1, LibraryStep, StartStep, LoadingStep, ChooseStep, ProcessStep, ParsingStep, StoreStep,
     EndStep DEF DriverNext, Main, Terminated

\* The invariant of main and of its session, run after run over one directory.
THEOREM MainInvariant == DriverSpec => []MainInv
BY MainInit, MainStep, PTL DEF DriverSpec

\* The session that main drives, or a program that links the library, keeps its types.
THEOREM MainTypes == DriverSpec => []TypeOK
<1>1. MainInv => TypeOK
  BY StateTyped DEF MainInv
<1> QED
  BY <1>1, MainInvariant, PTL

\* Whatever main loads and parses, a tree is over a part of the source that the grammar
\* as written derives.
THEOREM MainTreesArePhrases == DriverSpec => []TreeIsAPhrase
<1>1. MainInv => TreeIsAPhrase
  BY PhraseFound DEF MainInv
<1> QED
  BY <1>1, MainInvariant, PTL

\* Every word of a proper grammar that main loaded is answered with a tree of the axiom.
THEOREM MainParsesProperGrammars == DriverSpec => []ProperGrammarsAreParsed
<1>1. MainInv => ProperGrammarsAreParsed
  BY ProperParsed DEF MainInv
<1> QED
  BY <1>1, MainInvariant, PTL

\* No result of main has a token of the source twice.
THEOREM MainSavesAtMostOnce == DriverSpec => []SavedAtMostOnce
<1>1. MainInv => SavedAtMostOnce
  BY OutputIsTidy DEF MainInv
<1> QED
  BY <1>1, MainInvariant, PTL

\* What is marked inside marked parts is in main's results.
THEOREM MainSavesMarked == DriverSpec => []MarkedIsSaved
<1>1. MainInv => MarkedIsSaved
  BY OutputHoldsMarked DEF MainInv
<1> QED
  BY <1>1, MainInvariant, PTL

-----------------------------------------------------------------------------
(* What the results of a run are.                                           *)

\* The result of a call is of a phrase of the grammar in the word, and holds something
\* for a tree of a grammar that CYK is complete for if its root is marked.
OutputFits ==
  /\ Output # Text(<<>>) =>
       /\ raw # NoRules
       /\ \E fact \in Derivations(raw, word) :
            fact[1] = <<Axiom>> /\ Values(Output) \subseteq fact[2]..(fact[3] - 1)
  /\ (answer = "tree" /\ Proper(raw) /\ InKeeperKeys(Parser!AxiomSymbol))
       => Output # Text(<<>>)

LEMMA ProperOperands == Proper(raw) => AxiomIsNoOperand
BY DEF Proper, AxiomIsNoOperand

LEMMA OutputOfTree ==
  ASSUME SessionInv, NotesFit(notes)
  PROVE  OutputFits
<1>1. ASSUME Output # Text(<<>>)
      PROVE  /\ raw # NoRules
             /\ \E fact \in Derivations(raw, word) :
                  fact[1] = <<Axiom>> /\ Values(Output) \subseteq fact[2]..(fact[3] - 1)
  <2>1. answer = "tree"
    BY <1>1 DEF Output
  <2>2. /\ WordOK /\ stage = "DONE" /\ Parser!HasAxiomSymbol /\ NormalFormOK
        /\ tree.nodetype = Parser!AxiomSymbol
    BY <2>1, TreeSpans DEF SessionInv
  <2>3. PICK c \in Parser!Cells :
          /\ c[1] \in Nat /\ c[2] \in Nat /\ c[1] + c[2] < Len(word)
          /\ Parser!Leaves[tree] = Parser!Span(c)
          /\ <<tree.nodetype, c[2], c[1] + c[2] + 1>> \in Derivations(raw, word)
    BY <2>1, TreeSpans
  <2>4. Len(word) \in Nat
    BY <2>2 DEF WordOK
  <2> DEFINE from == c[2]
             to   == c[1] + c[2] + 1
  <2>5. from \in 0..Len(word) /\ to \in 0..Len(word) /\ from <= to
    BY <2>3, <2>4
  <2>6. <<<<Axiom>>, from, to>> \in Derivations(raw, word)
    <3> HIDE DEF from, to
    <3>1. <<Parser!AxiomSymbol, from, to>> \in Derivations(raw, word)
      BY <2>2, <2>3 DEF from, to
    <3> QED
      BY <2>2, <2>5, <3>1, AxiomSpans
  <2>7. Values(Output) \subseteq from..(to - 1)
    <3>1. Values(Output) \subseteq Range(Parser!Leaves[tree])
      BY <2>1, OutputIsTidy DEF SavedAtMostOnce
    <3>2. Range(Parser!Span(c)) \subseteq from..(to - 1)
      BY <2>3 DEF Parser!Span, Range
    <3> QED
      BY <2>3, <3>1, <3>2
  <2>8. raw # NoRules
    <3>1. <<Axiom>> \in DOMAIN raw
      BY <2>2, AxiomSymbolIsNamed
    <3> QED
      BY <3>1 DEF NoRules
  <2> DEFINE fact == <<<<Axiom>>, from, to>>
  <2>9. fact[1] = <<Axiom>> /\ fact[2] = from /\ fact[3] = to
    OBVIOUS
  <2> QED
    BY <2>6, <2>7, <2>8, <2>9
<1>2. ASSUME answer = "tree", Proper(raw), InKeeperKeys(Parser!AxiomSymbol)
      PROVE  Output # Text(<<>>)
  <2>1. /\ NodesAreTrees /\ tree \in Parser!Nodes /\ stage = "DONE"
        /\ tree.kind # "token" /\ NameOf(tree) = Parser!AxiomSymbol
        /\ Output = ParseParts(Parsed, <<tree>>, <<>>)
        /\ AxiomParts(<<tree>>) = {}
    BY <1>2, ProperOperands, RootOfOutput
  <2> DEFINE below  == Stored(<<>>, tree, Parsed[tree])
             step   == <<NodeLabel(<<>>, tree), 1>>
  <2>2. \E x \in below : x[1] = <<>>
    <3>1. InKeeperKeys(NodeLabel(<<>>, tree)) /\ IsTokenSavable(<<>>, NodeLabel(<<>>, tree))
      BY <1>2, <2>1, RootIsSavable
    <3>2. below = Text(StrUnfold[tree]) \/ below = Parsed[tree]
      BY <2>1, <3>1 DEF Stored
    <3>3. \A text : \E x \in Text(text) : x[1] = <<>>
      BY DEF Text
    <3>4. Text(<<>>) \subseteq Parsed[tree]
      <4>1. Parsed[tree] = ParseParts(Parsed, Below[tree], NameOf(tree))
            /\ AxiomParts(Below[tree]) = {}
        BY <1>2, <2>1, ParsedExists, ProperOperands, BelowNotAxiom DEF IsParsed, ParsedRule
      <4> QED
        BY <4>1, ParsePartsIs
    <3> HIDE DEF below
    <3> QED
      BY <3>2, <3>3, <3>4
  <2>3. PICK x \in below : x[1] = <<>>
    BY <2>2
  <2>4. <<<<step>> \o x[1], x[2]>> \in Inside(step, below)
    BY DEF Inside
  <2>5. Inside(step, below) \subseteq Output
    <3>1. Added(Parsed, <<tree>>, <<>>, 1) = Inside(step, below)
      BY DEF Added
    <3>2. 1 \in DOMAIN <<tree>>
      OBVIOUS
    <3> HIDE DEF below, step
    <3> QED
      BY <2>1, <3>1, <3>2, ParsePartsIs
  <2>6. <<step>> \o x[1] # <<>>
    <3> HIDE DEF step
    <3> QED BY <2>3
  <2> HIDE DEF step, below
  <2>7. <<<<step>> \o x[1], x[2]>> \notin Text(<<>>)
    BY <2>6 DEF Text
  <2> QED
    BY <2>4, <2>5, <2>7
<1> QED
  BY <1>1, <1>2 DEF OutputFits

ResultsOK == \A n \in 1..at : ResultBelongs(files[n])

\* The result that is stored belongs to the source that was parsed.
LEMMA ResultArrives ==
  ASSUME MainInv, OutputFits', StoreResult, phase' # "aborted",
         NEW path, path = files[at + 1]
  PROVE  ResultBelongs(path)'
<1> DEFINE w == WordOf(path)
<1>1. /\ mode = "parsing" /\ pc = "done" /\ phase = "processing"
      /\ answer' = Answer(0)
      /\ UNCHANGED <<args, word, files>> /\ UNCHANGED <<raw, rules, notes>>
  BY DEF StoreResult, TakeResult, normaliserVars, parserVars
<1>2. at < Len(files) /\ word = WordHere /\ ~ CannotRead(path)
  BY <1>1 DEF MainInv, PhaseOK
<1>3. at + 1 \in DOMAIN files /\ SessionInv /\ stage = "DONE"
  BY <1>1, <1>2 DEF MainInv, PhaseOK, FilesOK, SessionInv, InTurn
<1>4. path \in Sources
  BY <1>3, SourceIs DEF MainInv
<1>5. w \in Seq(Terminal)
  BY <1>2, <1>3, SourceWordType DEF MainInv
<1>6. /\ OutputName(path) \in DOMAIN disk'
      /\ disk'[OutputName(path)] = Json(Output')
      /\ \A other \in DOMAIN disk \ {OutputName(path), LogName(path)} : disk'[other] = disk[other]
      /\ DOMAIN disk \subseteq DOMAIN disk'
      /\ DOMAIN disk' \subseteq DOMAIN disk \cup {OutputName(path), LogName(path)}
  BY StoredDisk
<1>7. path \notin {OutputName(path), LogName(path)}
  BY <1>4, NamesOfFiles
<1>8. TextOf(path)' = TextOf(path)
  BY <1>1, <1>6, <1>7 DEF TextOf
<1>9. WordOf(path)' = w
  BY <1>8 DEF WordOf
<1>10. OutputName(path)' = OutputName(path)
  BY <1>1 DEF OutputName, Batch
<1>11. (disk[OutputName(path)].data)' = Output'
  BY <1>6, <1>10 DEF Json
<1>12. raw # NoRules => word' = w
  BY <1>1, <1>2 DEF WordHere
<1>13. ASSUME Output' # Text(<<>>)
       PROVE  \E fact \in Derivations(raw', w) :
                fact[1] = <<Axiom>> /\ Values(Output') \subseteq fact[2]..(fact[3] - 1)
  BY <1>1, <1>12, <1>13 DEF OutputFits
<1>14. ASSUME Proper(raw'), InLanguage(raw', w), InKeeperKeys(Parser!AxiomSymbol)'
       PROVE  Output' # Text(<<>>)
  <2>1. raw # NoRules
    BY <1>1, <1>3, <1>5, <1>14, DerivedByRules DEF SessionInv
  <2>2. /\ outcome = "whole" /\ Parser!HasAxiomSymbol
        /\ frame # <<>> /\ frame[1].nodetype = Parser!AxiomSymbol
    BY <1>1, <1>3, <1>12, <1>14, <2>1, ProperAnswered
  <2>3. Selected(0) = frame[1]
    <3>1. Len(frame) \in Nat
      BY <1>3, ParserAssumptions DEF SessionInv, ParserOK, Parser!FrameOK, Parser!IsFrame
    <3> QED
      BY <3>1 DEF Selected
  <2>4. answer' = "tree"
    BY <1>1, <2>2, <2>3 DEF Answer
  <2> QED
    BY <1>14, <2>4 DEF OutputFits
<1> QED
  BY <1>6, <1>9, <1>10, <1>11, <1>13, <1>14 DEF ResultBelongs

LEMMA ResultsStep ==
  ASSUME MainInv, OutputFits', ResultsOK, [DriverNext]_allVars
  PROVE  ResultsOK'
<1>1. ASSUME UNCHANGED <<raw, rules, notes, args, disk, files, at>>
      PROVE  ResultsOK'
  <2>1. ASSUME NEW n \in 1..at PROVE ResultBelongs(files[n])'
    <3>1. ResultBelongs(files[n])
      BY DEF ResultsOK
    <3>2. /\ OutputName(files[n])' = OutputName(files[n])
          /\ WordOf(files[n])' = WordOf(files[n])
          /\ InKeeperKeys(Parser!AxiomSymbol)' <=> InKeeperKeys(Parser!AxiomSymbol)
      BY <1>1 DEF OutputName, Batch, WordOf, TextOf, InKeeperKeys, Parser!AxiomSymbol
    <3> QED
      BY <1>1, <3>1, <3>2 DEF ResultBelongs
  <2> QED
    BY <1>1, <2>1 DEF ResultsOK
<1>2. ASSUME at' = 0
      PROVE  ResultsOK'
  BY <1>2 DEF ResultsOK
<1>3. CASE StoreResult /\ phase' # "aborted"
  <2>1. /\ UNCHANGED <<raw, rules, notes, args, files>> /\ at' = at + 1
        /\ phase = "processing" /\ mode = "parsing"
    BY <1>3 DEF StoreResult, TakeResult, normaliserVars
  <2>2. at \in Nat /\ at < Len(files)
    BY <2>1 DEF MainInv, PhaseOK
  <2>3. at + 1 \in DOMAIN files
    BY <2>1, <2>2 DEF MainInv, FilesOK
  <2> PICK path \in Sources : path = files[at + 1]
    BY <2>3, SourceIs DEF MainInv
  <2>4. ResultBelongs(path)'
    BY <1>3, ResultArrives
  <2>5. /\ DOMAIN disk \subseteq DOMAIN disk'
        /\ DOMAIN disk' \subseteq DOMAIN disk \cup {OutputName(path), LogName(path)}
        /\ \A other \in DOMAIN disk \ {OutputName(path), LogName(path)} :
             disk'[other] = disk[other]
    BY <1>3, StoredDisk
  <2>6. ASSUME NEW n \in 1..at PROVE ResultBelongs(files[n])'
    <3> DEFINE other == files[n]
    <3>1. n \in DOMAIN files /\ n # at + 1 /\ other # path
      BY <2>2, <2>3 DEF MainInv, FilesOK
    <3>2. other \in Sources /\ ResultBelongs(other)
      BY <3>1, SourceIs DEF MainInv, ResultsOK
    <3> HIDE DEF other
    <3>3. /\ other \notin {OutputName(path), LogName(path)}
          /\ OutputName(other) # OutputName(path)
          /\ OutputName(other) # LogName(path)
      BY <2>3, <3>1, <3>2, NamesOfFiles, OutputsApart
    <3>4. OutputName(other) \in DOMAIN disk
      BY <3>2 DEF ResultBelongs
    <3>5. /\ OutputName(other) \in DOMAIN disk'
          /\ disk'[OutputName(other)] = disk[OutputName(other)]
          /\ other \in DOMAIN disk <=> other \in DOMAIN disk'
          /\ other \in DOMAIN disk => disk'[other] = disk[other]
      BY <2>5, <3>3, <3>4
    <3>6. /\ OutputName(other)' = OutputName(other)
          /\ WordOf(other)' = WordOf(other)
          /\ InKeeperKeys(Parser!AxiomSymbol)' <=> InKeeperKeys(Parser!AxiomSymbol)
      BY <2>1, <3>5 DEF other, OutputName, Batch, WordOf, TextOf, InKeeperKeys, Parser!AxiomSymbol
    <3>7. ResultBelongs(other)'
      BY <2>1, <3>2, <3>5, <3>6 DEF ResultBelongs
    <3> QED
      BY <3>7 DEF other
  <2>7. ASSUME NEW n \in 1..(at + 1) PROVE ResultBelongs(files[n])'
    BY <2>1, <2>2, <2>4, <2>6, <2>7
  <2> QED
    BY <2>1, <2>7 DEF ResultsOK
<1>4. CASE StoreResult /\ phase' = "aborted"
  <2>1. UNCHANGED <<raw, rules, notes, args, files>> /\ phase = "processing"
    BY <1>4 DEF StoreResult, TakeResult, normaliserVars
  <2>2. UNCHANGED <<disk, at>>
    BY <1>4, <2>1 DEF StoreResult
  <2> QED
    BY <1>1, <2>1, <2>2
<1>5. ASSUME NEW argv \in Commands, StartMain(argv) PROVE ResultsOK'
  BY <1>2, <1>5 DEF StartMain
<1>6. ASSUME CallLibrary \/ LoadInMain \/ ChooseOneSource \/ GlobSources \/ ChooseNothing
      PROVE  ResultsOK'
  <2>1. at' = at
    BY <1>6 DEF CallLibrary, mainVars, LoadInMain, ChooseOneSource, GlobSources, ChooseNothing
  <2>2. phase \in {"library", "loading", "choosing"}
    BY <1>6 DEF CallLibrary, LoadInMain, ChooseOneSource, GlobSources, ChooseNothing
  <2>3. at = 0
    BY <2>2 DEF MainInv, PhaseOK
  <2> QED
    BY <1>2, <2>1, <2>3
<1>7. ASSUME ProcessFile PROVE ResultsOK'
  <2>1. UNCHANGED <<raw, rules, notes>>
    BY <1>7 DEF ProcessFile, ProcessSource, Parser!Call, sessionVars, vars, normaliserVars
  <2> QED
    BY <1>1, <1>7, <2>1 DEF ProcessFile
<1>8. ASSUME ParseInMain PROVE ResultsOK'
  <2>1. UNCHANGED <<raw, rules, notes>>
    BY <1>8 DEF ParseInMain, Parse, Parser!Next, Parser!Terminals, Parser!FillSplit,
       Parser!ReturnAxiomNodes, Parser!ReturnBrokenNodes, Parser!ReadOutside, Parser!input
  <2> QED
    BY <1>1, <1>8, <2>1 DEF ParseInMain, mainVars
<1>9. ASSUME EndMain \/ UNCHANGED allVars PROVE ResultsOK'
  <2>1. UNCHANGED <<args, disk, files, at>> /\ UNCHANGED vars
    BY <1>9 DEF EndMain, allVars, mainVars, sessionVars, vars
  <2>2. UNCHANGED <<raw, rules, notes>>
    BY <2>1 DEF vars, normaliserVars
  <2> QED
    BY <1>1, <2>1, <2>2
<1> QED
  BY <1>3, <1>4, <1>5, <1>6, <1>7, <1>8, <1>9 DEF DriverNext, Main, Terminated

LEMMA ResultsInit == DriverInit => ResultsOK
BY DEF DriverInit, ResultsOK

\* Whatever earlier runs left: the results of the sources that are done belong to them.
THEOREM MainResults == DriverSpec => []ResultsOK
<1>1. MainInv => OutputFits
  BY OutputOfTree DEF MainInv
<1>2. DriverSpec => []MainInv /\ []OutputFits
  BY <1>1, MainInvariant, PTL
<1> QED
  BY <1>2, ResultsInit, ResultsStep, PTL DEF DriverSpec

\* When a run has come to its end, the result of every one of its sources belongs to it.
THEOREM MainResultsAreOfThisRun == DriverSpec => []ResultsAreOfThisRun
<1>1. MainInv /\ ResultsOK => ResultsAreOfThisRun
  BY DEF MainInv, PhaseOK, FilesOK, ResultsOK, ResultsAreOfThisRun
<1> QED
  BY <1>1, MainInvariant, MainResults, PTL

-----------------------------------------------------------------------------
(* Where a run stops.                                                       *)

\* A grammar with a rule for its axiom leaves the parser a symbol for it.
LEMMA AxiomRuleKept ==
  ASSUME NormalFormOK, stage = "DONE", HasAxiomRule
  PROVE  Parser!HasAxiomSymbol
<1>1. /\ Normaliser!ExpansionInv /\ IsSource(raw) /\ <<Axiom>> \in DOMAIN raw
  BY GrammarIsSource DEF NormalFormOK, Normaliser!NormalInv, HasAxiomRule
<1>2. PICK source \in Alternatives(raw, <<Axiom>>) : TRUE
  <2>1. raw[<<Axiom>>] \in Seq(Seq(SourceOperand))
    BY <1>1 DEF IsSource
  <2>2. 1 \in DOMAIN raw[<<Axiom>>]
    BY <2>1 DEF HasAxiomRule
  <2> QED
    BY <1>1, <2>2 DEF Alternatives, Range
<1>3. ~ Normaliser!IsEmptyRule(source)
  <2>1. Len(source) = 1 /\ source[1].type = "NONTERMINAL"
    BY <1>1, GrammarIsSource DEF NormalFormOK
  <2> QED
    BY <2>1 DEF Normaliser!IsEmptyRule
<1>4. <<Axiom>> \in DOMAIN rules /\ Alternatives(rules, <<Axiom>>) # {}
  BY <1>1, <1>3, SameLanguage DEF Normaliser!ExpansionInv, Normaliser!ExpansionComplete
<1>5. rules[<<Axiom>>] \in Seq(Normaliser!Rule) /\ rules[<<Axiom>>] # <<>>
  BY <1>1, <1>4 DEF Normaliser!ExpansionInv, Normaliser!TypeOK, Normaliser!IsProductionRules,
     Alternatives
<1>6. rules[<<Axiom>>][1] \in Alternatives(rules, <<Axiom>>)
  BY <1>4, <1>5 DEF Alternatives
<1>7. rules[<<Axiom>>][1] # <<>>
  <2>1. Normaliser!StandsFor(<<Axiom>>, rules[<<Axiom>>][1])
    BY <1>1, <1>4, <1>6, SameLanguage
       DEF Normaliser!ExpansionInv, Normaliser!ExpansionSound, Normaliser!ExpandsToSource
  <2>2. Normaliser!BinaryForm
    BY <1>1, Normaliser!BinaryNow, PartsAssumptions, NamesAssumption
  <2>3. Normaliser!MadeRule(rules[<<Axiom>>][1]) /\ Len(rules[<<Axiom>>][1]) <= 2
    BY <1>1, <1>4, <1>6, <2>2, SameLanguage
       DEF Normaliser!ExpansionInv, Normaliser!Shape, Normaliser!MadeRules,
         Normaliser!BinaryForm, Normaliser!AfterBin, Normaliser!Done
  <2> QED
    BY <2>1, <2>3, AxiomRules
<1> QED
  BY <1>4, <1>5, <1>7 DEF Parser!HasAxiomSymbol

\* A token of the word that a rule of the grammar as written uses fails no cell.
LEMMA UsedTokenHasRule ==
  ASSUME NormalFormOK, stage = "DONE", NEW t \in Terminal, Used(t)
  PROVE  \E name \in DOMAIN rules :
           <<Parser!TerminalOperand(t)>> \in Parser!Alternatives(rules, name)
<1>1. Normaliser!ExpansionInv /\ Normaliser!LinksInv
  BY DEF NormalFormOK, Normaliser!NormalInv
<1>2. /\ \A g, name : Parser!Alternatives(g, name) = Normaliser!Alternatives(g, name)
      /\ Parser!TerminalOperand(t) = Normaliser!TerminalOperand(t)
      /\ TerminalOperand(t) = Normaliser!TerminalOperand(t)
  BY DEF Parser!Alternatives, Normaliser!Alternatives, Parser!TerminalOperand,
     Normaliser!TerminalOperand, TerminalOperand
<1>3. PICK name \in DOMAIN raw : \E source \in Alternatives(raw, name) :
        TerminalOperand(t) \in Range(source)
  BY DEF Used
<1>4. PICK source \in Normaliser!Alternatives(raw, name) :
        Normaliser!TerminalOperand(t) \in Range(source)
  BY <1>2, <1>3, SameLanguage
<1>5. PICK q \in DOMAIN source : source[q] = Normaliser!TerminalOperand(t)
  BY <1>4 DEF Range
<1>6. Normaliser!TokenHasRule(t)
  BY <1>1, <1>5, Normaliser!TokensHaveRules, PartsAssumptions, NamesAssumption
<1> QED
  BY <1>2, <1>6 DEF Normaliser!TokenHasRule

\* A call ends without an answer only at a word and a grammar that are to blame.
LEMMA NoAnswerForReason ==
  ASSUME SessionInv, stage = "DONE", pc = "done", Answer(0) \in {"exception", "undefined"}
  PROVE  \/ word = <<>>
         \/ \E type \in Range(word) : ~ Used(type)
         \/ ~ HasAxiomRule
<1>1. NormalFormOK /\ Parser!CYKInv /\ Parser!FrameOK
  BY DEF SessionInv, ParserOK
<1>2. \/ outcome = "throws"
      \/ outcome = "undefined"
      \/ ~ Parser!HasAxiomSymbol
  BY DEF Answer
<1>3. CASE ~ Parser!HasAxiomSymbol
  BY <1>1, <1>3, AxiomRuleKept
<1>4. /\ outcome = "throws" =>
           \E type \in Parser!Range(word) : \A name \in DOMAIN rules :
             <<Parser!TerminalOperand(type)>> \notin Parser!Alternatives(rules, name)
      /\ outcome = "undefined" => word = <<>> \/ ~ Parser!HasAxiomSymbol
  BY <1>1, Parser!AnswerGiven, ParserAssumptions, NamesAssumption
<1>5. CASE outcome = "throws"
  <2>1. PICK type \in Range(word) : \A name \in DOMAIN rules :
          <<Parser!TerminalOperand(type)>> \notin Parser!Alternatives(rules, name)
    BY <1>4, <1>5, ParserAssumptions
  <2>2. type \in Terminal
    <3>1. word \in Seq(Terminal)
      BY <1>1 DEF Parser!CYKInv, Parser!LoopInv, Parser!CallOK
    <3> QED
      BY <3>1 DEF Range
  <2> QED
    BY <1>1, <2>1, <2>2, UsedTokenHasRule
<1> QED
  BY <1>2, <1>3, <1>4, <1>5

\* The source that a run stops at, of those it was to process.
StopsFor(path) ==
  \/ CannotRead(path)
  \/ WordOf(path) = <<>>
  \/ \E type \in Range(WordOf(path)) : ~ Used(type)
  \/ ~ HasAxiomRule


\* What the property reads of a state.
stopVars == <<phase, raw, args, disk, files, at>>

LEMMA StopsKept == StopsOnlyAtUnusableSource /\ UNCHANGED stopVars => StopsOnlyAtUnusableSource'
BY DEF StopsOnlyAtUnusableSource, stopVars, OutputName, Batch, CannotRead, WordOf, TextOf,
   Used, HasAxiomRule

\* The sources before have their result: what ResultsOK says.
LEMMA StopsAtSource ==
  ASSUME ResultsOK, UNCHANGED <<raw, args, disk, files, at>>, at < Len(files), StopsFor(files[at + 1])
  PROVE  StopsOnlyAtUnusableSource'
<1>1. \A n \in 1..at : OutputName(files[n]) \in DOMAIN disk
  BY DEF ResultsOK, ResultBelongs
<1>2. /\ at < Len(files)
      /\ \A n \in 1..at : OutputName(files[n]) \in DOMAIN disk
      /\ StopsFor(files[at + 1])
  BY <1>1
<1>3. (/\ at < Len(files)
       /\ \A n \in 1..at : OutputName(files[n]) \in DOMAIN disk
       /\ StopsFor(files[at + 1]))'
  BY <1>2 DEF StopsFor, OutputName, Batch, CannotRead, WordOf, TextOf, Used, HasAxiomRule
<1> QED
  BY <1>3 DEF StopsOnlyAtUnusableSource, StopsFor

LEMMA StopsInGlob ==
  ASSUME MainInv, GlobSources
  PROVE  StopsOnlyAtUnusableSource'
<1> SUFFICES ASSUME phase' = "aborted"
             PROVE  (\E path \in DOMAIN disk : PathLength(path) <= Chars[Get(args, "--ext")[1]])'
                    /\ files' = <<>>
  BY DEF StopsOnlyAtUnusableSource
<1> DEFINE ext == Get(args, "--ext")[1]
<1>1. /\ files' = <<>> /\ UNCHANGED <<args, disk>> /\ Given(args, "--ext")
      /\ phase = "choosing"
      /\ \E path \in DOMAIN disk : SubstrThrows(path, ext)
  BY DEF MainInv, PhaseOK, GlobSources
<1>2. ext \in DOMAIN Chars
  BY <1>1, CommandsAssumption DEF MainInv, PhaseOK
<1>3. PICK path \in DOMAIN disk : SubstrThrows(path, ext)
  BY <1>1
<1>4. PathLength(path) <= Chars[ext]
  BY <1>2, <1>3, ThrowsOnShortPaths DEF MainInv, DiskOK, EntryOK
<1> QED
  BY <1>1, <1>4

LEMMA StopsInProcess ==
  ASSUME MainInv, ResultsOK, ProcessFile
  PROVE  StopsOnlyAtUnusableSource'
<1> SUFFICES ASSUME phase' = "aborted"
             PROVE  StopsOnlyAtUnusableSource'
  BY DEF StopsOnlyAtUnusableSource
<1>1. /\ at < Len(files) /\ CannotRead(files[at + 1])
      /\ UNCHANGED sessionVars /\ UNCHANGED <<args, disk, files, at>>
  BY DEF ProcessFile
<1>2. UNCHANGED raw /\ StopsFor(files[at + 1])
  BY <1>1 DEF sessionVars, vars, normaliserVars, StopsFor
<1> QED
  BY <1>1, <1>2, StopsAtSource

LEMMA StopsInStore ==
  ASSUME MainInv, ResultsOK, StoreResult
  PROVE  StopsOnlyAtUnusableSource'
<1> SUFFICES ASSUME phase' = "aborted"
             PROVE  StopsOnlyAtUnusableSource'
  BY DEF StopsOnlyAtUnusableSource
<1>1. /\ mode = "parsing" /\ pc = "done" /\ phase = "processing"
      /\ answer' = Answer(0)
      /\ UNCHANGED <<raw, args, files>>
  BY DEF StoreResult, TakeResult, normaliserVars
<1>2. answer' \in {"exception", "undefined"} /\ UNCHANGED <<disk, at>>
  BY <1>1 DEF StoreResult
<1>3. SessionInv /\ stage = "DONE" /\ at < Len(files) /\ word = WordHere
  BY <1>1 DEF MainInv, PhaseOK, SessionInv, InTurn
<1>4. \/ word = <<>>
      \/ \E type \in Range(word) : ~ Used(type)
      \/ ~ HasAxiomRule
  BY <1>1, <1>2, <1>3, NoAnswerForReason
<1>5. StopsFor(files[at + 1])
  <2>1. CASE raw = NoRules
    <3>1. ~ HasAxiomRule
      BY <2>1 DEF HasAxiomRule, NoRules
    <3> QED
      BY <3>1 DEF StopsFor
  <2>2. CASE raw # NoRules
    <3>1. word = WordOf(files[at + 1])
      BY <1>3, <2>2 DEF WordHere
    <3> QED
      BY <1>4, <3>1 DEF StopsFor
  <2> QED
    BY <2>1, <2>2
<1> QED
  BY <1>1, <1>2, <1>3, <1>5, StopsAtSource

LEMMA StopsStep ==
  ASSUME MainInv, ResultsOK, StopsOnlyAtUnusableSource, [DriverNext]_allVars
  PROVE  StopsOnlyAtUnusableSource'
<1>1. ASSUME phase' # "aborted" PROVE StopsOnlyAtUnusableSource'
  BY <1>1 DEF StopsOnlyAtUnusableSource
<1>2. CASE UNCHANGED allVars
  <2>1. UNCHANGED stopVars
    BY <1>2 DEF stopVars, allVars, mainVars, sessionVars, vars, normaliserVars
  <2> QED
    BY <2>1, StopsKept
<1>3. CASE Main
  <2>1. ASSUME LoadInMain \/ ChooseOneSource \/ ChooseNothing \/ ParseInMain \/ EndMain
        PROVE  phase' # "aborted"
    BY <2>1 DEF LoadInMain, ChooseOneSource, ChooseNothing, ParseInMain, mainVars, EndMain
  <2> QED
    BY <1>1, <1>3, <2>1, StopsInGlob, StopsInProcess, StopsInStore DEF Main
<1>4. ASSUME CallLibrary PROVE phase' # "aborted"
  BY <1>4 DEF CallLibrary, mainVars
<1>5. ASSUME NEW argv \in Commands, StartMain(argv) PROVE phase' # "aborted"
  BY <1>5 DEF StartMain
<1> QED
  BY <1>1, <1>2, <1>3, <1>4, <1>5 DEF DriverNext, Terminated

LEMMA StopsInit == DriverInit => StopsOnlyAtUnusableSource
BY DEF DriverInit, StopsOnlyAtUnusableSource

\* main stops early only at a source that is a directory, is without a token, or has a
\* token that no rule as written uses, or for a grammar without an axiom; or before the
\* first source, at a path no longer than the extension; and no result is missing.
THEOREM MainStopsOnlyAtUnusableSource == DriverSpec => []StopsOnlyAtUnusableSource
<1>1. DriverSpec => []MainInv /\ []ResultsOK
  BY MainInvariant, MainResults, PTL
<1> QED
  BY <1>1, StopsInit, StopsStep, PTL DEF DriverSpec

=============================================================================
