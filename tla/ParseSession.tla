---------------------------- MODULE ParseSession ----------------------------
(***************************************************************************)
(* ParseSession (parsesession.cpp): a session loads a grammar, puts it in  *)
(* normal form (TwoNF) and builds the parser on it (CYK); then it parses   *)
(* sources, any number of them, until another grammar is loaded.           *)
(*                                                                         *)
(* A source is the sequence of token types the lexer makes of it; the      *)
(* result is the parse tree that is chosen.  What the caller is given is   *)
(* made of that tree and of the grammar's notes: TreeConversion.           *)
(***************************************************************************)
EXTENDS Language, SequencesExt

CONSTANTS
  SourceGrammars,  \* the production rules that files may hold
  NotesOf,         \* NotesOf[g]: the labels, keeper and strnodes that files with
                   \* the rules g may hold
  Words,           \* the token sequences that sources may hold
  Indices,         \* the values callers give to the parameter index
  KeyOrder         \* all names, in the order of their text

VARIABLES
  \* of get2nf; rules and unit are also the parser's copy of its result
  raw, rules, stage, keys, key, pending, nf, changed, nullables, todo, occ, unit,
  \* of membership
  word, P, l, i, k, pc, frame, outcome,
  \* of the session
  notes,   \* the labels, keeper and strnodes of its grammar
  mode,    \* the method that runs
  answer,  \* what the last process_source_to_ptree came to
  tree     \* the node it chose from the frame

normaliserVars == <<raw, rules, stage, keys, key, pending, nf, changed,
                    nullables, todo, occ, unit>>

parserVars == <<word, P, l, i, k, pc, frame, outcome>>

resultVars == <<answer, tree>>

vars == <<normaliserVars, parserVars, notes, mode, resultVars>>

\* With what is proved of the two.
Normaliser == INSTANCE TwoNFProofs

Parser == INSTANCE CYKProofs WITH Inputs <- {}

\* A grammar file has a single name on the right of AXIOM.
ASSUME SourcesAssumption ==
  \A g \in SourceGrammars :
    /\ IsSource(g)
    /\ IsFiniteSet(DOMAIN g)
    /\ <<Axiom>> \in DOMAIN g =>
         \A rule \in Alternatives(g, <<Axiom>>) :
           Len(rule) = 1 /\ rule[1].type = "NONTERMINAL"

\* The notes are as the loader makes them: see the types of GrammarLoader.
ASSUME NotesAssumption ==
  \A g \in SourceGrammars : \A n \in NotesOf[g] : NotesFit(n)

\* The names that authors give, those of tokens' rules and those that BIN makes.
ASSUME NamesInOrder ==
  /\ KeyOrder \in Seq(Name)
  /\ IsInjective(KeyOrder)
  /\ Normaliser!SourceName \cup Normaliser!TokenName \subseteq Range(KeyOrder)
  /\ \A g \in SourceGrammars : Normaliser!MadeNames(g) \subseteq Range(KeyOrder)

\* The lexer makes words of the grammar's tokens; an index is unsigned.
ASSUME CallsAssumption == Words \subseteq Seq(Terminal) /\ Indices \subseteq Nat

NoTree == <<>>

NoNotes == [labels |-> NoRules, keeper |-> NoRules, strnodes |-> NoRules]

-----------------------------------------------------------------------------

\* A new session has an empty grammar and a parser built on it.
Init ==
  /\ raw = NoRules /\ rules = NoRules /\ unit = Normaliser!NoUnits
  /\ stage = "DONE"
  /\ keys = {} /\ key = Normaliser!NoKey /\ pending = <<>> /\ nf = NoRules
  /\ changed = FALSE /\ nullables = {} /\ todo = {} /\ occ = {}
  /\ word = <<>> /\ P = <<>> /\ l = 0 /\ i = 0 /\ k = 0
  /\ pc = "done" /\ frame = <<>> /\ outcome = "none"
  /\ notes = NoNotes
  /\ mode = "idle" /\ answer = "none" /\ tree = NoTree

\* load_grammar: the loader's grammar goes to get2nf, which keeps its notes.  The
\* result of an earlier parse is the caller's, nothing of it stays in the session.
LoadGrammar(g, n) ==
  /\ mode = "idle"
  /\ mode' = "loading"
  /\ notes' = n
  /\ raw' = g /\ rules' = g /\ unit' = Normaliser!NoUnits
  /\ stage' = "TERM" /\ keys' = DOMAIN g
  /\ key' = Normaliser!NoKey /\ pending' = <<>> /\ nf' = NoRules
  /\ changed' = FALSE /\ nullables' = {} /\ todo' = {} /\ occ' = {}
  /\ word' = <<>> /\ P' = <<>> /\ l' = 0 /\ i' = 0 /\ k' = 0
  /\ pc' = "done" /\ frame' = <<>> /\ outcome' = "none"
  /\ answer' = "none" /\ tree' = NoTree

Normalise ==
  /\ mode = "loading"
  /\ Normaliser!Next
  /\ UNCHANGED <<parserVars, notes, mode, resultVars>>

\* The parser takes over the normal form.
BuildParser ==
  /\ mode = "loading"
  /\ stage = "DONE"
  /\ mode' = "idle"
  /\ UNCHANGED <<normaliserVars, parserVars, notes, resultVars>>

\* A fault: the tree of the source before is kept.
ProcessSourceStale(w) ==
  /\ mode = "idle"
  /\ raw = NoRules => w = <<>>
  /\ mode' = "parsing"
  /\ answer' = "none"
  /\ Parser!Call(rules, unit, w)
  /\ UNCHANGED <<raw, stage, keys, key, pending, nf, changed, nullables, todo, occ,
                 notes, tree>>

\* process_source_to_ptree: the lexer makes the word and membership is called.
\* Without a grammar the lexer has no patterns and the word is empty.
ProcessSource(w) ==
  /\ mode = "idle"
  /\ raw = NoRules => w = <<>>
  /\ mode' = "parsing"
  /\ answer' = "none" /\ tree' = NoTree
  /\ Parser!Call(rules, unit, w)
  /\ UNCHANGED <<raw, stage, keys, key, pending, nf, changed, nullables, todo, occ,
                 notes>>

Parse ==
  /\ mode = "parsing"
  /\ Parser!Next
  /\ UNCHANGED <<raw, stage, keys, key, pending, nf, changed, nullables, todo, occ,
                 notes, mode, resultVars>>

\* The node that the index selects; an index outside the frame selects the first.
Selected(index) == frame[(IF index < Len(frame) THEN index ELSE 0) + 1]

Answer(index) ==
  CASE outcome = "throws"    -> "exception"
    [] outcome = "undefined" -> "undefined"
    [] OTHER ->
         IF frame = <<>> THEN "nothing"
         ELSE IF ~ Parser!HasAxiomSymbol THEN "undefined"
         ELSE IF Selected(index).nodetype = Parser!AxiomSymbol THEN "tree"
         ELSE "error log"

\* membership has returned: the frame is empty, or the selected node is the
\* axiom's symbol and is chosen, or the failure is logged.
TakeResult(index) ==
  /\ mode = "parsing"
  /\ pc = "done"
  /\ mode' = "idle"
  /\ answer' = Answer(index)
  /\ tree' = (IF Answer(index) = "tree" THEN Selected(index) ELSE NoTree)
  /\ UNCHANGED <<normaliserVars, parserVars, notes>>

Next ==
  \/ \E g \in SourceGrammars : \E n \in NotesOf[g] : LoadGrammar(g, n)
  \/ Normalise
  \/ BuildParser
  \/ \E w \in Words : ProcessSource(w)
  \/ Parse
  \/ \E index \in Indices : TakeResult(index)

Spec == Init /\ [][Next]_vars

-----------------------------------------------------------------------------
(* Properties.                                                              *)

TypeOK ==
  /\ Normaliser!TypeOK
  /\ Parser!TypeOK
  /\ mode \in {"idle", "loading", "parsing"}
  /\ answer \in {"none", "exception", "undefined", "nothing", "tree", "error log"}
  /\ answer = "tree" <=> tree # NoTree

\* Whatever tree is handed out, of a failed parse too, its tokens are a part of
\* the source that the axiom's symbol derives in the grammar as it was written, and
\* the whole source if the parse is reported as whole: token rules, cut rules,
\* dropped duplicates and the unit relation over empty operands together add
\* nothing to the language.
TreeIsAPhrase ==
  /\ answer = "tree" =>
       LET leaves == Parser!Leaves[tree]
           from   == leaves[1]
           to     == leaves[Len(leaves)] + 1
       IN  <<tree.nodetype, from, to>> \in Derivations(raw, word)
  /\ (outcome = "whole" /\ frame # <<>>) => InLanguage(raw, word)

\* For a grammar without empty operands and without chains of unit rules the
\* parser is complete: the first solution for every word of the language is a
\* tree of the axiom's symbol over the whole word.
ProperGrammarsAreParsed ==
  (/\ mode = "idle" /\ answer # "none"
   /\ Proper(raw) /\ InLanguage(raw, word))
     => /\ outcome = "whole"
        /\ frame[1].nodetype = Parser!AxiomSymbol

\* "membership method checks if word is part of the language": every word of
\* the language gets a tree.
LanguageIsParsed ==
  (answer # "none" /\ word # <<>> /\ InLanguage(raw, word))
    => outcome = "whole" /\ frame # <<>>

\* "boost ptree containing the parsed savable data or empty result if an error
\* occured": no tree is handed out for a word that was not parsed as a whole.
ErrorGivesEmptyResult ==
  answer = "tree" => outcome = "whole"

=============================================================================
