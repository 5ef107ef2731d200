# A verification project for parselib

parselib parses files with grammars that are themselves read from files. This
directory holds TLA+ modules translated from its C++ code, the TLC
configurations that check them on small instances, and proofs that TLAPS checks
for every instance. Paths without a directory are below `src/parselib/`.

## The system

| Component | State it keeps | Operations | Talks to |
|---|---|---|---|
| Grammar loader, `parsers/grammarparser.cpp`, `utils/preprocessor.hpp`, `datastructure/grammar.cpp` | queue of files to read, files already read, directory of the current file, merged grammar | `parse`, `preprocess`, `processimports`, `merge` | lexer, sequential parser |
| Sequential grammar parser, `parsers/seqparsers.cpp` | two cursors over two token lists, the current rule, the grammar being built | `parse` and its five `check_*` steps | called by `Grammar::makegrammar` |
| Normal form, `operations/normop.cpp`, `operations/generalop.cpp` | the map being read, the map being built, the flag of the round, a worklist | `get2nf`: TERM, BIN, `eliminatedoubles`, `getnullables`, `getunitrelation`, `removenullables` | called by the session with the loader's grammar |
| CYK parser, `parsers/cyk.cpp` | the grammar in normal form; during a call a triangular matrix of frames | `membership` | called by the session, gives it parse tree nodes |
| Session, `parsesession.cpp` | grammar, parser, lexer; a result file or a log on disk | `load_grammar`, `process_source_to_ptree`, `process_to_json`, `process_and_store_json` | everything above |
| Parse trees, `datastructure/parsetree.cpp` | nodes and the trees they unfold to | `unfold`, `merge`, `strUnfold` | the session's `parse` turns them into a property tree |
| Lexer, `parsers/lexer.cpp` | patterns, tokens | `tokenize` | one regular expression per call, run by Boost |
| LR(0) parser, `parsers/lr_zero.cpp`, `datastructure/closure_types.h` | a graph of closures, action and goto tables; during a call two stacks | `build_graph`, `build_table`, `membership` | a test only; the session never builds one |
| Driver and C interface, `main.cpp`, `pyparselib.cpp`, `utils/io.cpp` | arguments, a list of sources, a session; the directory it reads and writes | a source, or all sources of a directory; `load_grammar`, `store_json`, `get_json` | the session |

The program is sequential: one thread, no callbacks; only the result files
outlive a run. What is hard in it is not interleaving but order: maps rewritten
while they are being read, keys that several rules share, worklists, a table
filled in an order that must respect its own dependencies, two cursors and two
stacks that must move together, a queue of files that name each other, a session
that answers many calls with the state of earlier ones, and a loop over sources
that the first exception ends. `PROJECT.json` lists each of these hazards at its line
with the properties aimed at it.

## The modules

### Names

The code names everything with strings and makes new names by gluing: `a.` is
the key of the rule for the token `a`, and `x/y/z` the key of a rule's tail. In
the model (`Grammar`) a name is a sequence of atoms, `<<A>>`, `<<Dotted[a]>>`,
`<<x, y, z>>`. This is faithful as long as no author's name contains a slash or
ends with a dot, which the lexer of grammar files guarantees
(`operations/generalop.cpp:31-32`); `NamesAssumption` says it.

### TwoNF, the normal form

`get2nf` runs four passes over the map of rules. They have one shape, and so do
the actions: `VisitKey` is the outer loop over the keys, `TermRule`, `BinRule`,
`UniqueRule` and `NonEmptyRule` are the bodies of the inner loops, `EndPass`
assigns the finished map and chooses what follows, a further round of BIN among
others. `SeedNullables`, `PopNullable` and `Propagate` are `getnullables`,
`GetUnitRelation` the function of that name. The code visits keys in the order
of `std::map` and pops the worklist from its end; the model does both in every
order, so that what is checked and proved does not depend on how an author
names his rules.

`ExpansionSound` and `ExpansionComplete` are the heart: a name that get2nf made
spells out the operands it stands for, and expanding the names of a rule gives
the alternative it was cut from. Nothing else may ever be in the map, and
nothing the author wrote may be missing.

### CYKTable and CYK, the parser

`CYKTable` says what the chart of `membership` promises, leaving the order open:
a cell is the set of its nodes, one task reads one token or one split of one
span, and a task runs once the two cells it reads are finished. `Grounded`,
`Saturated` and `UnitSaturated` pin the contents down; `FinishedCellsAreFinal`
says that what was read stays true.

`CYK` is the code: three nested loops over length, start and split, frames as
sequences in the order in which nodes are pushed, the choice of the frame to
return in `ReturnAxiomNodes` and `ReturnBrokenNodes`, and the two reads that
C++ leaves undefined (an empty source, a grammar without AXIOM), which end the
call with the outcome "undefined". `KnownTokensAnswered` says that nothing else keeps a
word of known tokens from an answer. `FillsTheChart` is the refinement: the loops
implement `CYKTable` under the mapping that takes a frame to the set of its
nodes and the counters to the tasks behind them. The loops that push some of a
vector's elements to another are `Pick` of module `SubSequences`, here and in the
other modules: the elements at a set of places, in their order.

### Language and ParseSession

`Language` is a reference that no code implements: which symbol derives which
part of a word, as a least fixed point over the grammar as it was written, by
a recursive function (`saturated`) that adds what follows from the facts it has.
`ParseSession` composes TwoNF and CYK: `LoadGrammar`, the steps of the
normaliser, `BuildParser`, `ProcessSource`, the steps of the parser,
`TakeResult`, in any order a caller may choose. Its properties compare the
answer with `Language`. The two parts are instances of the modules with their
proofs (`Normaliser` of `TwoNFProofs`, `Parser` of `CYKProofs`), so that what is
proved of them can be cited of a session.

### SequentialParser and GrammarLoader, how a grammar is read

`SequentialParser` is one run of `Grammar::makegrammar` over the tokens of a
file. The code reads two lists at once: `parsedtokens`, and `grammar`, which a
second lexer makes of the text of their types ("TERMINAL REGEX" is one match
over two tokens). `Starts` computes the second list from the first; what fits no
pattern is skipped there and, as in the code, is still in `parsedtokens`. Each
`check_*` function is an action, and `check_right_side`, whose loop does the
work, has one per kind of token (`KeepAsText`, `Keep`, `MakeList`, `MakeListOp`,
`AddToRule`). Reads behind the end of a list, and `back()` of no alternatives,
end in "undefined"; a regular expression without brackets ends in "throws".
`InStep` is the property everything rests on: as long as no token was skipped,
both cursors are at the same place.

`GrammarLoader` composes it: `ReadFile` and `SkipFile` are `preprocess` with
`processimports`, `MakeGrammar` the steps of the sequential parser, `MergeFile`
is `Grammar::merge`. A file name is the sequence of segments of its text, of
the constant set `Segment`; the empty segment stands before a leading slash. The
code compares texts; only `Resolve`, the file system, knows which file a text
opens. Keeping the two apart is what makes the surprises below visible.

Files hold what the lexer of grammar files can produce, with these limits: rules
are written with `->`, there is no label on an operand that already has `!` or
`s:` before it, and no `=` in a regular expression or a comment.

### TreeConversion, what the caller gets

`Unfold` and `Below` are `unfold` of the three kinds of node that the parser
builds, `StrUnfold` is `strUnfold`, and `ParseParts` and `Parsed` are
`ParseSession::parse`, with the look-ups of `grammar.cpp`. They are recursive
functions over the nodes of the chart. A part of the unfolded tree always comes
from one node, so a branch is the sequence of its nodes. The text of a token is
its place in the source, so a property can say which token a value came from. A
property tree is the set of its texts, each with the path of labels and places
that leads to it; what repeats a label, or a token, shows in it. `Output` is what
a call returns: neither the tree that `TakeResult` chose nor the notes change
before the next call.

### Lexer and Driver, the programs around a session

`Tokenize` is `Lexer::tokenize`: the patterns are tried in the order of the grammar
file, the first that matches takes as much as it can, and a character that no
pattern matches is passed over in silence. A pattern is given by the texts it
matches; that is what a regular expression of the grammar file is to the code.

`Driver` composes everything but the loader of grammar files (whose result,
rules with their notes, it takes from `GrammarFiles`). There are two kinds of
program. `CallLibrary` is one that links the library and calls one session
as it likes: `ParseSession`'s own next-state relation. The other is `main`:
`StartMain` reads the arguments and the grammar, `ChooseOneSource`,
`GlobSources` and `ChooseNothing` are its three ways on, `ProcessFile`,
`ParseInMain` and `StoreResult` the loop over the sources, each with all the
steps that the session takes inside. An exception, a source that is a directory,
or an undefined read ends the process ("aborted"): `main` handles none. It can be
started again over the same disk with other arguments, and with a new session,
as often as `MaxRuns` says. A path is the list of its parts between dots, so
that a name with one more ".json" is another name.

`ResultsAreOfThisRun` says of every source of a run that came to its end, by
`ResultBelongs`: the file that was written for it is there; every value in it
comes from a phrase of this run's grammar in this source; and it is not empty if
the source is a word of a proper grammar and anything of the axiom's symbol is kept.
`StopsOnlyAtUnusableSource` lists the reasons for which a run may end early.

Four limits are assumptions, so that TLC evaluates them and the proofs may use
them: a grammar file that cannot be read is a grammar without rules
(`FilesAssumption`); the patterns are of the grammar's tokens
(`PatternsAssumption`); the directory holds sources and directories, none of the
latter with a name that `main` would write to (`DisksAssumption`); and nobody has
`main` parse its own results, `--ext json` or `--ext log` (`CommandsAssumption`).

### LRZero, the other parser

`LRZero` is a parser object from its constructor to the end of one `membership`.
`WalkItem`, `AddLastState` and `DropNewest` are the loops of `build_graph`:
they keep the code's copy of the closure, its order of items (closures are
compared by it) and its worklist, from which `pop_back` takes the newest closure
and not the one that was walked. `GetTransitions` and `BuildTable` are the loops
that follow. `LookUp` is the header of membership's loop, `TakeCell` one cell of
the range that it found; the order of cells under one key is open in an
`unordered_multimap`, so the range is a set and every order is possible. Equal
cells, which the multimap keeps, differ by the place of their token. Item, closure
and cell are values; the label is the counter `j`. `Expand`, the loop of
`make_closure`, is a recursive function over what the loop works on (the
closure, `q` and `processed`), and `TakeName` one round of it.

`GrammarsAssumption` takes the first rule of AXIOM to be the one name that an AXIOM
line gives. Only a left side with a label, `x=AXIOM ->`, is read as a name spelled
AXIOM, and could give it other rules before that line; such files are left out here.

`GraphIsComplete` says that nothing is lost on the way: every alternative that a
state needs is in it, every item has its successor in some state. It holds
because an item is walked to its end where it first occurs, so that the closure
which is dropped has nothing left to find. The mutant `WalkOnce`, the way
textbooks do it, breaks it at once. `StacksInStep` counts a label for each token
node and none for the node of a reduction: that is so because no goto is ever
found, which is not what the outline in the code means (`GotosAreTaken`, the run
`lr_goto`).

## The runs

Each run asks one question. The times are those of a small machine.

| Run | Question | Instance | Result |
|---|---|---|---|
| `two_nf` | Does `get2nf` keep the grammar, in every order? | 42 grammars over S and A with two tokens; all orders of keys and worklist | nine properties hold |
| `cyk_table` | Is the chart determined, whatever the order? | four normal forms; words up to four tokens; all orders | five properties hold |
| `cyk` | Does `membership` implement the chart, and return what it should? | five normal forms; words up to four tokens, one token type unused | five properties hold |
| `session` | Is the answer about this word and this grammar, is the property tree right, and what does a run of `main` leave? | programs with one session: 34 grammars marked in two ways, words up to four tokens, three indices, any number of calls; `main`: 17 directories, seven argument lists, two runs | seven properties hold, no deadlock |
| `session_language` | Is every word of the language parsed? | the programs with one session | no |
| `session_error_result` | Is the result empty after an error? | the same | no |
| `lr` | Is the graph complete, what is refused, do the stacks stay in step? | ten chosen grammars and all 8,000 of two names with short rules; words up to four tokens | three properties hold, no deadlock |
| `lr_goto` | Is the goto table followed after a reduction? | the ten chosen grammars | no |
| `seq_parser` | Is the grammar what the file says? | 3,600 files: all of three pieces from fifteen after `S ->`, and of two between two rules | five properties hold |
| `loader` | Is every imported file merged, and once? | 510 projects of three files and every web of imports that goes down | six properties hold |
| `loader_upward` | The same, when an import goes up | one project of two files | no |
| `loader_inside` | The same, when the grammar is named from inside its folder | one project | no |

Why these bounds are enough to be interesting:

- `two_nf`: rules of four operands need two rounds of BIN. Two rules with the
  same tail share a made key. The empty, the blank, the repeated and the missing
  alternative are all there, as is left, right and mutual recursion.
- `cyk_table`, `cyk`: four tokens have the first cells in which two splits both
  give nodes and in which a split has two cells above the token row. The grammar
  S = S S | a. has five trees for that word.
- `session`: the words of four tokens include ones in and out of every language;
  a session can change grammar after any answer. The two ways of marking cover
  `!`, labels that two operands share, and text kept beside structure. Beside the
  thirty plain grammars are one with two AXIOM lines, one with AXIOM as an operand,
  one without AXIOM, and the empty one, which have answers of their own.
- `session`, the part of `main`: two entries give both orders of the directory
  iterator, a source before and after the one that ends the batch, and a directory
  or a short name beside a source; two runs are what a stale result needs. The
  five texts hold characters that no pattern matches, a token no rule uses, none
  at all, and a pattern with a longer match. `SizeT` is 2^16 for 2^64: any number
  above the lengths of paths gives the same comparisons.
- `lr`: three closures on the worklist at once are the least in which taking the wrong
  one off matters; the small grammars reach them in every way that two names,
  a token, recursion and `''` allow. The chosen ones add reductions by two rules
  with the same operands, a rule and a token of one name, and tokens that are
  defined three times, as merged grammar files have them.
- `seq_parser`: every branch of `check_right_side` meets every other, before, after
  and across a bar, and at the end of the file.
- `loader`: three files are enough for a file that is imported twice, by itself, in
  a circle, and through a circle that does not contain the first file. Names have
  at most as many segments as the folders are deep; `loader_upward` is the case in
  which they grow.

`CHECK_DEADLOCK FALSE` stands in the configurations whose programs return, where
the last state has no successor (`two_nf`, `cyk_table`, `cyk`, `seq_parser`,
`loader`). A session can always be called again, and `main` rests only where it
has ended or aborted (`Terminated`): deadlock is checked there, and in `lr`,
whose endings are one step (`Ended`).

`TypeOK` of CYK is a part of the session's (and proved alone,
`MembershipTypes`), that of the sequential parser a part of the loader's.

## Fairness

The program has one thread, and none of its loops waits for anything. So the
specifications of the components have `WF_vars(Next)` and no more: a loop that
can take a step takes one. `Termination`, the loader's `Returns` and
`TidyFilesEnd` need no more than that. That the counted loops of `membership`
end needs no property of its own: the fairness of the chart in `FillsTheChart`
says that every task is done. `ParseSession` and `Driver` have no fairness,
since nobody must call a session or start `main`, and no liveness property: that
each component returns is checked where it is alone, and that `main` never rests
in the middle by the check for deadlock. `LRZero` has none either. Its
construction counts `j` upwards in every round, and TLC explores all of it: that
there are finitely many states without a deadlock shows that it ends.
`membership` need not end.

## What is proved

The proofs hold for every value of the constants: every grammar, word, file and
project, of any size, and every order that the model leaves open.

| Module | Properties of the runs that are theorems |
|---|---|
| `TwoNFProofs` | all safety properties of `two_nf` |
| `CYKTableProofs` | all properties of `cyk_table`, and that a tree is in one cell only |
| `CYKProofs` | `NoTreeTwice`, `TreesCoverTheirSpan`, `BrokenIsLastLongest`, `KnownTokensAnswered`, and the steps of `FillsTheChart` |
| `SequentialParserProofs` | all safety properties of `seq_parser`, and its `TypeOK` |
| `GrammarLoaderProofs` | all safety properties of `loader`; two of them under hypotheses that the runs marked "no" show to be needed |
| `LRZeroProofs` | all properties of `lr` |
| `SessionProofs` | all properties of `session`: those of a session, for its own calls and for those of `main`; and the two of the files that `main` leaves |
| `SequenceFacts` | no property: lemmas about sequences that the others share |

They assume `NamesAssumption` (names of rules, of token rules and the empty
operand are different), `SourceAssumption` and `GrammarsAssumption` (what the loader
gives is a finite map of rules over source operands, for LRZero with the first
rule of AXIOM as described above), `InputsAssumption` and `SentencesAssumption` (a word
is a sequence of token types, and the end token is none), `CallsAssumption` and
`KeyOrderAssumption` (what get2nf hands over, and an order on its keys),
`FilesAssumption` (a file is a sequence of tokens of the lexer's types) and
`ProjectsAssumption` (a disk of such files, and names that are not empty). For a
session they are `SourcesAssumption` (source grammars with finitely many names,
whose AXIOM is one name, as `CheckAxiom` of the grammar parser leaves it),
`NamesInOrder` (the order of `std::map` on the names of these grammars and on those
that BIN can make, `MadeNames`) and, again, `CallsAssumption` (sources are of
tokens, an index is unsigned), and `NotesAssumption` (a label is in the keeper of its
rule, and the set of all has every kept name: `LabelsAreFound` proves it of whatever
the loader returns). The assumptions of the parts are not assumed of a
session: they are proved from these. For `main` there are the four listed with
`Driver`. TLC evaluates all of them in the runs.

**Recursion.** The model computes with recursive functions and folds over
sequences. The library's induction theorems take an operator as a parameter and
cannot be used here, so `SequenceFacts` has them for sets: `AllNat` is induction
over the naturals for a set in place of a predicate, from the least element that
`WellFoundedInduction` gives, `SeqInduction` the same for `Append`, and
`RankInduction` that over any set whose members have a rank. A
recursive function is first shown to exist (`JoinedExists` and `JoinedUnique` for
`FlattenSeq`, `LeavesExist` and `ExpandIs` in their modules); where its
definition looks at members of lower rank only (`LooksBelow`), `RecursionExists` does
it once and for all, and the five functions of `TreeConversion`, `Tokenize` and
`PathLength` are instances. Then
what it computes is proved by such an induction. `SelectSeq` and the operators
declared RECURSIVE stay out of reach, so the modules with proofs use `Pick` and functions.

**TwoNF.** `ExpansionSound` alone is not inductive. A pass reads one map
and writes another, so an alternative may be in the old map, in `pending`, in the
new map or cut in two between them. The invariant `NormalInv` has six parts.

- `ExpansionInv` says where every rule is: everything in either map expands to
  what the author wrote under its name, or under the made name what that name spells
  (`ExpandsToSource`); what was brought over from the old map is in the new one;
  what was not is still waiting; and a made name that a rule mentions is covered
  by a rule in one of the maps. The lemma `PushRuleAdds` and its kin reduce each
  step to the set of rules it adds, and one step lemma per action does the rest.
- `NullablesInv` relates the worklist to the rules: a key in `nullables` that is
  not in `todo` has had its occurrences seen, apart from those in `occ`, and
  the set is within every closed set.
- `DoublesInv` says that the map being written has no doubles and that what is
  pending differs from it.
- `NamesInv` says that the keys are the author's names, the tokens' names and the
  tails of rules the author wrote (`MadeNames`), which are finitely many.
- `UnitSound` says that the unit relation, once computed, relates only symbols of
  which one derives the other; see the session.
- `LinksInv` says how rules and the unit relation hang together: the name of a token
  has that token's rule and no other (`TokensAlone`); once nullable keys are looked
  at, every rule of one name is in the relation (`UnitsKept`); and what is in
  it comes from a rule of the name, that one operand or a pair (`UnitsOfRules`).
  No property follows from it here; the completeness of a session needs it, and
  so does `TokensHaveRules`: a token that a rule as written uses is the one operand
  of a rule in the end. By `ExpansionComplete` some rule stands for the author's;
  the name in it that spells the token has a rule (`NoDanglingName`), which spells
  no more than it, and so on down to the token's own name.

`NormalFormInvariant` is the theorem that NormalInv is inductive; the nine
theorems after it each draw one property from it. `CutRulesAreSimple` is the one
among them that no run checks: a rule BIN has still to cut has operands of one
atom only, apart from the made name at its end.

**CYKTable.** `ChartInv` joins the properties with what makes them inductive:
the cells that a finished task read are finished (`SourcesFinished`), so nothing
can be added behind its back, a token that was not read has left nothing in
its cell (`UnreadEmpty`), and one that was has left its nodes and their unit nodes
(`Shifted`). The proof has one lemma per action, each following the
new nodes through the cell they go to, and shows that no other cell changes.
Finality follows: a finished cell is written by no task. `ChartTreesApart` adds
that the same tree cannot be in two cells.

**CYK.** `CYKInv` is `ChartInv`, read through the refinement mapping, with
`LoopInv`: where the three counters can be, what they have left behind them,
and that cells not yet written are empty frames. `MembershipFillsTheChart` is the
refinement without its fairness: the initial state is the chart's, and each step is a
step of the chart or changes nothing of it. All that is proved of `CYKTable` so
holds of the loops. On top of it:

- `TreesAreOverTheirTokens`: the leaves of a tree in cell (l, i) are the tokens i to
  i + l, by induction on the length through the recursive function `Leaves`.
- `BrokenAnswerIsLongest`: what a failed parse returns starts with a tree of the
  longest span, and of those the last.
- `FinishedChart`: when a call has ended, the nodes of the chart are closed under
  the rules and, above those that are no unit nodes, under one step of the unit
  relation (`FilledByRules`).
- `FirstIsSymbol`: a unit node stands behind the node it is over in every frame
  (`FramesOrdered`, of `AnswerInv`), so the first node of the axiom in the answer
  is of the axiom's symbol.
- `AnswerGiven`: a call throws only at a token that no rule is, and is undefined only
  without a token or an axiom (two conjuncts of `FrameOK`).
- `KnownTokensGetAnswers`: a known token has left a node in its cell, so the look at the
  cell before the last parsed one cannot throw, and what is handed out is not empty.
- `MembershipTypes`: the types, also when a call starts from what another left.
- `TreesAreBuiltOnce`: no frame holds a tree twice. This needs that no key has an
  alternative twice (`Unrepeated`), since the code pushes a node for each.
  `NothingReadTwice` in `TwoNFProofs` shows that what `get2nf` returns satisfies it.

**SequentialParser.** `ParserInv` is built in layers, each resting on the one
before it: `InPlace` (both cursors are at the start of a match), `PartsTyped`,
`BegunInv` (the current rule has an alternative once its operands are read, on which
`back()` relies), `MarksInv` (what the keeper has is what the marks so far say) and
`WrittenInv` (rules, axiom and tokens are what was read of the file so far). The
last two speak of a prefix of the file; that a match extends the prefix by
what the file says at that place is one lemma per kind of token. At the end of the file
the prefix is the file, which is `KeepsWhatIsMarked` and `GrammarAsWritten`.

**GrammarLoader.** The loader's invariant `LoaderInv` uses the parser's, file by
file: `MergedInv` says that the merged grammar is that of the files read so far,
in their order. `NamesOnce`, that no name is processed twice, gives
`NoFileMergedTwice` only if different names open different files. That is so
where names go down (`Downward`); `loader_upward` is a project where they do
not. `EveryImportMerged` needs `Forward`: the first name has a directory and
every name ends with that of a file. `loader_inside` is a project without the
first half. `RulesOfAllFiles` and `KeptByAllFiles` hold for all projects. Where
names lead down, the bound is known before loading: different names open
different files, so on a finite disk finitely many names open one, and each of
these imports finitely many; `KnownNames` is the first name and these imports,
and every name met is in it. `NestedImportsAreBounded` counts the names read
against it, and by `TurnsGoForward` a turn that reads no new name shortens the
queue's set of names.

**LRZero.** That the graph is complete is surprising, since the worklist is
wrong, and so is the invariant that proves it. The first closure holds every right
side that can ever be reached: AXIOM's rule is one name, and `make_closure` goes
through all names that the right sides mention (`FirstClosure`, `RuleClosed`).
`ExpandEnds` shows that it comes to an end, by a double induction on the rules that
are not processed and the length of `q`, within every set that its rounds do
not leave. So the walk of the first closure puts all items of all rules in the
graph. `Progress` follows it: not begun, walked up to `current`, or all is found;
when a closure is dropped, nothing in it is new. `GoodItems` says of every state that
one of its items is done or can be moved, unless the operand behind another is
empty, and gives `RefusesOnlyInnerEmpty`. For membership, `Sound` relates the
two stacks and the tokens that were read, in the middle of a reduction too. The
lemma `NoGoto` is the reason that no label is pushed after a reduction: the
keys of cells have one part, those of `flat_prod` two.

**Session.** `SessionInv` puts the invariants of the two parts side by side:
`NormalFormOK` is TwoNF's `NormalInv`, `ParserOK` is CYK's `CYKInv` with
`FrameOK` (every node of the returned frame is in a cell of the chart, in the
last one if the word was parsed) and `AnswerInv` (what the last cell holds of
the axiom is returned). Each is kept by the steps of its part and started anew
by a step of the session: `LoadGrammar` puts get2nf in its initial state for the
new grammar and the parser in a fresh one (`Fresh`), `ProcessSource` calls the
parser with what get2nf left (`CallIsOK`, the assumption of `CYK` proved here).
`InTurn` says whose turn it is, and `ResultOK` where the chosen tree comes from.
`SessionTypes` is drawn from it.

`TreesArePhrases`, that `TreeIsAPhrase` holds, is soundness from the source grammar
to the tree. It compares a fixed point computed from the author's rules with a
chart filled by other rules, and goes by the sets that are closed under the
author's rules (`Closed` in `TwoNFProofs`):

1. `DerivationsClosed`: what `Language` computes is such a set. By induction on
   the number of facts that are still missing, of finitely many.
2. Within every such set, whatever a made name spells is spanned (`Spans`, for names
   of authors, of tokens and of tails), so a rule of the normal form leads from
   facts of its operands to one of its name (`TokenMeans`, `PairMeans`): this
   is `ExpansionSound`, read as a statement about spans.
3. A nullable key spans nothing (`NullablesSound`), so an operand beside one spans
   what the rule does: `UnitSound`.
4. `ChartWithin`: a set that is closed under the rules and the unit edges
   (`KeptByRules`) has every node of the chart, by induction on the cells, from
   `Grounded`. With 2 and 3 this is `NodesMean`: every node spans what its name does.
5. `AxiomSymbolIsNamed`: the symbol that a tree is reported under is an author's name
   and the only operand of an alternative of AXIOM.

`ProperGrammarsParsed`, that `ProperGrammarsAreParsed` holds, is completeness, the
way back, for grammars that are `Proper`. The hypothesis is needed: the code follows
unit rules for one step only, and a run marked "no" shows what is lost without it.

1. `WordIsFilled`, from `FinishedChart`: the names of all nodes at their
   places (`NodeFacts`), and of those that are no unit nodes (`BaseFacts`), are
   closed under the rules of the normal form and one unit step (`Fills`).
2. `DerivedIsFound`: what such a set finds for the author's names is closed under
   the author's rules, and `Language` computes the least set that is (the second half
   of `DerivationsClosed`). It goes rule by rule (`RuleFound`): `ExpansionComplete`
   gives the rule that stands for the author's; a rule that was cut is climbed
   from its right end, one made name after the other; `TokensAlone` and `UnitsKept`
   say what an operand can be. That no second unit step is needed is `Proper`.
3. `OneAxiomSymbol`: AXIOM of a proper grammar has one alternative, hence the
   parser's symbol, and by `UnitsOfRules` a unit edge to that symbol only.
4. `FirstIsSymbol` then says that the first tree is under this symbol.

**What the caller gets.** `NodesAreTrees` collects what the chart's nodes are: parts
rank lower than their node, and the tokens of a node are those of its parts in
order, no token twice. All that follows is by `RankInduction`.

- `SavedAtMostOnceHolds`. The nodes of a branch are next to each other and stand over
  different tokens (`Covers`): that is kept by `merge` (`CoversConcat`), and by
  `unfold` when it leaves a level out (`BelowCovers`). `strUnfold` gives the
  tokens of its node, each once (`TextIsTokens`). A property tree is
  `Tidy` over a set of tokens if its texts have tokens of this set and no two
  the same; a label and a place before each path keep it so (`InsideTidy`), and
  as parts at different places are over different tokens, their union is tidy
  (`ParsePartsTidy`). Nothing is asked of the grammar or of its notes: not even
  that labels are different.
- `MarkedIsSavedHolds`. The children of a node as the author wrote them are in its
  branch, whatever names BIN put between (`ChildrenAreThere`), or have the name
  of the node itself, and then their branch is in there. A marked child passes
  the three look-ups (`MarkedIsStored`): this is where `NotesAssumption` is needed.
  Without AXIOM as an operand no part pushes out the others (`BelowNotAxiom`), which goes
  back to get2nf: no rule it makes has AXIOM as an operand either.

**The driver.** `MainInv` is `SessionInv` with what `main` adds: every entry of the disk
is a source, a directory, or a result under a name that ends as `main`'s names do
(`DiskOK`); sources are listed once, and none has such a name (`FilesOK`); and
where `main` is, with the word that its session was given (`PhaseOK`). `TokenizeType`
shows that what the lexer makes of any text is a word of the grammar's tokens, so
every step of `main` is one of a session, and what is proved of a session holds in
`main`: the five theorems after `MainInvariant`.

- `MainResultsAreOfThisRun`. `ResultsOK` says at every moment what the property says at
  the end, of the sources that are done. A step keeps it because of the names:
  writing the result of one source, and the log, must leave the text and the
  result of every other alone. `NamesOfFiles` and
  `OutputsApart` are that argument. That the new result belongs to its source
  (`ResultArrives`) rests on `TreesArePhrases`, on `ProperGrammarsParsed` and on
  what is saved (`OutputFits`).
- `MainStopsOnlyAtUnusableSource`. Three steps abort. Before the first source a path
  was too short: the difference in `size_t` wraps round only when the path is no
  longer than the extension (`ThrowsOnShortPaths`). A directory cannot be read. Or
  the session has no answer: then `AnswerGiven` names a token that no rule of the
  normal form is, and by `TokensHaveRules` no rule as written uses it; or there is no word,
  or no symbol for the axiom, and then the author gave none (`AxiomRuleKept`).

## What is only model-checked

- Liveness: `Termination`, `Returns` of the loader, `TidyFilesEnd`, and the fairness
  in `FillsTheChart`. The prover has no rule for ENABLED. Of the
  loader's `Returns` the safety half is proved: `NestedImportsAreBounded`, `TurnsGoForward`.
- That nothing deadlocks: of `session` and `lr`. Whether a step is possible is
  ENABLED again.

Every invariant of the passing runs is a theorem.

## What the code does that one would not expect

The runs marked "no" above are disagreements with a document or a comment; they
are listed in `PROJECT.json` under "findings".

- `parsers/cyk.cpp:106`: a chain of unit rules is followed one step only, so words of
  the language are rejected. `''` inside a longer rule never matches.
- `parsesession.cpp:174`: a failed parse is told from a successful one by the
  name of a node, so a partial tree can be handed out as the result.
- `utils/preprocessor.hpp:51`: imports that go up and come back never end.
- `utils/preprocessor.hpp:84`: imports of a grammar named without a directory
  are looked for in the root directory.
- `parsers/lr_zero.cpp:214`: after a reduction the goto table is asked for the key of
  the flat map, `A:0`, and never has it; no goto is ever taken.

Three more disagree with what the code says of itself, and no run shows them.

- `parsers/cyk.cpp:116`: for an empty source the matrix has no rows and is read
  all the same, so that "checks if word is part of the language" (line 73) has no
  answer for it. The models end such a call as "undefined".
- `operations/normop.cpp:159`: nullability does not pass through a rule of one
  operand, so the list of "all nullable rules" (line 142) is not all.
  `NullablesSaturated` therefore speaks of rules of two operands.
- `parsesession.cpp:220`: over a directory the result of `p.src` goes to
  `p.src.json.json` (`OutputName`), and `main` says `p.src.json`.

Others contradict no promise and are only recorded here.

- `datastructure/parsetree.cpp:220`: a marked operand of the rule's own name
  has no level of its own in the result, unless the rule has three operands
  or more; its parts are merged with those around it.
- A second AXIOM line in a file is read by no check: `SequentialParser::parse`
  runs for ever. `Tidy` excludes it from the properties.
- A token of a type that no pattern of the second lexer fits moves one cursor and not
  the other; all that follows is read one place off. `InStep` speaks of the
  tokens before it.
- A name written twice in one file continues its last alternative, while in two
  files its alternatives are appended.
- Two labels for one operand in a rule: the later holds for both places. A label
  on `s:` before a token is filed under the name with its dot and never found.
- An index of 1 or more may select the unit node of AXIOM, and the answer is then
  the error branch although the word was parsed.
- Over a directory, a source that throws ends the run, and so does a directory
  whose name ends like a source, or any entry whose path is no longer than the
  extension. A run without a result writes an empty one, over what was there.
- Files with an AXIOM line each, once merged, give AXIOM several alternatives. Only
  the symbol of the first counts, so a word that another one derives gets the error
  branch; and AXIOM as an operand is one more unit step on the way to its symbol.
  `Proper` leaves both out.
- An argument with two equal signs is ignored without a message.
- Characters that no pattern matches are skipped without a message.
- `parsers/lr_zero.cpp:199`: as no goto is taken, a state is only reached by shifts,
  and label 1, which follows the axiom's name, never. So no word is accepted, and
  at the end of the word no state has a cell: `membership` repeats its loop
  for ever, unless it throws, or a token type that is defined twice shifts the
  end token as well and lets it return the stack. The comment at line 18 calls
  the table buggy.
- `parsers/lr_zero.cpp:263`: `reduce_fn` compares the operands from the first one
  with the top of the stack and passes over what differs, so a rule `a. b.` pops
  `b` only and a rule `a. a.` turns its two tokens round. `StacksInStep` therefore
  speaks of which tokens are on the stack, not of their order.
- A grammar without an AXIOM line reads outside a vector.

## What is not modelled

- The regular expressions: Boost's work. `Lexer` takes the texts that each pattern
  matches; `SequentialParser` starts from the types of a grammar file's tokens.
- A disk that cannot be written, a directory that changes while it is read, and
  `--dir` of another directory than the one that is modelled.
- In the C interface: several sessions, and the static string of `get_json`, which
  the next call overwrites. Calls of the model return values.
- Logging, the graph that `LR_zero` exports, the layout of JSON, the binary
  `write_to` and `read_from` that nothing calls, `KNode::unfold`, which nothing
  calls either.
- The tests: one, which runs the LR(0) parser on a fixed path and compares 0 with 0.
- Memory: shared pointers, copies of frames. A node is a value; the one place
  where identity matters, `Frame::append`, is covered by `NoTreeTwice`.

## Plan

Done, in this order: TwoNF, CYKTable and CYK, Language and ParseSession,
SequentialParser, GrammarLoader, TreeConversion, Lexer and Driver, LRZero; the
proofs of TwoNF, CYKTable, CYK, SequentialParser, GrammarLoader and LRZero; the
session's types, soundness and completeness, its results, and the files of `main`.
