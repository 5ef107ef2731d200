---------------------------- MODULE GrammarLoader ----------------------------
(***************************************************************************)
(* GenericGrammarParser::parse (parsers/grammarparser.cpp) with the one    *)
(* pass preprocessor (utils/preprocessor.hpp) and Grammar::merge: a queue  *)
(* of file names, each file parsed by SequentialParser and merged in the   *)
(* grammar that is returned.                                               *)
(*                                                                         *)
(* A file's name is the text that the code handles, as the sequence of the *)
(* segments between its slashes.  The preprocessor compares these texts;   *)
(* which file a name opens is up to the file system (Resolve).             *)
(***************************************************************************)
EXTENDS Grammar, SubSequences

\* Projects are what is on disk and what is asked for: records with the fields
\*   disk   the token list of every file, by its path from the root; a token of
\*          type IMPORT has the segments between the quotes as its value
\*   cwd    the working directory, as a path from the root
\*   start  the name given to parse
CONSTANTS
  Projects,
  Segment   \* the texts between the slashes of a name

VARIABLES
  project,
  queue,        \* the names of the files to read
  processed,    \* the names of the files that were read
  pwd,          \* the directory of the file read last
  out_grammar,  \* the grammar that is returned
  mode,         \* what parse does
  \* of the sequential parser
  parsedtokens, grammar, op_count, tok_count, axiomflag, current_rule,
  production_rules, labels, keeper, strnodes, tokens, at

ngpVars == <<parsedtokens, grammar, op_count, tok_count, axiomflag, current_rule,
             production_rules, labels, keeper, strnodes, tokens, at>>

vars == <<project, queue, processed, pwd, out_grammar, mode, ngpVars>>

\* The parser, with what is proved about it.
Ngp == INSTANCE SequentialParserProofs WITH Files <- {}

-----------------------------------------------------------------------------
(* The file system.                                                         *)

\* The text before a leading slash, and between two slashes.
NoSegment == ""

FileName == Seq(Segment) \ {<<>>}

IsDiskFile(list) ==
  /\ list \in Seq(Range(list))
  /\ \A token \in Range(list) :
       IF token.type = "IMPORT" THEN token.value \in FileName ELSE Ngp!IsToken(token)

ASSUME ProjectsAssumption ==
  /\ NoSegment \in Segment
  /\ \A x \in Projects : /\ x.start \in FileName /\ x.cwd \in Seq(Segment)
                         /\ \A path \in DOMAIN x.disk : IsDiskFile(x.disk[path])

Step(path, segment) ==
  CASE segment \in {NoSegment, "."} -> path
    [] segment = ".."        -> IF path = <<>> THEN path ELSE Front(path)
    [] OTHER                 -> Append(path, segment)

\* Where the segments lead from a path.
Walk(path, segments) ==
  LET to[n \in 0..Len(segments)] ==
        IF n = 0 THEN path ELSE Step(to[n - 1], segments[n])
  IN  to[Len(segments)]

\* The file that a name opens.
Resolve(name) == Walk(IF name[1] = NoSegment THEN <<>> ELSE project.cwd, name)

\* get_text_file_content and the lexer; a missing file reads as an empty one.
Content(name) ==
  IF Resolve(name) \in DOMAIN project.disk THEN project.disk[Resolve(name)] ELSE <<>>

ImportPlaces(list) == {p \in Nat : p \in DOMAIN list /\ list[p].type = "IMPORT"}

ImportsIn(list) == Pick(list, ImportPlaces(list))

WithoutImports(list) == Pick(list, Nat \ ImportPlaces(list))

-----------------------------------------------------------------------------
(* Grammar::merge.                                                          *)

EmptyGrammar ==
  [rules |-> NoRules, labels |-> NoRules, keeper |-> NoRules, strnodes |-> NoRules,
   tokens |-> <<>>]

\* A fault: the rules of a name known already are replaced.
MergeRulesOver(g, h) ==
  [name \in DOMAIN g \cup DOMAIN h |-> IF name \in DOMAIN h THEN h[name] ELSE g[name]]

MergeRules(g, h) ==
  [name \in DOMAIN g \cup DOMAIN h |-> RulesAt(g, name) \o RulesAt(h, name)]

MergeSets(g, h) ==
  [name \in DOMAIN g \cup DOMAIN h |-> Ngp!SetAt(g, name) \cup Ngp!SetAt(h, name)]

\* Where both have a label for an operand of a rule, the later file's is taken.
MergeLabels(g, h) ==
  [name \in DOMAIN g \cup DOMAIN h |->
     IF name \notin DOMAIN g THEN h[name]
     ELSE IF name \notin DOMAIN h THEN g[name]
     ELSE [o \in DOMAIN g[name] \cup DOMAIN h[name] |->
             IF o \in DOMAIN h[name] THEN h[name][o] ELSE g[name][o]]]

\* A fault: a name that nothing was kept for yet is not added.
MergeKeeperKnown(g, h) ==
  Ngp!AddTo([name \in DOMAIN g |-> g[name] \cup Ngp!SetAt(h, name)],
            All, UNION {h[name] : name \in DOMAIN h})

\* A fault: the entry "all" is merged like any other.
MergeKeeperPlain(g, h) == MergeSets(g, h)

\* What a name keeps is kept under "all" as well.
MergeKeeper(g, h) ==
  Ngp!AddTo(MergeSets(g, h), All, UNION {h[name] : name \in DOMAIN h})

Merge(g) ==
  [rules    |-> MergeRules(g.rules, production_rules),
   labels   |-> MergeLabels(g.labels, labels),
   keeper   |-> MergeKeeper(g.keeper, keeper),
   strnodes |-> MergeSets(g.strnodes, strnodes),
   tokens   |-> g.tokens \o tokens]

-----------------------------------------------------------------------------

Init ==
  /\ project \in Projects
  /\ queue = <<project.start>>
  /\ processed = <<>>
  /\ pwd = <<>>
  /\ out_grammar = EmptyGrammar
  /\ mode = "next file"
  /\ parsedtokens = <<>> /\ grammar = <<>>
  /\ op_count = 0 /\ tok_count = 0 /\ axiomflag = TRUE /\ current_rule = <<>>
  /\ production_rules = NoRules /\ labels = NoRules
  /\ keeper = NoRules /\ strnodes = NoRules /\ tokens = <<>>
  /\ at = "done"

\* A fault: imports are resolved in the directory of the file read before.
ImportNamesBefore(name, list) ==
  LET imports == ImportsIn(list)
      dir     == IF pwd = <<>> THEN Front(name) ELSE pwd
  IN  [n \in DOMAIN imports |-> (IF dir = <<>> THEN <<NoSegment>> ELSE dir) \o imports[n].value]

\* The names that processimports adds: pwd + "/" + path.
ImportNames(name, list) ==
  LET imports == ImportsIn(list)
      dir     == Front(name)
  IN  [n \in DOMAIN imports |-> (IF dir = <<>> THEN <<NoSegment>> ELSE dir) \o imports[n].value]

\* removeFromQueue: every occurrence.
Without(names, name) == Pick(names, {n \in DOMAIN names : names[n] # name})

\* A fault: the list of processed files is not consulted.
ReadFileAgain ==
  /\ mode = "next file"
  /\ queue # <<>>
  /\ LET name == queue[1]
     IN  /\ queue' = Without(queue, name) \o ImportNames(name, Content(name))
         /\ pwd' = Front(name)
         /\ processed' = Append(processed, name)
         /\ \E file \in {WithoutImports(Content(name))} : Ngp!Start(file)
  /\ mode' = "parsing"
  /\ UNCHANGED <<project, out_grammar>>

\* preprocess, for a name that was not processed yet, and the parser of the
\* tokens that are left.
ReadFile ==
  /\ mode = "next file"
  /\ queue # <<>>
  /\ queue[1] \notin Range(processed)
  /\ LET name == queue[1]
     IN  /\ queue' = Without(queue, name) \o ImportNames(name, Content(name))
         /\ pwd' = Front(name)
         /\ processed' = Append(processed, name)
         /\ \E file \in {WithoutImports(Content(name))} : Ngp!Start(file)
  /\ mode' = "parsing"
  /\ UNCHANGED <<project, out_grammar>>

\* A fault: the name stays in the queue.
SkipFileKept ==
  /\ mode = "next file"
  /\ queue # <<>>
  /\ queue[1] \in Range(processed)
  /\ Ngp!Start(<<>>)
  /\ mode' = "parsing"
  /\ UNCHANGED <<project, queue, processed, pwd, out_grammar>>

\* preprocess, for a name that was processed: no token is left, and the grammar
\* of no tokens is merged.
SkipFile ==
  /\ mode = "next file"
  /\ queue # <<>>
  /\ queue[1] \in Range(processed)
  /\ queue' = Without(queue, queue[1])
  /\ Ngp!Start(<<>>)
  /\ mode' = "parsing"
  /\ UNCHANGED <<project, processed, pwd, out_grammar>>

MakeGrammar ==
  /\ mode = "parsing"
  /\ Ngp!Next
  /\ UNCHANGED <<project, queue, processed, pwd, out_grammar, mode>>

MergeFile ==
  /\ mode = "parsing"
  /\ at = "done"
  /\ out_grammar' = Merge(out_grammar)
  /\ mode' = "next file"
  /\ UNCHANGED <<project, queue, processed, pwd, ngpVars>>

\* The parser of a file threw, or read what C++ leaves undefined.
Fail ==
  /\ mode = "parsing"
  /\ at \in {"throws", "undefined"}
  /\ mode' = "failed"
  /\ UNCHANGED <<project, queue, processed, pwd, out_grammar, ngpVars>>

Return ==
  /\ mode = "next file"
  /\ queue = <<>>
  /\ mode' = "returned"
  /\ UNCHANGED <<project, queue, processed, pwd, out_grammar, ngpVars>>

Next ==
  \/ ReadFile
  \/ SkipFile
  \/ MakeGrammar
  \/ MergeFile
  \/ Fail
  \/ Return

\* One thread; reading a file does not block.
Spec == Init /\ [][Next]_vars /\ WF_vars(Next)

-----------------------------------------------------------------------------
(* Properties.                                                              *)

TypeOK ==
  /\ Ngp!TypeOK
  /\ \A n \in DOMAIN queue : queue[n] # <<>>
  /\ mode \in {"next file", "parsing", "returned", "failed"}
  /\ DOMAIN out_grammar.strnodes \subseteq DOMAIN out_grammar.keeper
  /\ NotesFit(out_grammar)

\* "The preprocessor is protected against nested imports": files that import
\* each other, themselves, or a third file are merged once.
NoFileMergedTwice ==
  \A m, n \in DOMAIN processed : Resolve(processed[m]) = Resolve(processed[n]) => m = n

\* The file that an import means: the path, from the directory of the file that
\* has the import.
Meant(path, import) == Walk(Front(path), import.value)

\* "It is possible to break a grammar in submodules": when parse returns, every
\* file on disk that a merged file imports has been merged.
EveryImportMerged ==
  mode = "returned" =>
    LET merged == {Resolve(processed[n]) : n \in DOMAIN processed} \cap DOMAIN project.disk
    IN  \A path \in merged :
          LET imports == ImportsIn(project.disk[path])
          IN  \A n \in DOMAIN imports :
                Meant(path, imports[n]) \in DOMAIN project.disk
                  => Meant(path, imports[n]) \in merged

\* The files that were merged, in their order.
MergedFiles == [n \in DOMAIN processed |-> WithoutImports(Content(processed[n]))]

\* The alternatives of a name in a file, by the file's own words.
WrittenFor(file, name) ==
  LET sides == {q \in Ngp!LeftSides(file) : file[q].value = name}
  IN  IF sides = {} THEN <<>>
      ELSE Ngp!WithoutDoubles(Ngp!WrittenRules(file, CHOOSE q \in sides : TRUE))

\* What the files mark in the rules of a name.
MarkedFor(name) ==
  UNION {UNION {Ngp!Marked(MergedFiles[n], q) :
                  q \in {r \in Ngp!LeftSides(MergedFiles[n]) : MergedFiles[n][r].value = name}} :
           n \in DOMAIN MergedFiles}

AllPlain == \A n \in DOMAIN MergedFiles : Ngp!Plain(MergedFiles[n])

\* The rules of a name are those of all files, in the order in which the files
\* were read: none is lost to a later file, and none comes in from a file that
\* was met a second time.
RulesOfAllFiles ==
  (mode = "returned" /\ AllPlain) =>
    \A name \in {<<A>> : A \in NonTerminal \ {Axiom}} :
      RulesAt(out_grammar.rules, name) =
        FlattenSeq([n \in DOMAIN MergedFiles |-> WrittenFor(MergedFiles[n], name)])

\* A name keeps what any file marks in its rules, and "all" is the union: the
\* session looks a node up there to decide whether it is stored at all.
KeptByAllFiles ==
  (mode = "returned" /\ AllPlain) =>
    /\ \A name \in {<<A>> : A \in NonTerminal} \ {All} :
         Ngp!SetAt(out_grammar.keeper, name) = MarkedFor(name)
    /\ out_grammar.keeper[All] = UNION {MarkedFor(<<A>>) : A \in NonTerminal}

\* parse comes to an end although files import each other.
Returns == <>(mode \in {"returned", "failed"})

=============================================================================
