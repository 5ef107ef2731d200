------------------------------- MODULE Driver -------------------------------
(***************************************************************************)
(* The programs around a session: main.cpp, which loads a grammar and      *)
(* parses one source or all the sources of a directory, and programs that  *)
(* link the library (pyparselib.cpp) and call a session as they like.      *)
(*                                                                         *)
(* main can run again and again over the same directory, each time as a    *)
(* new process: only the disk outlives it.  It handles no exception, so    *)
(* one that any call throws ends the process.                              *)
(*                                                                         *)
(* A path is the sequence of the parts between its dots; argument values   *)
(* are paths too.                                                          *)
(***************************************************************************)
EXTENDS TreeConversion, Lexer, Integers, TLC

CONSTANTS
  GrammarFiles,  \* GrammarFiles[path]: the rules and the notes of a grammar file
  Patterns,      \* the tokens of every grammar file: their types and their texts
  Chars,         \* Chars[part]: the number of characters of a part of a path
  Disks,         \* what the directory may hold before the first run of main
  Commands,      \* the argument lists main is started with
  MaxRuns        \* bound: how many times main is started

VARIABLES
  phase,  \* where main is; "library" in a program that links the library
  args,   \* parsedargv
  disk,   \* the files and directories below the directory, by path
  files,  \* the sources that main processes
  at,     \* how many of them are done
  runs    \* how many times main was started

sessionVars == vars

mainVars == <<phase, args, disk, files, at, runs>>

allVars == <<sessionVars, mainVars>>

-----------------------------------------------------------------------------
(* What can be on disk.                                                     *)

Source(text) == [kind |-> "source", text |-> text]

Directory == [kind |-> "directory"]

Json(data) == [kind |-> "json", data |-> data]

Log(node) == [kind |-> "log", node |-> node]

\* get_text_file_content: a file that cannot be opened reads as empty text.
TextOf(path) == IF path \in DOMAIN disk THEN disk[path].text ELSE <<>>

WordOf(path) == Tokenize(Patterns, TextOf(path))

\* Opening a directory succeeds and reading it throws.
CannotRead(path) == path \in DOMAIN disk /\ disk[path].kind = "directory"

-----------------------------------------------------------------------------
(* The command line.  An argument is the list of its parts between equal    *)
(* signs; one of three parts or more is ignored.                            *)

ParseArguments(argv) ==
  FoldLeft(LAMBDA parsed, arg :
             CASE Len(arg) = 1 -> (arg[1] :> <<"True">>) @@ parsed
               [] Len(arg) = 2 -> (arg[1] :> arg[2]) @@ parsed
               [] OTHER -> parsed,
           [option \in {} |-> <<>>], argv)

Get(parsed, option) == IF option \in DOMAIN parsed THEN parsed[option] ELSE <<"False">>

Given(parsed, option) == Get(parsed, option) # <<"False">>

-----------------------------------------------------------------------------
(* FileGlober.  Stands for 2^64, any number above the lengths of paths.     *)

SizeT == 65536

PathLength(path) ==
  LET upTo[n \in 0..Len(path)] ==
        IF n = 0 THEN -1 ELSE upTo[n - 1] + 1 + Chars[path[n]]
  IN  upTo[Len(path)]

\* startindex - 1, computed in size_t
SuffixIndex(path, ext) == (PathLength(path) - Chars[ext] - 1) % SizeT

\* substr throws out_of_range
SubstrThrows(path, ext) == SuffixIndex(path, ext) > PathLength(path)

HasExtension(path, ext) == Len(path) > 1 /\ Last(path) = ext

-----------------------------------------------------------------------------

Batch == ~ Given(args, "--src")

\* What main hands to write_json: process_and_store_json appends .json to the
\* name it is given, and main has already done so.
OutputName(path) == path \o (IF Batch THEN <<"json", "json">> ELSE <<"json">>)

LogName(path) == path \o <<"log">>

-----------------------------------------------------------------------------
(* What the constants stand for.                                            *)

\* A file that is empty or is not there is a grammar without rules.
ASSUME FilesAssumption ==
  /\ NoRules \in SourceGrammars
  /\ \A path \in DOMAIN GrammarFiles :
       GrammarFiles[path].rules \in SourceGrammars /\ NotesFit(GrammarFiles[path].notes)

\* The lexer's patterns are those of the grammar's tokens.
ASSUME PatternsAssumption ==
  /\ Patterns \in Seq(Range(Patterns))
  /\ \A n \in DOMAIN Patterns : Patterns[n].type \in Terminal

IsPath(path) == path \in Seq(DOMAIN Chars) /\ path # <<>>

\* The extensions of the files that main writes.
Written == {"json", "log"}

\* The directory has sources, and directories that main does not try to write over.
ASSUME DisksAssumption ==
  /\ Chars \in [DOMAIN Chars -> Nat] /\ Written \subseteq DOMAIN Chars
  /\ \A before \in Disks :
       /\ IsFiniteSet(DOMAIN before)
       /\ \A path \in DOMAIN before :
            /\ IsPath(path)
            /\ \/ before[path] = Directory /\ Last(path) \notin Written
               \/ /\ before[path] = Source(before[path].text)
                  /\ before[path].text \in Seq(Range(before[path].text))

\* Nobody has main parse its own results: they would be overwritten as it goes.
ASSUME CommandsAssumption ==
  \A argv \in Commands :
    LET parsed == ParseArguments(argv)
    IN  /\ Given(parsed, "--src") =>
             IsPath(Get(parsed, "--src")) /\ Last(Get(parsed, "--src")) \notin Written
        /\ Given(parsed, "--ext") =>
             Get(parsed, "--ext")[1] \in DOMAIN Chars \ Written

DriverInit ==
  /\ Init
  /\ args = [option \in {} |-> <<>>]
  /\ files = <<>> /\ at = 0 /\ runs = 0
  /\ \/ phase = "library" /\ disk = [path \in {} |-> Directory]
     \/ phase = "off" /\ disk \in Disks

\* A program that links the library, in C++ or through the functions for Python.
CallLibrary ==
  /\ phase = "library"
  /\ Next
  /\ UNCHANGED mainVars

\* A new process has a new session; every part of it is set by load_grammar.  A
\* grammar file that cannot be read is an empty grammar.
StartMain(argv) ==
  /\ phase \in {"off", "ended", "aborted"}
  /\ runs < MaxRuns
  /\ runs' = runs + 1
  /\ args' = ParseArguments(argv)
  /\ files' = <<>> /\ at' = 0
  /\ UNCHANGED disk
  /\ LET file == Get(args', "--gsrc")
     IN  \/ /\ ~ Given(args', "--gsrc")     \* showhelp
            /\ phase' = "ended"
            /\ UNCHANGED sessionVars
         \/ /\ Given(args', "--gsrc")
            /\ phase' = "loading"
            /\ IF file \in DOMAIN GrammarFiles
               THEN LoadGrammar(GrammarFiles[file].rules, GrammarFiles[file].notes)
               ELSE LoadGrammar(NoRules, NoNotes)

LoadInMain ==
  /\ phase = "loading"
  /\ Normalise \/ BuildParser
  /\ phase' = (IF mode' = "idle" THEN "choosing" ELSE "loading")
  /\ UNCHANGED <<args, disk, files, at, runs>>

ChooseOneSource ==
  /\ phase = "choosing"
  /\ Given(args, "--src")
  /\ files' = <<Get(args, "--src")>>
  /\ phase' = "processing"
  /\ UNCHANGED <<sessionVars, args, disk, at, runs>>

\* glob, in whatever order the directory iterator visits the entries.
GlobSources ==
  /\ phase = "choosing"
  /\ Batch /\ Given(args, "--ext") /\ Given(args, "--dir")
  /\ LET ext == Get(args, "--ext")[1]
     IN  IF \E path \in DOMAIN disk : SubstrThrows(path, ext)
         THEN phase' = "aborted" /\ UNCHANGED files
         ELSE /\ phase' = "processing"
              /\ files' \in SetToSeqs({path \in DOMAIN disk : HasExtension(path, ext)})
  /\ UNCHANGED <<sessionVars, args, disk, at, runs>>

ChooseNothing ==
  /\ phase = "choosing"
  /\ Batch
  /\ ~ Given(args, "--ext") \/ ~ Given(args, "--dir")
  /\ phase' = "ended"
  /\ UNCHANGED <<sessionVars, args, disk, files, at, runs>>

ProcessFile ==
  /\ phase = "processing"
  /\ mode = "idle"
  /\ at < Len(files)
  /\ IF CannotRead(files[at + 1])
     THEN phase' = "aborted" /\ UNCHANGED sessionVars
     ELSE ProcessSource(IF raw = NoRules THEN <<>> ELSE WordOf(files[at + 1]))
          /\ UNCHANGED phase
  /\ UNCHANGED <<args, disk, files, at, runs>>

ParseInMain ==
  /\ phase = "processing"
  /\ Parse
  /\ UNCHANGED mainVars

\* Writing a file: what it held before is lost.
Put(held, path, entry) ==
  [p \in DOMAIN held \cup {path} |-> IF p = path THEN entry ELSE held[p]]

\* A fault: nothing is written for a source without a result.
StoreIfParsed ==
  /\ phase = "processing"
  /\ TakeResult(0)
  /\ LET path == files[at + 1]
     IN  IF answer' \in {"exception", "undefined"}
         THEN phase' = "aborted" /\ UNCHANGED <<disk, at>>
         ELSE /\ disk' = (IF answer' = "tree" THEN Put(disk, OutputName(path), Json(Output'))
                          ELSE disk)
              /\ at' = at + 1
              /\ UNCHANGED phase
  /\ UNCHANGED <<args, files, runs>>

\* The result, empty or not, is written, behind a log in the error branch.
StoreResult ==
  /\ phase = "processing"
  /\ TakeResult(0)
  /\ LET path == files[at + 1]
     IN  IF answer' \in {"exception", "undefined"}
         THEN phase' = "aborted" /\ UNCHANGED <<disk, at>>
         ELSE /\ disk' = Put(IF answer' = "error log"
                           THEN Put(disk, LogName(path), Log(Selected(0)))
                           ELSE disk,
                           OutputName(path), Json(Output'))
              /\ at' = at + 1
              /\ UNCHANGED phase
  /\ UNCHANGED <<args, files, runs>>

EndMain ==
  /\ phase = "processing"
  /\ mode = "idle"
  /\ at = Len(files)
  /\ phase' = "ended"
  /\ UNCHANGED <<sessionVars, args, disk, files, at, runs>>

Main ==
  \/ LoadInMain
  \/ ChooseOneSource
  \/ GlobSources
  \/ ChooseNothing
  \/ ProcessFile
  \/ ParseInMain
  \/ StoreResult
  \/ EndMain

\* Nobody must start main again.  While it runs it is never stuck: the run checks
\* deadlock.
Terminated ==
  /\ phase \in {"off", "ended", "aborted"}
  /\ UNCHANGED allVars

DriverNext ==
  \/ CallLibrary
  \/ \E argv \in Commands : StartMain(argv)
  \/ Main
  \/ Terminated

DriverSpec == DriverInit /\ [][DriverNext]_allVars

-----------------------------------------------------------------------------
(* Properties.                                                              *)

Used(type) ==
  \E name \in DOMAIN raw : \E rule \in Alternatives(raw, name) :
    TerminalOperand(type) \in Range(rule)

HasAxiomRule ==
  <<Axiom>> \in DOMAIN raw /\ raw[<<Axiom>>] # <<>> /\ raw[<<Axiom>>][1] # <<>>

\* A run over many sources stops early only where it must: at a source that is a
\* directory, that has no token, or that has a token which no rule of the grammar
\* as written uses, or when the grammar has no axiom; or before the first one, when
\* a path of the directory is no longer than the extension.  All sources before
\* have their result.
StopsOnlyAtUnusableSource ==
  phase = "aborted" =>
    \/ /\ files = <<>>
       /\ \E path \in DOMAIN disk : PathLength(path) <= Chars[Get(args, "--ext")[1]]
    \/ /\ at < Len(files)
       /\ \A n \in 1..at : OutputName(files[n]) \in DOMAIN disk
       /\ \/ CannotRead(files[at + 1])
          \/ WordOf(files[at + 1]) = <<>>
          \/ \E type \in Range(WordOf(files[at + 1])) : ~ Used(type)
          \/ ~ HasAxiomRule

ResultBelongs(path) ==
  /\ OutputName(path) \in DOMAIN disk
  /\ LET data == disk[OutputName(path)].data
         w    == WordOf(path)
     IN  /\ data # Text(<<>>) =>
              \E fact \in Derivations(raw, w) :
                fact[1] = <<Axiom>> /\ Values(data) \subseteq fact[2]..(fact[3] - 1)
         /\ (Proper(raw) /\ InLanguage(raw, w) /\ InKeeperKeys(Parser!AxiomSymbol))
              => data # Text(<<>>)

\* After a run that came to its end every source has a result on disk that belongs
\* to this run's grammar and to this source, whatever earlier runs left there: what
\* it holds is from a phrase of the grammar in this source, and it holds something
\* if the source is a word of a grammar that CYK is complete for and the author
\* marked anything in the rules of the axiom's symbol or the symbol itself.
ResultsAreOfThisRun ==
  phase = "ended" => \A n \in DOMAIN files : ResultBelongs(files[n])

=============================================================================
