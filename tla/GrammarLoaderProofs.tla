------------------------ MODULE GrammarLoaderProofs ------------------------
(* Theorems about GrammarLoader and their proofs: the loader's types, that   *)
(* no file is merged twice and that every import is merged (each for the     *)
(* projects whose names make it so), and that the grammar returned has the   *)
(* rules and the kept operands of all files that were read, which rests on   *)
(* what SequentialParserProofs proves of the parser of one file; and that,   *)
(* where names lead down, the names that can be read are bounded beforehand. *)
EXTENDS GrammarLoader, SequenceFacts, FiniteSetTheorems

-----------------------------------------------------------------------------
(* Paths.                                                                   *)

\* The names of a path are followed one by one: to[n] is where the first n of
\* them lead.
Walks(to, path, segments) ==
  \A n \in 0..Len(segments) : to[n] = IF n = 0 THEN path ELSE Step(to[n - 1], segments[n])

\* The loop that follows a path's names is a recursive function; it has a value
\* after every name.
LEMMA WalkExists ==
  ASSUME NEW path, NEW segments \in Seq(Segment)
  PROVE  \E to : Walks(to, path, segments) /\ Walk(path, segments) = to[Len(segments)]
<1> DEFINE k == Len(segments)
           Upto(n, f) == \A m \in 0..n : m <= k =>
                           f[m] = IF m = 0 THEN path ELSE Step(f[m - 1], segments[m])
           S == {n \in Nat : \E f : Upto(n, f)}
<1>1. 0 \in S
  <2>1. Upto(0, [m \in {0} |-> path])
    OBVIOUS
  <2> QED BY <2>1
<1>2. ASSUME NEW n \in Nat, n \in S
      PROVE  n + 1 \in S
  <2>1. PICK f : Upto(n, f)
    BY <1>2
  <2> DEFINE g == [m \in 0..(n + 1) |-> IF m <= n THEN f[m] ELSE Step(f[n], segments[n + 1])]
  <2>2. ASSUME NEW m \in 0..(n + 1), m <= k
        PROVE  g[m] = IF m = 0 THEN path ELSE Step(g[m - 1], segments[m])
    <3>1. CASE m <= n
      <4>1. m \in 0..n
        BY <3>1
      <4>2. f[m] = IF m = 0 THEN path ELSE Step(f[m - 1], segments[m])
        BY <2>1, <2>2, <4>1
      <4>3. g[m] = f[m] /\ (m # 0 => g[m - 1] = f[m - 1])
        BY <3>1
      <4> HIDE DEF g
      <4> QED BY <4>2, <4>3
    <3>2. CASE ~ (m <= n)
      <4>1. m = n + 1 /\ m # 0 /\ m - 1 = n
        BY <3>2
      <4>2. g[m] = Step(f[n], segments[n + 1]) /\ g[n] = f[n]
        BY <4>1
      <4> HIDE DEF g
      <4> QED BY <4>1, <4>2
    <3> QED BY <3>1, <3>2
  <2> HIDE DEF g
  <2>3. Upto(n + 1, g)
    BY <2>2
  <2> QED BY <2>3
<1>3. k \in Nat
  OBVIOUS
<1> HIDE DEF S
<1>4. k \in S
  BY <1>1, <1>2, <1>3, AllNat
<1>5. PICK f : Upto(k, f)
  BY <1>4 DEF S
<1> DEFINE F(to) == [n \in 0..k |-> IF n = 0 THEN path ELSE Step(to[n - 1], segments[n])]
           h == [n \in 0..k |-> f[n]]
<1>6. h = F(h)
  <2>1. ASSUME NEW n \in 0..k
        PROVE  h[n] = IF n = 0 THEN path ELSE Step(h[n - 1], segments[n])
    <3>1. f[n] = IF n = 0 THEN path ELSE Step(f[n - 1], segments[n])
      BY <1>3, <1>5
    <3>2. h[n] = f[n] /\ (n # 0 => h[n - 1] = f[n - 1])
      BY <1>3
    <3> HIDE DEF h
    <3> QED BY <3>1, <3>2
  <2> QED BY <2>1
<1> DEFINE to == CHOOSE t : t = F(t)
<1> HIDE DEF h
<1>7. to = F(to)
  <2> HIDE DEF F
  <2>1. \E t : t = F(t)
    BY <1>6
  <2> QED BY <2>1
<1>8. Walk(path, segments) = to[k]
  BY DEF Walk
<1> HIDE DEF to
<1>9. Walks(to, path, segments)
  <2>1. ASSUME NEW n \in 0..k
        PROVE  to[n] = IF n = 0 THEN path ELSE Step(to[n - 1], segments[n])
    <3>1. F(to)[n] = IF n = 0 THEN path ELSE Step(to[n - 1], segments[n])
      OBVIOUS
    <3> HIDE DEF F
    <3> QED BY <1>7, <3>1
  <2> QED BY <2>1 DEF Walks
<1> QED
  BY <1>8, <1>9

\* Two paths that begin with the same names lead to the same place, as far as
\* they agree.
LEMMA WalkUnique ==
  ASSUME NEW path, NEW s \in Seq(Segment), NEW t \in Seq(Segment), NEW f, NEW g,
         Walks(f, path, s), Walks(g, path, t), NEW k \in Nat, k <= Len(s), k <= Len(t),
         \A n \in 1..k : s[n] = t[n]
  PROVE  f[k] = g[k]
<1> DEFINE S == {n \in Nat : n <= k => f[n] = g[n]}
<1>1. 0 \in S
  <2>1. 0 \in 0..Len(s) /\ 0 \in 0..Len(t)
    OBVIOUS
  <2> QED BY <2>1 DEF Walks
<1>2. ASSUME NEW n \in Nat, n \in S
      PROVE  n + 1 \in S
  <2> SUFFICES ASSUME n + 1 <= k PROVE f[n + 1] = g[n + 1]
    OBVIOUS
  <2>1. n + 1 \in 0..Len(s) /\ n + 1 \in 0..Len(t) /\ n + 1 # 0 /\ n + 1 \in 1..k
        /\ (n + 1) - 1 = n /\ n <= k
    OBVIOUS
  <2> DEFINE m == n + 1
  <2> HIDE DEF m
  <2>2. f[m] = Step(f[m - 1], s[m]) /\ g[m] = Step(g[m - 1], t[m]) /\ s[m] = t[m]
    BY <2>1 DEF Walks, m
  <2>3. f[n] = g[n]
    BY <1>2, <2>1
  <2> QED BY <2>1, <2>2, <2>3 DEF m
<1> HIDE DEF S
<1>3. k \in S
  BY <1>1, <1>2, AllNat
<1> QED
  BY <1>3 DEF S

\* No names lead nowhere.
LEMMA WalkEmpty ==
  ASSUME NEW path
  PROVE  Walk(path, <<>>) = path
<1>1. <<>> \in Seq(Segment) /\ Len(<<>>) = 0
  OBVIOUS
<1>2. PICK to : Walks(to, path, <<>>) /\ Walk(path, <<>>) = to[Len(<<>>)]
  BY <1>1, WalkExists
<1> QED
  BY <1>1, <1>2 DEF Walks

\* The last name of a path is one step from where the others lead.
LEMMA WalkAppend ==
  ASSUME NEW path, NEW s \in Seq(Segment), NEW x \in Segment
  PROVE  Walk(path, Append(s, x)) = Step(Walk(path, s), x)
<1> DEFINE t == Append(s, x)
           k == Len(s)
<1>1. /\ t \in Seq(Segment) /\ Len(t) = k + 1 /\ t[k + 1] = x /\ k \in Nat
      /\ \A n \in 1..k : s[n] = t[n]
      /\ k <= Len(s) /\ k <= Len(t)
  OBVIOUS
<1> HIDE DEF t
<1>2. PICK f : Walks(f, path, s) /\ Walk(path, s) = f[k]
  BY WalkExists
<1>3. PICK g : Walks(g, path, t) /\ Walk(path, t) = g[Len(t)]
  BY <1>1, WalkExists
<1> HIDE DEF k
<1>4. f[k] = g[k]
  BY <1>1, <1>2, <1>3, WalkUnique
<1>5. g[k + 1] = Step(g[k], t[k + 1])
  <2>1. k + 1 \in 0..Len(t) /\ k + 1 # 0 /\ (k + 1) - 1 = k
    BY <1>1
  <2> QED BY <1>3, <2>1 DEF Walks
<1> QED
  BY <1>1, <1>2, <1>3, <1>4, <1>5 DEF t, k

\* A path can be walked in two parts.
LEMMA WalkConcat ==
  ASSUME NEW path, NEW a \in Seq(Segment), NEW b \in Seq(Segment)
  PROVE  Walk(path, a \o b) = Walk(Walk(path, a), b)
<1> DEFINE S == {s \in Seq(Segment) : Walk(path, a \o s) = Walk(Walk(path, a), s)}
<1>1. <<>> \in S
  <2>1. a \o <<>> = a /\ <<>> \in Seq(Segment)
    OBVIOUS
  <2> QED BY <2>1, WalkEmpty
<1>2. ASSUME NEW s \in Seq(Segment), NEW x \in Segment, s \in S
      PROVE  Append(s, x) \in S
  <2>1. /\ a \o Append(s, x) = Append(a \o s, x) /\ a \o s \in Seq(Segment)
        /\ Append(s, x) \in Seq(Segment)
    OBVIOUS
  <2>2. Walk(path, Append(a \o s, x)) = Step(Walk(path, a \o s), x)
    BY <2>1, WalkAppend
  <2>3. Walk(Walk(path, a), Append(s, x)) = Step(Walk(Walk(path, a), s), x)
    BY WalkAppend
  <2> QED BY <1>2, <2>1, <2>2, <2>3
<1> HIDE DEF S
<1>3. b \in S
  BY <1>1, <1>2, SeqInduction
<1> QED
  BY <1>3 DEF S

\* Names that lead down: neither the empty segment of a leading '/', nor "."
\* nor "..".
Plainly == Segment \ {NoSegment, ".", ".."}

\* A plain name is appended to the path.
LEMMA PlainStep ==
  ASSUME NEW path, NEW x \in Plainly
  PROVE  Step(path, x) = Append(path, x)
BY DEF Step, Plainly

\* Segments that are names lead down.
LEMMA WalkDown ==
  ASSUME NEW path \in Seq(Segment), NEW a \in Seq(Plainly)
  PROVE  Walk(path, a) = path \o a
<1> DEFINE S == {s \in Seq(Plainly) : Walk(path, s) = path \o s}
<1>1. <<>> \in S
  <2>1. path \o <<>> = path
    OBVIOUS
  <2> QED BY <2>1, WalkEmpty
<1>2. ASSUME NEW s \in Seq(Plainly), NEW x \in Plainly, s \in S
      PROVE  Append(s, x) \in S
  <2>1. s \in Seq(Segment) /\ x \in Segment
    BY SeqWider DEF Plainly
  <2>2. Walk(path, Append(s, x)) = Append(Walk(path, s), x)
    BY <2>1, WalkAppend, PlainStep
  <2>3. path \o Append(s, x) = Append(path \o s, x) /\ Append(s, x) \in Seq(Plainly)
    BY <2>1
  <2> QED BY <1>2, <2>2, <2>3
<1> HIDE DEF S
<1>3. a \in S
  BY <1>1, <1>2, SeqInduction
<1> QED
  BY <1>3 DEF S

\* Where a path leads is a path.
LEMMA WalkType ==
  ASSUME NEW path \in Seq(Segment), NEW a \in Seq(Segment)
  PROVE  Walk(path, a) \in Seq(Segment)
<1> DEFINE S == {s \in Seq(Segment) : Walk(path, s) \in Seq(Segment)}
<1>1. <<>> \in S
  BY WalkEmpty
<1>2. ASSUME NEW s \in Seq(Segment), NEW x \in Segment, s \in S
      PROVE  Append(s, x) \in S
  <2>1. Walk(path, Append(s, x)) = Step(Walk(path, s), x)
    BY WalkAppend
  <2>2. ASSUME NEW p \in Seq(Segment)
        PROVE  Step(p, x) \in Seq(Segment)
    <3>1. CASE p = <<>>
      BY <3>1 DEF Step
    <3>2. CASE p # <<>>
      <4>1. Front(p) \in Seq(Segment)
        BY <3>2 DEF Front
      <4> QED BY <4>1 DEF Step
    <3> QED BY <3>1, <3>2
  <2> QED BY <1>2, <2>1, <2>2
<1> HIDE DEF S
<1>3. a \in S
  BY <1>1, <1>2, SeqInduction
<1> QED
  BY <1>3 DEF S

-----------------------------------------------------------------------------
(* Files.                                                                   *)

\* A sequence is one over the items it has.
LEMMA SequenceOfItems ==
  ASSUME NEW T, NEW s \in Seq(T)
  PROVE  /\ s \in Seq(Range(s)) /\ Range(s) \subseteq T
         /\ \A n \in DOMAIN s : s[n] \in Range(s)
<1>1. DOMAIN s = 1..Len(s) /\ (\A n \in 1..Len(s) : s[n] \in Range(s) /\ s[n] \in T)
  BY DEF Range
<1>2. Range(s) \subseteq T
  BY <1>1 DEF Range
<1>3. s = [n \in 1..Len(s) |-> s[n]] /\ Len(s) \in Nat
  OBVIOUS
<1>4. s \in Seq(Range(s))
  BY <1>1, <1>3
<1>5. \A n \in DOMAIN s : s[n] \in Range(s)
  BY <1>1
<1> QED BY <1>2, <1>4, <1>5

\* What loadGrammar keeps of a file's %import matches: some of the matches,
\* each with the text of a file's name.
LEMMA ImportsAre ==
  ASSUME NEW list, IsDiskFile(list)
  PROVE  /\ ImportsIn(list) \in Seq(Range(list))
         /\ \A n \in DOMAIN ImportsIn(list) : ImportsIn(list)[n].value \in FileName
<1>1. list \in Seq(Range(list))
  BY DEF IsDiskFile
<1>2. ImportsIn(list) \in Seq(Range(list))
  BY <1>1, PickType DEF ImportsIn
<1>3. ASSUME NEW n \in DOMAIN ImportsIn(list)
      PROVE  ImportsIn(list)[n].value \in FileName
  <2>1. ImportsIn(list)[n] \in Range(Pick(list, ImportPlaces(list)))
    BY DEF Range, ImportsIn
  <2>2. PICK p \in DOMAIN list : p \in ImportPlaces(list) /\ ImportsIn(list)[n] = list[p]
    BY <1>1, <2>1, PickRange
  <2>3. list[p].type = "IMPORT" /\ list[p] \in Range(list)
    BY <2>2 DEF ImportPlaces, Range
  <2> QED BY <2>2, <2>3 DEF IsDiskFile
<1> QED
  BY <1>2, <1>3

\* What is left for the parser of a file, the matches that are not imports, is
\* a file as the parser takes one.
LEMMA FileIs ==
  ASSUME NEW list, IsDiskFile(list)
  PROVE  Ngp!IsFile(WithoutImports(list))
<1> DEFINE file == WithoutImports(list)
<1>1. list \in Seq(Range(list))
  BY DEF IsDiskFile
<1>2. file \in Seq(Range(list))
  BY <1>1, PickType DEF WithoutImports
<1>3. ASSUME NEW token \in Range(file)
      PROVE  Ngp!IsToken(token)
  <2>1. PICK p \in DOMAIN list : p \in Nat \ ImportPlaces(list) /\ token = list[p]
    BY <1>1, <1>3, PickRange DEF WithoutImports
  <2>2. token.type # "IMPORT" /\ token \in Range(list)
    BY <2>1 DEF ImportPlaces, Range
  <2> QED BY <2>2 DEF IsDiskFile
<1> HIDE DEF file
<1>4. file \in Seq(Range(file))
  BY <1>2, SequenceOfItems
<1> QED
  BY <1>3, <1>4, Zenon DEF Ngp!IsFile, Ngp!Range, Range, file

\* An empty list of matches is such a file: what a file that cannot be opened
\* is read as.
LEMMA NothingIsFile == Ngp!IsFile(<<>>)
<1>1. DOMAIN <<>> = {}
  OBVIOUS
<1>2. Ngp!Range(<<>>) = {}
  BY <1>1 DEF Ngp!Range
<1> QED
  BY <1>2 DEF Ngp!IsFile

\* The same, of the lexer's matches before the imports are taken out.
LEMMA EmptyIsDiskFile == IsDiskFile(<<>>)
BY DEF IsDiskFile, Range

\* The directory that a file's imports are relative to.
Directory(name) == IF Front(name) = <<>> THEN <<NoSegment>> ELSE Front(name)

\* A file's name splits into its directory's names and its own.
LEMMA FrontOfName ==
  ASSUME NEW name \in FileName
  PROVE  /\ Front(name) \in Seq(Segment) /\ Len(Front(name)) = Len(name) - 1
         /\ Last(name) \in Segment /\ name = Append(Front(name), Last(name))
         /\ Len(name) \in Nat \ {0}
<1>1. name \in Seq(Segment) /\ Len(name) \in Nat \ {0}
  BY DEF FileName
<1>2. /\ Front(name) \in Seq(Segment) /\ Len(Front(name)) = Len(name) - 1
      /\ \A n \in 1..(Len(name) - 1) : Front(name)[n] = name[n]
      /\ Last(name) = name[Len(name)]
  <2>1. Front(name) = SubSeq(name, 1, Len(name) - 1) /\ Last(name) = name[Len(name)]
    BY DEF Front, Last
  <2> DEFINE k == Len(name) - 1
  <2>2. k \in Nat /\ k <= Len(name)
    BY <1>1
  <2>3. /\ SubSeq(name, 1, k) \in Seq(Segment) /\ Len(SubSeq(name, 1, k)) = k
        /\ \A n \in 1..k : SubSeq(name, 1, k)[n] = name[n]
    <3> HIDE DEF k
    <3> QED BY <1>1, <2>2
  <2> QED BY <2>1, <2>3
<1>3. Last(name) \in Segment
  BY <1>1, <1>2
<1> DEFINE t == Append(Front(name), Last(name))
<1>4. t \in Seq(Segment) /\ Len(t) = Len(name) /\ \A n \in 1..Len(name) : name[n] = t[n]
  BY <1>1, <1>2, <1>3
<1> HIDE DEF t
<1>5. name = t
  BY <1>1, <1>4, SeqEqual
<1> QED
  BY <1>1, <1>2, <1>3, <1>5 DEF t

\* The directory of a file, as getPath writes it, is again a name.
LEMMA DirectoryIs ==
  ASSUME NEW name \in FileName
  PROVE  Directory(name) \in FileName
<1>1. NoSegment \in Segment
  BY ProjectsAssumption
<1>2. <<NoSegment>> \in FileName
  BY <1>1 DEF FileName
<1>3. Front(name) \in Seq(Segment)
  BY FrontOfName
<1> QED
  BY <1>2, <1>3 DEF Directory, FileName

\* The names that are queued for a file: one for every import, the file's
\* directory before the import's text.
LEMMA ImportNamesAre ==
  ASSUME NEW name \in FileName, NEW list, IsDiskFile(list)
  PROVE  /\ ImportNames(name, list) \in Seq(FileName)
         /\ DOMAIN ImportNames(name, list) = DOMAIN ImportsIn(list)
         /\ \A n \in DOMAIN ImportsIn(list) :
              ImportNames(name, list)[n] = Directory(name) \o ImportsIn(list)[n].value
<1> DEFINE imports == ImportsIn(list)
           dir == Directory(name)
           names == ImportNames(name, list)
<1>1. names = [n \in DOMAIN imports |-> dir \o imports[n].value]
  BY Zenon DEF ImportNames, Directory
<1>2. dir \in FileName /\ imports \in Seq(Range(list))
      /\ \A n \in DOMAIN imports : imports[n].value \in FileName
  BY ImportsAre, DirectoryIs
<1> HIDE DEF names, imports, dir
<1>3. ASSUME NEW n \in DOMAIN imports
      PROVE  dir \o imports[n].value \in FileName
  <2> DEFINE v == imports[n].value
  <2>1. v \in FileName
    BY <1>2
  <2> HIDE DEF v
  <2>2. dir \in Seq(Segment) /\ v \in Seq(Segment) /\ Len(dir) # 0 /\ dir # <<>> /\ v # <<>>
    BY <1>2, <2>1 DEF FileName
  <2>3. dir \o v \in Seq(Segment) /\ Len(dir \o v) # 0
    BY <2>2
  <2>4. dir \o v # <<>>
    BY <2>3
  <2> QED BY <2>3, <2>4 DEF FileName, v
<1>4. DOMAIN imports = 1..Len(imports) /\ Len(imports) \in Nat
  BY <1>2
<1>5. names \in Seq(FileName)
  BY <1>1, <1>3, <1>4
<1> QED
  BY <1>1, <1>5 DEF names, imports, dir

\* What is read under a name is a file of the disk, or nothing.
LEMMA ContentIs ==
  ASSUME project \in Projects, NEW name
  PROVE  IsDiskFile(Content(name))
BY ProjectsAssumption, EmptyIsDiskFile DEF Content

-----------------------------------------------------------------------------
(* Types.                                                                   *)

\* Types that the steps preserve; the parser of the file at hand keeps its own
\* invariant.
LoaderTyped ==
  /\ project \in Projects
  /\ queue \in Seq(FileName)
  /\ processed \in Seq(FileName)
  /\ mode \in {"next file", "parsing", "returned", "failed"}
  /\ DOMAIN out_grammar.strnodes \subseteq DOMAIN out_grammar.keeper
  /\ Ngp!ParserInv

\* A parser that is made for a file.
LEMMA MadeParser ==
  ASSUME NEW file, Ngp!IsFile(file), Ngp!Start(file)
  PROVE  Ngp!ParserInv' /\ parsedtokens' = file
<1>1. \A f \in {} : Ngp!IsFile(f)
  OBVIOUS
<1>2. \A name : Ngp!SetAt(keeper', name) = {}
  BY DEF Ngp!SetAt, Ngp!Start
<1>3. Ngp!ParserBegins'
  BY <1>2 DEF Ngp!ParserBegins, Ngp!Start
<1> QED
  BY <1>1, <1>3, NamesAssumption, Ngp!ParserRestarts DEF Ngp!Start

\* Removing a name from the queue leaves names.
LEMMA WithoutIs ==
  ASSUME NEW names \in Seq(FileName), NEW name
  PROVE  Without(names, name) \in Seq(FileName)
BY PickType DEF Without

\* Every step of the loader, and of the parser it runs, preserves the types.
LEMMA LoaderTypedStep ==
  ASSUME LoaderTyped, Next
  PROVE  LoaderTyped'
<1> DEFINE Modes == {"next file", "parsing", "returned", "failed"}
<1>7. /\ project \in Projects /\ queue \in Seq(FileName) /\ processed \in Seq(FileName)
      /\ Ngp!ParserInv
      /\ DOMAIN out_grammar.strnodes \subseteq DOMAIN out_grammar.keeper
  BY DEF LoaderTyped
<1>8. SUFFICES /\ project' \in Projects /\ queue' \in Seq(FileName)
               /\ processed' \in Seq(FileName) /\ mode' \in Modes /\ Ngp!ParserInv'
               /\ DOMAIN out_grammar'.strnodes \subseteq DOMAIN out_grammar'.keeper
  BY DEF LoaderTyped
<1>0. \A f \in {} : Ngp!IsFile(f)
  OBVIOUS
<1>1. CASE ReadFile
  <2> DEFINE name == queue[1]
             list == Content(name)
  <2>1. name \in FileName
    <3>1. queue # <<>>
      BY <1>1 DEF ReadFile
    <3> QED BY <1>7, <3>1
  <2>2. IsDiskFile(list)
    BY <1>7, ContentIs
  <2>3. Ngp!ParserInv'
    BY <1>1, <2>2, FileIs, MadeParser DEF ReadFile
  <2>4. queue' = Without(queue, name) \o ImportNames(name, list)
        /\ processed' = Append(processed, name) /\ UNCHANGED <<project, out_grammar>>
        /\ mode' = "parsing"
    BY <1>1 DEF ReadFile
  <2> HIDE DEF list, name
  <2>5. Without(queue, name) \in Seq(FileName) /\ ImportNames(name, list) \in Seq(FileName)
    BY <1>7, <2>1, <2>2, WithoutIs, ImportNamesAre
  <2>6. queue' \in Seq(FileName)
    BY <2>4, <2>5
  <2>7. processed' \in Seq(FileName)
    BY <1>7, <2>1, <2>4
  <2> QED BY <1>7, <2>3, <2>4, <2>6, <2>7
<1>2. CASE SkipFile
  <2>1. Ngp!IsFile(<<>>)
    BY NothingIsFile
  <2>2. Ngp!ParserInv'
    BY <1>2, <2>1, MadeParser DEF SkipFile
  <2>3. queue' \in Seq(FileName)
    BY <1>2, <1>7, WithoutIs DEF SkipFile
  <2> QED BY <1>2, <1>7, <2>2, <2>3 DEF SkipFile
<1>3. CASE MakeGrammar
  <2>1. Ngp!ParserInv'
    BY <1>0, <1>3, <1>7, NamesAssumption, Ngp!ParserSteps DEF MakeGrammar
  <2> QED BY <1>3, <1>7, <2>1 DEF MakeGrammar
<1>4. CASE MergeFile
  <2>1. Ngp!ParserInv'
    BY <1>0, <1>4, <1>7, NamesAssumption, Ngp!ParserSteps DEF MergeFile, ngpVars, Ngp!vars
  <2>2. DOMAIN out_grammar'.strnodes \subseteq DOMAIN out_grammar'.keeper
    <3>1. DOMAIN strnodes \subseteq DOMAIN keeper
      BY <1>0, <1>7, NamesAssumption, Ngp!ParserPromises DEF Ngp!TypeOK
    <3>2. /\ out_grammar'.strnodes = MergeSets(out_grammar.strnodes, strnodes)
          /\ out_grammar'.keeper = MergeKeeper(out_grammar.keeper, keeper)
      BY <1>4 DEF MergeFile, Merge
    <3>3. DOMAIN MergeSets(out_grammar.strnodes, strnodes)
            = DOMAIN out_grammar.strnodes \cup DOMAIN strnodes
      BY DEF MergeSets
    <3>4. DOMAIN MergeKeeper(out_grammar.keeper, keeper)
            = DOMAIN out_grammar.keeper \cup DOMAIN keeper \cup {All}
      BY DEF MergeKeeper, MergeSets, Ngp!AddTo
    <3> QED BY <1>7, <3>1, <3>2, <3>3, <3>4
  <2> QED BY <1>4, <1>7, <2>1, <2>2 DEF MergeFile
<1>5. CASE Fail \/ Return
  <2>1. Ngp!ParserInv'
    BY <1>0, <1>5, <1>7, NamesAssumption, Ngp!ParserSteps DEF Fail, Return, ngpVars, Ngp!vars
  <2> QED BY <1>5, <1>7, <2>1 DEF Fail, Return
<1> QED
  BY <1>1, <1>2, <1>3, <1>4, <1>5 DEF Next

\* They are stronger than the types that the runs check.
LEMMA LoaderTypes ==
  ASSUME LoaderTyped, NotesFit(out_grammar)
  PROVE  TypeOK
<1>1. \A f \in {} : Ngp!IsFile(f)
  OBVIOUS
<1>2. Ngp!TypeOK
  BY <1>1, NamesAssumption, Ngp!ParserPromises DEF LoaderTyped
<1>3. \A n \in DOMAIN queue : queue[n] # <<>>
  <2>0. queue \in Seq(FileName)
    BY DEF LoaderTyped
  <2>1. \A n \in DOMAIN queue : queue[n] \in FileName
    BY <2>0
  <2> QED BY <2>1 DEF FileName
<1> QED
  BY <1>2, <1>3 DEF LoaderTyped, TypeOK

\* They hold at the start.
LEMMA LoaderTypedStart == Init => LoaderTyped
<1> SUFFICES ASSUME Init PROVE LoaderTyped
  OBVIOUS
<1>0. \A f \in {} : Ngp!IsFile(f)
  OBVIOUS
<1>1. Ngp!IsFile(<<>>)
  BY NothingIsFile
<1>9. parsedtokens = <<>> /\ grammar = <<>>
  BY DEF Init
<1>2. grammar = Ngp!SecondLexer(parsedtokens)
  <2>1. Ngp!SecondLexer(<<>>) = <<>>
    <3>1. [p \in DOMAIN <<>> |-> Ngp!Match(<<>>, p)] = <<>>
      OBVIOUS
    <3> QED BY <1>0, <3>1, NamesAssumption, Ngp!PickEmpty DEF Ngp!SecondLexer
  <2> QED BY <1>9, <2>1
<1>3. \A name : Ngp!SetAt(keeper, name) = {}
  BY DEF Init, Ngp!SetAt, NoRules
<1>4. Ngp!ParserBegins
  BY <1>1, <1>2, <1>3 DEF Init, Ngp!ParserBegins, NoRules, Ngp!NoRules
<1>5. Ngp!ParserInv
  BY <1>0, <1>4, NamesAssumption, Ngp!ParserStarts
<1>6. queue \in Seq(FileName)
  <2>1. project.start \in FileName /\ queue = <<project.start>>
    BY ProjectsAssumption DEF Init
  <2> HIDE DEF FileName
  <2> QED BY <2>1
<1>7. DOMAIN out_grammar.strnodes \subseteq DOMAIN out_grammar.keeper
  BY DEF Init, EmptyGrammar
<1>10. processed = <<>> /\ project \in Projects /\ mode = "next file"
  BY DEF Init
<1>8. processed \in Seq(FileName)
  <2>1. <<>> \in Seq(FileName)
    <3> HIDE DEF FileName
    <3> QED OBVIOUS
  <2> QED BY <1>10, <2>1
<1> QED
  BY <1>5, <1>6, <1>7, <1>8, <1>10 DEF LoaderTyped

-----------------------------------------------------------------------------
(* The names that were met.                                                 *)

\* Removing a name removes it and nothing else.
LEMMA WithoutRange ==
  ASSUME NEW names \in Seq(FileName), NEW name, NEW x
  PROVE  x \in Range(Without(names, name)) <=> x \in Range(names) /\ x # name
<1>1. x \in Range(Without(names, name)) <=>
        \E p \in DOMAIN names : p \in {n \in DOMAIN names : names[n] # name} /\ x = names[p]
  BY PickRange DEF Without
<1> QED
  BY <1>1 DEF Range

\* The steps of the queue: a name is read for the first time, or dropped.
LEMMA QueueStep ==
  ASSUME LoaderTyped, Next
  PROVE  \/ /\ ReadFile /\ queue[1] \in Range(queue) /\ queue[1] \in FileName
            /\ queue[1] \notin Range(processed) /\ UNCHANGED project
            /\ processed' = Append(processed, queue[1])
            /\ \A x : x \in Range(queue') <=>
                 \/ x \in Range(queue) /\ x # queue[1]
                 \/ x \in Range(ImportNames(queue[1], Content(queue[1])))
         \/ /\ SkipFile /\ queue[1] \in Range(processed) /\ UNCHANGED <<project, processed>>
            /\ \A x : x \in Range(queue') <=> x \in Range(queue) /\ x # queue[1]
         \/ /\ MakeGrammar \/ MergeFile \/ Fail \/ Return
            /\ UNCHANGED <<project, processed, queue>>
<1>0. project \in Projects /\ queue \in Seq(FileName)
  BY DEF LoaderTyped
<1> DEFINE name == queue[1]
           rest == Without(queue, name)
           imports == ImportNames(name, Content(name))
<1>1. CASE ReadFile
  <2>1. /\ queue # <<>> /\ name \notin Range(processed) /\ UNCHANGED project
        /\ processed' = Append(processed, name) /\ queue' = rest \o imports
    BY <1>1 DEF ReadFile
  <2>2. name \in Range(queue) /\ name \in FileName
    BY <1>0, <2>1 DEF Range
  <2>3. rest \in Seq(FileName) /\ imports \in Seq(FileName)
    BY <1>0, <2>2, WithoutIs, ContentIs, ImportNamesAre
  <2>4. \A x : x \in Range(rest) <=> x \in Range(queue) /\ x # name
    BY <1>0, WithoutRange
  <2> HIDE DEF name, rest, imports
  <2>5. \A x : x \in Range(rest \o imports) <=> x \in Range(rest) \/ x \in Range(imports)
    BY <2>3, RangeOfConcat
  <2>6. \A x : x \in Range(queue') <=>
                 (x \in Range(queue) /\ x # name) \/ x \in Range(imports)
    BY <2>1, <2>4, <2>5
  <2> QED BY <1>1, <2>1, <2>2, <2>6 DEF name, imports
<1>2. CASE SkipFile
  <2>1. /\ name \in Range(processed) /\ UNCHANGED <<project, processed>> /\ queue' = rest
    BY <1>2 DEF SkipFile
  <2>2. \A x : x \in Range(rest) <=> x \in Range(queue) /\ x # name
    BY <1>0, WithoutRange
  <2> HIDE DEF name, rest
  <2> QED BY <1>2, <2>1, <2>2 DEF name
<1>3. CASE MakeGrammar \/ MergeFile \/ Fail \/ Return
  BY <1>3, Zenon DEF MakeGrammar, MergeFile, Fail, Return
<1> QED
  BY <1>1, <1>2, <1>3 DEF Next

\* What holds of the name that was asked for, and of a file's imports when it
\* holds of the file, holds of every name.
NamesIn(names) == Range(queue) \subseteq names /\ Range(processed) \subseteq names

\* Appending adds one item.
LEMMA AppendedRange ==
  ASSUME NEW T, NEW s \in Seq(T), NEW x, NEW y \in T
  PROVE  x \in Range(Append(s, y)) <=> x \in Range(s) \/ x = y
<1>1. DOMAIN Append(s, y) = 1..(Len(s) + 1) /\ Len(s) \in Nat /\ DOMAIN s = 1..Len(s)
  OBVIOUS
<1>2. \A n \in 1..(Len(s) + 1) : Append(s, y)[n] = IF n = Len(s) + 1 THEN y ELSE s[n]
  OBVIOUS
<1>3. Len(s) + 1 \in 1..(Len(s) + 1) /\ \A n \in 1..Len(s) : n \in 1..(Len(s) + 1) /\ n # Len(s) + 1
  BY <1>1
<1>4. \A n \in 1..(Len(s) + 1) : n = Len(s) + 1 \/ n \in 1..Len(s)
  BY <1>1
<1> DEFINE t == Append(s, y)
           k == Len(s) + 1
<1> HIDE DEF t, k
<1>5. x \in Range(t) <=> \E n \in 1..k : x = t[n]
  BY <1>1 DEF Range, t, k
<1>6. x \in Range(s) <=> \E n \in 1..Len(s) : x = s[n]
  BY <1>1 DEF Range
<1> QED
  BY <1>2, <1>3, <1>4, <1>5, <1>6 DEF t, k

\* Names that importing does not leave are never left.
LEMMA NamesInStep ==
  ASSUME LoaderTyped, Next, NEW names, NamesIn(names),
         \A name \in names \cap FileName :
           Range(ImportNames(name, Content(name))) \subseteq names
  PROVE  NamesIn(names)'
<1>1. CASE ReadFile
  <2>1. /\ queue[1] \in Range(queue) /\ queue[1] \in FileName
        /\ processed' = Append(processed, queue[1])
        /\ \A x : x \in Range(queue') <=>
             \/ x \in Range(queue) /\ x # queue[1]
             \/ x \in Range(ImportNames(queue[1], Content(queue[1])))
    BY <1>1, QueueStep DEF SkipFile, ReadFile, MakeGrammar, MergeFile, Fail, Return
  <2>2. queue[1] \in names
    BY <2>1 DEF NamesIn
  <2>3. Range(queue') \subseteq names
    BY <2>1, <2>2 DEF NamesIn
  <2>4. processed \in Seq(FileName)
    BY DEF LoaderTyped
  <2>5. Range(processed') \subseteq names
    BY <2>1, <2>2, <2>4, AppendedRange DEF NamesIn
  <2> QED BY <2>3, <2>5 DEF NamesIn
<1>2. CASE ~ ReadFile
  BY <1>2, QueueStep DEF NamesIn
<1> QED
  BY <1>1, <1>2

-----------------------------------------------------------------------------
(* No file is merged twice.                                                 *)

\* No name is read twice: the test for processed files does its work.
NamesOnce == \A m, n \in DOMAIN processed : processed[m] = processed[n] => m = n

\* A name is read only when it was not read before, so the names stay apart.
LEMMA NamesOnceStep ==
  ASSUME LoaderTyped, NamesOnce, Next
  PROVE  NamesOnce'
<1>1. CASE processed' = Append(processed, queue[1]) /\ queue[1] \notin Range(processed)
           /\ queue[1] \in FileName
  <2> DEFINE name == queue[1]
             k == Len(processed)
  <2>1. processed \in Seq(FileName) /\ name \in FileName /\ processed' = Append(processed, name)
    BY <1>1 DEF LoaderTyped
  <2>2. \A n \in 1..k : processed[n] # name
    BY <1>1, <2>1 DEF Range
  <2>3. /\ DOMAIN processed' = 1..(k + 1) /\ k \in Nat /\ DOMAIN processed = 1..k
        /\ \A n \in 1..(k + 1) : processed'[n] = IF n = k + 1 THEN name ELSE processed[n]
    BY <2>1
  <2> HIDE DEF name, k
  <2>4. \A m, n \in 1..(k + 1) : processed'[m] = processed'[n] => m = n
    <3>1. \A n \in 1..(k + 1) : n = k + 1 \/ n \in 1..k
      BY <2>3
    <3> QED BY <2>2, <2>3, <3>1 DEF NamesOnce
  <2> QED BY <2>3, <2>4 DEF NamesOnce
<1>2. CASE UNCHANGED processed
  BY <1>2 DEF NamesOnce
<1> QED
  BY <1>1, <1>2, QueueStep

\* The name that parse is given has a directory, and no name leads up or has an
\* empty segment, other than before a leading slash.
Downward(x) ==
  /\ Len(x.start) > 1 /\ x.start[1] \in Plainly \cup {NoSegment}
  /\ \A n \in 2..Len(x.start) : x.start[n] \in Plainly
  /\ \A path \in DOMAIN x.disk : \A p \in ImportPlaces(x.disk[path]) :
       x.disk[path][p].value \in Seq(Plainly)

\* The names that can be met in such a project.
DownNames(x) ==
  {name \in FileName : /\ Len(name) > 1
                       /\ name[1] = x.start[1] /\ name[1] \in Plainly \cup {NoSegment}
                       /\ \A n \in 2..Len(name) : name[n] \in Plainly}

\* An import that was read is a match of a file that is there.
LEMMA ImportOnDisk ==
  ASSUME project \in Projects, NEW name, NEW n \in DOMAIN ImportsIn(Content(name))
  PROVE  /\ Resolve(name) \in DOMAIN project.disk
         /\ Content(name) = project.disk[Resolve(name)]
         /\ \E p \in ImportPlaces(Content(name)) : ImportsIn(Content(name))[n] = Content(name)[p]
<1>1. IsDiskFile(Content(name))
  BY ContentIs
<1>2. Content(name) \in Seq(Range(Content(name)))
  BY <1>1 DEF IsDiskFile
<1>3. ImportsIn(Content(name))[n] \in Range(Pick(Content(name), ImportPlaces(Content(name))))
  BY DEF Range, ImportsIn
<1>4. PICK p \in DOMAIN Content(name) :
        p \in ImportPlaces(Content(name)) /\ ImportsIn(Content(name))[n] = Content(name)[p]
  BY <1>2, <1>3, PickRange
<1>5. Content(name) # <<>>
  BY <1>4
<1> QED
  BY <1>4, <1>5 DEF Content

\* In such a project imports give such names only.
LEMMA DownNamesImport ==
  ASSUME project \in Projects, Downward(project), NEW name \in DownNames(project)
  PROVE  Range(ImportNames(name, Content(name))) \subseteq DownNames(project)
<1> DEFINE list == Content(name)
           imports == ImportsIn(list)
           dir == Front(name)
<1>1. name \in FileName /\ IsDiskFile(list)
  BY ContentIs DEF DownNames
<1>2. /\ name \in Seq(Segment) /\ Len(name) > 1 /\ name[1] = project.start[1]
      /\ name[1] \in Plainly \cup {NoSegment}
      /\ \A n \in 2..Len(name) : name[n] \in Plainly
  BY DEF DownNames, FileName
<1>3. /\ dir \in Seq(Segment) /\ Len(dir) = Len(name) - 1 /\ name = Append(dir, Last(name))
  BY <1>1, FrontOfName
<1>4. dir[1] = name[1] /\ \A n \in 2..Len(dir) : dir[n] \in Plainly
  BY <1>2, <1>3
<1>5. Len(dir) > 0 /\ dir # <<>>
  BY <1>2, <1>3
<1>6. Directory(name) = dir
  BY <1>5 DEF Directory
<1> SUFFICES ASSUME NEW n \in DOMAIN imports PROVE dir \o imports[n].value \in DownNames(project)
  <2>1. ImportNames(name, list) \in Seq(FileName)
        /\ DOMAIN ImportNames(name, list) = DOMAIN imports
        /\ \A n \in DOMAIN imports : ImportNames(name, list)[n] = Directory(name) \o imports[n].value
    BY <1>1, ImportNamesAre
  <2> QED BY <1>6, <2>1 DEF Range
<1> DEFINE v == imports[n].value
<1>7. v \in FileName /\ v \in Seq(Plainly)
  <2>1. v \in FileName
    BY <1>1, ImportsAre
  <2>2. PICK p \in ImportPlaces(list) : imports[n] = list[p]
    BY ImportOnDisk
  <2>3. list = project.disk[Resolve(name)] /\ Resolve(name) \in DOMAIN project.disk
    BY ImportOnDisk
  <2> QED BY <2>1, <2>2, <2>3 DEF Downward
<1> HIDE DEF v, dir, imports, list
<1>8. v \in Seq(Segment) /\ v # <<>> /\ Len(v) > 0
  <2>1. v \in Seq(Segment) /\ v # <<>>
    BY <1>7 DEF FileName
  <2> QED BY <2>1
<1> DEFINE u == dir \o v
<1>9. /\ u \in Seq(Segment) /\ Len(u) = Len(dir) + Len(v)
      /\ \A m \in 1..Len(dir) : u[m] = dir[m]
      /\ \A m \in 1..Len(u) : m > Len(dir) => u[m] = v[m - Len(dir)] /\ m - Len(dir) \in 1..Len(v)
  BY <1>3, <1>8
<1> HIDE DEF u
<1>10. Len(u) > 1 /\ u # <<>>
  BY <1>3, <1>5, <1>8, <1>9
<1>11. u[1] = dir[1]
  BY <1>3, <1>5, <1>9
<1>12. ASSUME NEW m \in 2..Len(u) PROVE u[m] \in Plainly
  <2>1. CASE m > Len(dir)
    <3>1. u[m] = v[m - Len(dir)] /\ m - Len(dir) \in 1..Len(v)
      BY <1>9, <2>1
    <3> QED BY <1>7, <3>1
  <2>2. CASE ~ (m > Len(dir))
    <3>1. m \in 2..Len(dir) /\ m \in 1..Len(dir)
      BY <1>3, <1>9, <2>2
    <3> QED BY <1>4, <1>9, <3>1
  <2> QED BY <2>1, <2>2
<1>13. u \in FileName
  BY <1>9, <1>10 DEF FileName
<1>14. u \in DownNames(project)
  BY <1>2, <1>4, <1>10, <1>11, <1>12, <1>13 DEF DownNames
<1> QED
  BY <1>14 DEF u, v

\* Two of these names that open one file are the same name.
LEMMA DownNamesApart ==
  ASSUME project \in Projects, NEW a \in DownNames(project), NEW b \in DownNames(project),
         Resolve(a) = Resolve(b)
  PROVE  a = b
<1>0. project.cwd \in Seq(Segment) /\ NoSegment \in Segment
  BY ProjectsAssumption
<1>1. ASSUME NEW name \in DownNames(project)
      PROVE  /\ Tail(name) \in Seq(Plainly) /\ name = <<name[1]>> \o Tail(name)
             /\ name[1] = project.start[1] /\ name[1] \in Plainly \cup {NoSegment}
             /\ name \in Seq(Segment)
  <2>1. /\ name \in Seq(Segment) /\ Len(name) > 1
        /\ name[1] = project.start[1] /\ name[1] \in Plainly \cup {NoSegment}
        /\ \A n \in 2..Len(name) : name[n] \in Plainly
    BY <1>1 DEF DownNames, FileName
  <2>2. /\ Tail(name) \in Seq(Segment) /\ Len(Tail(name)) = Len(name) - 1
        /\ \A n \in 1..(Len(name) - 1) : Tail(name)[n] = name[n + 1]
    BY <2>1
  <2>3. \A n \in 1..(Len(name) - 1) : Tail(name)[n] \in Plainly
    <3>1. \A n \in 1..(Len(name) - 1) : n + 1 \in 2..Len(name)
      BY <2>1
    <3> QED BY <2>1, <2>2, <3>1
  <2>4. Tail(name) \in Seq(Plainly)
    <3> DEFINE t == Tail(name)
               k == Len(name) - 1
    <3>4. t \in Seq(Segment) /\ Len(t) = k /\ k \in Nat
      BY <2>1, <2>2
    <3>1. t = [n \in 1..k |-> t[n]]
      <4> HIDE DEF t, k
      <4> QED BY <3>4
    <3>2. \A n \in 1..k : t[n] \in Plainly
      BY <2>3
    <3> HIDE DEF t, k, Plainly
    <3>3. t \in Seq(Plainly)
      BY <3>1, <3>2, <3>4
    <3> QED BY <3>3 DEF t
  <2>5. name = <<name[1]>> \o Tail(name)
    BY <2>1
  <2> QED BY <2>1, <2>4, <2>5
<1>2. CASE project.start[1] = NoSegment
  <2>1. ASSUME NEW name \in DownNames(project)
        PROVE  Resolve(name) = Tail(name)
    <3>1. Resolve(name) = Walk(<<>>, name)
      BY <1>1, <1>2 DEF Resolve
    <3>9. Plainly \subseteq Segment
      BY DEF Plainly
    <3>8. Tail(name) \in Seq(Segment)
      BY <1>1, <3>9, SeqWider
    <3>2. Tail(name) \in Seq(Segment) /\ <<NoSegment>> \in Seq(Segment) /\ <<>> \in Seq(Segment)
      BY <1>0, <3>8
    <3>3. name = <<NoSegment>> \o Tail(name)
      BY <1>1, <1>2
    <3>4. Walk(<<>>, name) = Walk(Walk(<<>>, <<NoSegment>>), Tail(name))
      <4>1. Walk(<<>>, <<NoSegment>> \o Tail(name)) = Walk(Walk(<<>>, <<NoSegment>>), Tail(name))
        BY <3>2, WalkConcat
      <4> QED BY <3>3, <4>1
    <3>5. Walk(<<>>, <<NoSegment>>) = <<>>
      <4>1. <<NoSegment>> = Append(<<>>, NoSegment)
        OBVIOUS
      <4>2. Walk(<<>>, Append(<<>>, NoSegment)) = Step(Walk(<<>>, <<>>), NoSegment)
        BY <1>0, <3>2, WalkAppend
      <4>3. Step(<<>>, NoSegment) = <<>>
        BY DEF Step
      <4> QED BY <4>1, <4>2, <4>3, WalkEmpty
    <3>6. Walk(<<>>, Tail(name)) = <<>> \o Tail(name)
      BY <1>1, <3>2, WalkDown
    <3> QED BY <3>1, <3>2, <3>4, <3>5, <3>6
  <2> QED BY <1>1, <2>1
<1>3. CASE project.start[1] # NoSegment
  <2>1. ASSUME NEW name \in DownNames(project)
        PROVE  Resolve(name) = project.cwd \o name
    <3>1. Resolve(name) = Walk(project.cwd, name)
      BY <1>1, <1>3 DEF Resolve
    <3>4. name[1] \in Plainly
      BY <1>1, <1>3
    <3>5. \A x : x \in Plainly => <<x>> \in Seq(Plainly)
      <4> HIDE DEF Plainly
      <4> QED OBVIOUS
    <3>2. <<name[1]>> \in Seq(Plainly) /\ Tail(name) \in Seq(Plainly)
      BY <1>1, <3>4, <3>5
    <3>3. name \in Seq(Plainly)
      BY <1>1, <3>2
    <3> QED BY <1>0, <3>1, <3>3, WalkDown
  <2>2. a \in Seq(Segment) /\ b \in Seq(Segment) /\ project.cwd \o a = project.cwd \o b
    BY <1>1, <2>1
  <2> DEFINE c == project.cwd
  <2>3. c \in Seq(Segment) /\ c \o a = c \o b
    BY <1>0, <2>2
  <2> HIDE DEF c
  <2>4. Len(c \o a) = Len(c) + Len(a) /\ Len(c \o b) = Len(c) + Len(b)
    BY <2>2, <2>3
  <2>5. Len(a) = Len(b)
    BY <2>2, <2>3, <2>4
  <2>6. ASSUME NEW n \in 1..Len(a)
        PROVE  a[n] = b[n]
    <3>1. (c \o a)[n + Len(c)] = a[n] /\ (c \o b)[n + Len(c)] = b[n]
      BY <2>2, <2>3, <2>5, <2>6
    <3> QED BY <2>3, <3>1
  <2> QED BY <2>2, <2>5, <2>6, SeqEqual
<1> QED
  BY <1>2, <1>3

\* The first names.
LEMMA DownNamesFirst ==
  ASSUME Init, Downward(project)
  PROVE  NamesIn(DownNames(project))
<1>1. project.start \in FileName /\ queue = <<project.start>> /\ processed = <<>>
  BY ProjectsAssumption DEF Init
<1>2. project.start \in DownNames(project)
  BY <1>1 DEF DownNames, Downward
<1> QED
  BY <1>1, <1>2 DEF NamesIn, Range

-----------------------------------------------------------------------------
(* Every import is merged.                                                  *)

\* The file of a name in a project, and the names that its imports are given.
ContentIn(x, name) ==
  LET path == Walk(IF name[1] = NoSegment THEN <<>> ELSE x.cwd, name)
  IN  IF path \in DOMAIN x.disk THEN x.disk[path] ELSE <<>>

\* The names that a file's imports give, whether or not they were queued.
Imported(x, name) == Range(ImportNames(name, ContentIn(x, name)))

\* The file that a name opens, in the state and in its project.
LEMMA ContentOf ==
  ASSUME NEW name
  PROVE  Content(name) = ContentIn(project, name)
BY Zenon DEF Content, ContentIn, Resolve

\* What a file that was read imports is known.
ImportsKnown ==
  \A n \in DOMAIN processed :
    Imported(project, processed[n]) \subseteq Range(processed) \cup Range(queue)

\* Reading a file queues its imports, and a name leaves the queue only when it
\* was read.
LEMMA ImportsKnownStep ==
  ASSUME LoaderTyped, ImportsKnown, Next
  PROVE  ImportsKnown'
<1>0. \A name : Imported(project, name) = Range(ImportNames(name, Content(name)))
  BY ContentOf DEF Imported
<1>1. processed \in Seq(FileName) /\ project' = project
  BY QueueStep DEF LoaderTyped
<1>2. \A n \in DOMAIN processed :
        Imported(project, processed[n]) \subseteq Range(processed) \cup Range(queue)
  BY DEF ImportsKnown
<1>3. CASE ReadFile
  <2> DEFINE name == queue[1]
  <2>1. /\ name \in FileName /\ processed' = Append(processed, name)
        /\ \A x : x \in Range(queue') <=>
             \/ x \in Range(queue) /\ x # name
             \/ x \in Imported(project, name)
    BY <1>0, <1>3, QueueStep DEF SkipFile, ReadFile, MakeGrammar, MergeFile, Fail, Return
  <2> HIDE DEF name
  <2>2. \A x : x \in Range(processed') <=> x \in Range(processed) \/ x = name
    BY <1>1, <2>1, AppendedRange
  <2>3. /\ DOMAIN processed' = (DOMAIN processed) \cup {Len(processed) + 1}
        /\ \A n \in DOMAIN processed : processed'[n] = processed[n]
        /\ processed'[Len(processed) + 1] = name
    BY <1>1, <2>1
  <2>4. ASSUME NEW n \in DOMAIN processed'
        PROVE  Imported(project, processed'[n]) \subseteq Range(processed') \cup Range(queue')
    <3>1. CASE n \in DOMAIN processed
      <4>1. Imported(project, processed'[n]) \subseteq Range(processed) \cup Range(queue)
        BY <1>2, <2>3, <3>1
      <4> QED BY <2>1, <2>2, <4>1
    <3>2. CASE n = Len(processed) + 1
      BY <2>1, <2>3, <3>2
    <3> QED BY <2>3, <3>1, <3>2
  <2> QED BY <1>1, <2>4 DEF ImportsKnown
<1>4. CASE SkipFile \/ MakeGrammar \/ MergeFile \/ Fail \/ Return
  <2>1. /\ processed' = processed
        /\ \A x \in Range(queue) : x \in Range(queue') \cup Range(processed)
    BY <1>4, QueueStep DEF SkipFile, ReadFile, MakeGrammar, MergeFile, Fail, Return
  <2> QED BY <1>1, <1>2, <2>1 DEF ImportsKnown
<1> QED
  BY <1>3, <1>4 DEF Next

\* The name that parse is given has a directory, and every name ends with the
\* name of a file, whatever comes before it.
Forward(x) ==
  /\ Len(x.start) > 1 /\ Last(x.start) \in Plainly
  /\ \A path \in DOMAIN x.disk : \A p \in ImportPlaces(x.disk[path]) :
       Last(x.disk[path][p].value) \in Plainly

\* The names that can be met in such a project.
ForwardNames == {name \in FileName : Len(name) > 1 /\ Last(name) \in Plainly}

\* A directory before a name that ends plainly.
LEMMA ForwardImport ==
  ASSUME NEW a \in FileName, NEW b \in FileName, Last(b) \in Plainly
  PROVE  a \o b \in ForwardNames
<1>1. /\ a \in Seq(Segment) /\ b \in Seq(Segment) /\ Len(a) \in Nat \ {0} /\ Len(b) \in Nat \ {0}
  BY DEF FileName
<1>2. /\ a \o b \in Seq(Segment) /\ Len(a \o b) = Len(a) + Len(b)
      /\ (a \o b)[Len(a) + Len(b)] = b[Len(b)]
  BY <1>1
<1> DEFINE c == a \o b
<1> HIDE DEF c
<1>3. c \in Seq(Segment) /\ Len(c) > 1 /\ c[Len(c)] = b[Len(b)]
  BY <1>1, <1>2 DEF c
<1>4. c # <<>>
  BY <1>3
<1> QED
  BY <1>3, <1>4 DEF ForwardNames, FileName, Last, c

\* In such a project imports give such names only.
LEMMA ForwardNamesImport ==
  ASSUME project \in Projects, Forward(project), NEW name \in ForwardNames
  PROVE  Range(ImportNames(name, Content(name))) \subseteq ForwardNames
<1> DEFINE list == Content(name)
           imports == ImportsIn(list)
<1>1. name \in FileName /\ IsDiskFile(list)
  BY ContentIs DEF ForwardNames
<1> SUFFICES ASSUME NEW n \in DOMAIN imports
             PROVE  Directory(name) \o imports[n].value \in ForwardNames
  <2>1. ImportNames(name, list) \in Seq(FileName)
        /\ DOMAIN ImportNames(name, list) = DOMAIN imports
        /\ \A n \in DOMAIN imports : ImportNames(name, list)[n] = Directory(name) \o imports[n].value
    BY <1>1, ImportNamesAre
  <2> QED BY <2>1 DEF Range
<1>2. imports[n].value \in FileName
  BY <1>1, ImportsAre
<1>3. PICK p \in ImportPlaces(list) : imports[n] = list[p]
  BY ImportOnDisk
<1>4. list = project.disk[Resolve(name)] /\ Resolve(name) \in DOMAIN project.disk
  BY ImportOnDisk
<1>5. Last(imports[n].value) \in Plainly
  BY <1>3, <1>4 DEF Forward
<1> QED
  BY <1>1, <1>2, <1>5, DirectoryIs, ForwardImport

\* The first file has such a name.
LEMMA ForwardNamesFirst ==
  ASSUME Init, Forward(project)
  PROVE  NamesIn(ForwardNames)
<1>1. project.start \in FileName /\ queue = <<project.start>> /\ processed = <<>>
  BY ProjectsAssumption DEF Init
<1>2. project.start \in ForwardNames
  BY <1>1 DEF ForwardNames, Forward
<1> QED
  BY <1>1, <1>2 DEF NamesIn, Range

\* The name that is made of an import opens the file that the import means.
LEMMA ImportMeans ==
  ASSUME project \in Projects, NEW name \in ForwardNames, NEW import, import.value \in FileName
  PROVE  Resolve(Directory(name) \o import.value) = Meant(Resolve(name), import)
<1> DEFINE dir == Front(name)
           base == IF name[1] = NoSegment THEN <<>> ELSE project.cwd
           v == import.value
<1>1. name \in FileName /\ Len(name) > 1 /\ Last(name) \in Plainly
  BY DEF ForwardNames
<1>2. /\ dir \in Seq(Segment) /\ Len(dir) = Len(name) - 1 /\ Last(name) \in Segment
      /\ name = Append(dir, Last(name)) /\ Len(name) \in Nat
  BY <1>1, FrontOfName
<1>3. v \in Seq(Segment)
  BY DEF FileName
<1>4. base \in Seq(Segment)
  BY ProjectsAssumption
<1>5. Resolve(name) = Walk(base, name)
  BY DEF Resolve
<1>6. Directory(name) = dir
  <2>1. dir # <<>>
    BY <1>1, <1>2
  <2> QED BY <2>1 DEF Directory
<1>7. (dir \o v)[1] = name[1]
  <2> HIDE DEF dir, v
  <2>1. 1 \in 1..Len(dir)
    BY <1>1, <1>2
  <2>2. (dir \o v)[1] = dir[1] /\ Append(dir, Last(name))[1] = dir[1]
    BY <1>2, <1>3, <2>1
  <2> QED BY <1>2, <2>2
<1>8. Resolve(dir \o v) = Walk(base, dir \o v)
  BY <1>7 DEF Resolve
<1> HIDE DEF dir, base, v
<1>9. Walk(base, dir \o v) = Walk(Walk(base, dir), v)
  BY <1>2, <1>3, WalkConcat
<1> DEFINE path == Walk(base, dir)
<1>10. Walk(base, name) = Append(path, Last(name))
  <2>1. Walk(base, Append(dir, Last(name))) = Step(path, Last(name))
    BY <1>2, WalkAppend
  <2>2. Step(path, Last(name)) = Append(path, Last(name))
    BY <1>1, PlainStep
  <2> QED BY <1>2, <2>1, <2>2
<1>11. path \in Seq(Segment)
  BY <1>2, <1>4, WalkType
<1> HIDE DEF path
<1>12. Front(Append(path, Last(name))) = path
  BY <1>2, <1>11 DEF Front
<1>13. Meant(Resolve(name), import) = Walk(path, v)
  BY <1>5, <1>10, <1>12 DEF Meant, v
<1> QED
  BY <1>6, <1>8, <1>9, <1>13 DEF path, v

\* With an empty queue, the file that any import means was read or is not
\* there.
LEMMA ImportsAreMerged ==
  ASSUME LoaderTyped, ImportsKnown, NamesIn(ForwardNames), queue = <<>>
  PROVE  EveryImportMerged
<1> DEFINE files == {Resolve(processed[n]) : n \in DOMAIN processed}
           merged == files \cap DOMAIN project.disk
<1>0. project \in Projects /\ Range(queue) = {}
  <2>1. DOMAIN <<>> = {}
    OBVIOUS
  <2> QED BY <2>1 DEF LoaderTyped, Range
<1> SUFFICES ASSUME NEW path \in merged, NEW k \in DOMAIN ImportsIn(project.disk[path])
             PROVE  Meant(path, ImportsIn(project.disk[path])[k]) \in files
  BY DEF EveryImportMerged
<1>1. PICK n \in DOMAIN processed : path = Resolve(processed[n])
  OBVIOUS
<1> DEFINE name == processed[n]
           list == Content(name)
           import == ImportsIn(list)[k]
<1>2. list = project.disk[path]
  BY <1>1 DEF Content
<1>3. name \in ForwardNames /\ name \in FileName /\ IsDiskFile(list)
  BY <1>0, ContentIs DEF NamesIn, Range, ForwardNames
<1>4. import.value \in FileName
  BY <1>2, <1>3, ImportsAre
<1>5. k \in DOMAIN ImportsIn(list)
  BY <1>2
<1> DEFINE other == Directory(name) \o import.value
<1>6. other \in Range(ImportNames(name, list))
  BY <1>3, <1>5, ImportNamesAre DEF Range
<1>7. other \in Range(processed)
  BY <1>0, <1>6, ContentOf DEF ImportsKnown, Imported
<1>8. Resolve(other) = Meant(path, import)
  BY <1>0, <1>1, <1>3, <1>4, ImportMeans
<1>9. Resolve(other) \in files
  <2> HIDE DEF other
  <2> QED BY <1>7 DEF Range
<1> QED
  BY <1>2, <1>8, <1>9

-----------------------------------------------------------------------------
(* What the files say.                                                      *)

\* What the parser gets for a name.
FileIn(x, name) == WithoutImports(ContentIn(x, name))

\* The operands that a file marks to be kept, in all rules of a name.
MarkedIn(file, name) ==
  UNION {Ngp!Marked(file, q) : q \in {r \in Ngp!LeftSides(file) : file[r].value = name}}

\* The names that rules can have: a nonterminal of the file.
NamesOfRules == {<<A>> : A \in NonTerminal}

\* Nothing is a plain file, without rules.
LEMMA EmptyFile == Ngp!Plain(<<>>) /\ Ngp!LeftSides(<<>>) = {}
<1>1. DOMAIN <<>> = {}
  OBVIOUS
<1>2. Ngp!LeftSides(<<>>) = {} /\ Ngp!AxiomLines(<<>>) = {}
  BY <1>1 DEF Ngp!LeftSides, Ngp!AxiomLines
<1>3. Ngp!Tidy(<<>>)
  BY <1>1, <1>2, NamesAssumption, Ngp!FS_EmptySet DEF Ngp!Tidy
<1> QED
  BY <1>1, <1>2, <1>3 DEF Ngp!Plain

\* A parser that is done has the rules that its file writes, and keeps what its
\* file marks.
LEMMA ParserIsDone ==
  ASSUME Ngp!ParserInv, at = "done", Ngp!Plain(parsedtokens)
  PROVE  /\ \A name : name # <<Axiom>> =>
              RulesAt(production_rules, name) = WrittenFor(parsedtokens, name)
         /\ \A name : Ngp!SetAt(keeper, name) = MarkedIn(parsedtokens, name)
<1>0. \A f \in {} : Ngp!IsFile(f)
  OBVIOUS
<1>1. Ngp!TypeOK /\ Ngp!GrammarAsWritten /\ Ngp!KeepsWhatIsMarked
  BY <1>0, NamesAssumption, Ngp!ParserPromises
<1> DEFINE file == parsedtokens
           Sides(name) == {q \in Ngp!LeftSides(file) : file[q].value = name}
<1>2. /\ \A q \in Ngp!LeftSides(file) :
           Ngp!RulesAt(production_rules, file[q].value) =
             Ngp!WithoutDoubles(Ngp!WrittenRules(file, q))
      /\ \A name \in DOMAIN production_rules :
           production_rules[name] # <<>> =>
             (name \in Ngp!LeftNames(file) \/ name = <<Axiom>>)
  BY <1>1 DEF Ngp!GrammarAsWritten
<1>3. /\ \A q \in Ngp!LeftSides(file) : Ngp!SetAt(keeper, file[q].value) = Ngp!Marked(file, q)
      /\ \A name \in DOMAIN keeper : keeper[name] # {} => name \in Ngp!LeftNames(file)
  BY <1>1 DEF Ngp!KeepsWhatIsMarked
<1>4. \A p, q \in Ngp!LeftSides(file) : file[p].value = file[q].value => p = q
  BY DEF Ngp!Plain
<1>5. \A name : name \in Ngp!LeftNames(file) <=> Sides(name) # {}
  BY DEF Ngp!LeftNames
<1>6. ASSUME NEW name, Sides(name) = {}, name # <<Axiom>>
      PROVE  RulesAt(production_rules, name) = WrittenFor(file, name)
  <2>1. RulesAt(production_rules, name) = <<>>
    BY <1>2, <1>5, <1>6 DEF RulesAt
  <2> QED BY <1>6, <2>1 DEF WrittenFor
<1>7. ASSUME NEW name, Sides(name) # {}, name # <<Axiom>>
      PROVE  RulesAt(production_rules, name) = WrittenFor(file, name)
  <2> DEFINE q == CHOOSE q \in Sides(name) : TRUE
  <2>1. q \in Sides(name)
    BY <1>7
  <2>2. WrittenFor(file, name) = Ngp!WithoutDoubles(Ngp!WrittenRules(file, q))
    BY <1>7 DEF WrittenFor
  <2> HIDE DEF q
  <2>3. Ngp!RulesAt(production_rules, name) = Ngp!WithoutDoubles(Ngp!WrittenRules(file, q))
    BY <1>2, <2>1
  <2> QED BY <2>2, <2>3 DEF RulesAt, Ngp!RulesAt
<1>8. ASSUME NEW name, Sides(name) = {}
      PROVE  Ngp!SetAt(keeper, name) = MarkedIn(file, name)
  <2>1. Ngp!SetAt(keeper, name) = {}
    BY <1>3, <1>5, <1>8 DEF Ngp!SetAt
  <2> QED BY <1>8, <2>1 DEF MarkedIn
<1>9. ASSUME NEW name, NEW q \in Sides(name)
      PROVE  Ngp!SetAt(keeper, name) = MarkedIn(file, name)
  <2>1. Sides(name) = {q}
    BY <1>4, <1>9
  <2>2. MarkedIn(file, name) = Ngp!Marked(file, q)
    BY <2>1 DEF MarkedIn
  <2> QED BY <1>3, <1>9, <2>2
<1> QED
  BY <1>6, <1>7, <1>8, <1>9

-----------------------------------------------------------------------------
(* What was merged.                                                         *)

\* The files of a project as the parser gets them.
Files(x) == {FileIn(x, name) : name \in FileName}

\* The alternatives that some file writes for a name.
AlternativesFor(x, name) == UNION {Range(WrittenFor(file, name)) : file \in Files(x)}

\* They are files as the parser takes them.
LEMMA FileInIsFile ==
  ASSUME NEW x \in Projects, NEW name
  PROVE  Ngp!IsFile(FileIn(x, name))
BY ProjectsAssumption, EmptyIsDiskFile, FileIs DEF FileIn, ContentIn

\* What a file writes for a name is a sequence of alternatives.
LEMMA WrittenForType ==
  ASSUME NEW x \in Projects, NEW file \in Files(x), NEW name
  PROVE  WrittenFor(file, name) \in Seq(AlternativesFor(x, name))
<1>0. \A f \in {} : Ngp!IsFile(f)
  OBVIOUS
<1> DEFINE sides == {q \in Ngp!LeftSides(file) : file[q].value = name}
           q == CHOOSE q \in sides : TRUE
           rules == Ngp!WrittenRules(file, q)
           places == {n \in DOMAIN rules : \A m \in 1..(n - 1) : rules[m] # rules[n]}
           written == WrittenFor(file, name)
<1>1. Range(written) \subseteq AlternativesFor(x, name)
  BY DEF AlternativesFor
<1>2. written \in Seq(Range(written))
  <2>1. CASE sides = {}
    <3>1. written = <<>>
      BY <2>1 DEF WrittenFor
    <3> HIDE DEF written
    <3> QED BY <3>1
  <2>2. CASE sides # {}
    <3>1. Ngp!IsFile(file)
      BY FileInIsFile DEF Files
    <3>2. q \in Ngp!LeftSides(file)
      BY <2>2
    <3>3. rules \in Seq({rules[n] : n \in DOMAIN rules})
      <4> HIDE DEF q
      <4> QED BY <1>0, <3>1, NamesAssumption, Ngp!WrittenRulesAre, Zenon
    <3>4. written = Ngp!WithoutDoubles(rules)
      BY <2>2 DEF WrittenFor
    <3>5. Ngp!WithoutDoubles(rules) \in Seq({rules[n] : n \in DOMAIN rules})
      <4> HIDE DEF rules
      <4> QED BY <1>0, <3>3, NamesAssumption, Ngp!PickType DEF Ngp!WithoutDoubles
    <3> HIDE DEF written, rules
    <3> QED BY <3>4, <3>5, SequenceOfItems
  <2> QED BY <2>1, <2>2
<1> HIDE DEF written
<1>3. written \in Seq(AlternativesFor(x, name))
  BY <1>1, <1>2, SeqWider
<1> QED
  BY <1>3 DEF written

\* Only rules of the file's names keep something.
LEMMA MarkedNames ==
  ASSUME NEW file, Ngp!IsFile(file), NEW name, MarkedIn(file, name) # {}
  PROVE  name \in NamesOfRules
<1>0. \A f \in {} : Ngp!IsFile(f)
  OBVIOUS
<1>1. PICK q \in Ngp!LeftSides(file) : file[q].value = name
  BY DEF MarkedIn
<1> QED
  BY <1>0, <1>1, NamesAssumption, Ngp!LeftSideName DEF NamesOfRules

\* The rules of one name in the files of these names, in the order of the
\* files.
RulesOver(x, names, name) ==
  FlattenSeq([n \in DOMAIN names |-> WrittenFor(FileIn(x, names[n]), name)])

\* The operands that these files mark, of one name.
MarkedOver(x, names, name) ==
  UNION {MarkedIn(FileIn(x, names[n]), name) : n \in DOMAIN names}

\* A grammar is made of the files of these names.
MergedAre(x, names, out) ==
  /\ \A name : name # <<Axiom>> => RulesAt(out.rules, name) = RulesOver(x, names, name)
  /\ \A name : name # All => Ngp!SetAt(out.keeper, name) = MarkedOver(x, names, name)
  /\ Ngp!SetAt(out.keeper, All) = UNION {MarkedOver(x, names, name) : name \in NamesOfRules}

\* One more file adds its rules after those of the others.
LEMMA RulesOverAppend ==
  ASSUME NEW x \in Projects, NEW names \in Seq(FileName), NEW m \in FileName, NEW name
  PROVE  /\ RulesOver(x, names, name) \in Seq(AlternativesFor(x, name))
         /\ RulesOver(x, Append(names, m), name)
              = RulesOver(x, names, name) \o WrittenFor(FileIn(x, m), name)
<1> DEFINE W(n) == WrittenFor(FileIn(x, n), name)
           T == AlternativesFor(x, name)
           k == Len(names)
           ss == [n \in DOMAIN names |-> W(names[n])]
           tt == [n \in DOMAIN Append(names, m) |-> W(Append(names, m)[n])]
<1>1. \A n \in FileName : W(n) \in Seq(T)
  BY WrittenForType DEF Files
<1> HIDE DEF W, T
<1>2. DOMAIN names = 1..k /\ k \in Nat /\ \A n \in 1..k : names[n] \in FileName
  OBVIOUS
<1>3. ss \in Seq(Seq(T)) /\ Len(ss) = k /\ \A n \in 1..k : ss[n] = W(names[n])
  BY <1>1, <1>2
<1>4. /\ DOMAIN Append(names, m) = 1..(k + 1)
      /\ \A n \in 1..(k + 1) : Append(names, m)[n] = IF n = k + 1 THEN m ELSE names[n]
  OBVIOUS
<1>5. \A n \in 1..(k + 1) : tt[n] = IF n = k + 1 THEN W(m) ELSE W(names[n])
  BY <1>4
<1>6. \A n \in 1..(k + 1) : n = k + 1 \/ n \in 1..k
  BY <1>2
<1>7. DOMAIN tt = 1..(k + 1) /\ tt = [n \in 1..(k + 1) |-> tt[n]]
  BY <1>4
<1>8. \A n \in 1..(k + 1) : tt[n] \in Seq(T)
  BY <1>1, <1>2, <1>5, <1>6
<1> HIDE DEF ss, tt, k
<1>9. tt \in Seq(Seq(T)) /\ Len(tt) = k + 1
  BY <1>2, <1>7, <1>8
<1>10. tt = Append(ss, W(m))
  <2> DEFINE w == W(m)
  <2>1. w \in Seq(T)
    BY <1>1
  <2> HIDE DEF w
  <2>2. /\ Append(ss, w) \in Seq(Seq(T)) /\ Len(Append(ss, w)) = k + 1
        /\ \A n \in 1..(k + 1) : Append(ss, w)[n] = IF n = k + 1 THEN w ELSE ss[n]
    BY <1>2, <1>3, <2>1
  <2> DEFINE uu == Append(ss, w)
  <2> HIDE DEF uu
  <2>3. \A n \in 1..(k + 1) : tt[n] = uu[n]
    BY <1>3, <1>5, <1>6, <2>2 DEF w, uu
  <2>4. tt = uu
    BY <1>9, <2>2, <2>3, SeqEqual DEF uu
  <2> QED BY <2>4 DEF w, uu
<1>11. FlattenSeq(Append(ss, W(m))) = FlattenSeq(ss) \o W(m)
  BY <1>1, <1>3, FlattenAppend
<1>12. FlattenSeq(ss) \in Seq(T)
  BY <1>3, FlattenType
<1>13. RulesOver(x, names, name) = FlattenSeq(ss)
  BY Zenon DEF RulesOver, ss, W
<1>14. RulesOver(x, Append(names, m), name) = FlattenSeq(tt)
  BY Zenon DEF RulesOver, tt, W
<1> QED
  BY <1>10, <1>11, <1>12, <1>13, <1>14 DEF W, T

\* One more file adds its marks to those of the others.
LEMMA MarkedOverAppend ==
  ASSUME NEW x, NEW names \in Seq(FileName), NEW m \in FileName, NEW name
  PROVE  MarkedOver(x, Append(names, m), name)
           = MarkedOver(x, names, name) \cup MarkedIn(FileIn(x, m), name)
<1> DEFINE k == Len(names)
           K(n) == MarkedIn(FileIn(x, n), name)
<1> HIDE DEF K
<1>1. /\ DOMAIN names = 1..k /\ k \in Nat
      /\ DOMAIN Append(names, m) = (DOMAIN names) \cup {k + 1}
      /\ \A n \in DOMAIN names : Append(names, m)[n] = names[n]
      /\ Append(names, m)[k + 1] = m
  OBVIOUS
<1> DEFINE t == Append(names, m)
<1> HIDE DEF t, k
<1>2. UNION {K(t[n]) : n \in DOMAIN t} = (UNION {K(names[n]) : n \in DOMAIN names}) \cup K(m)
  BY <1>1 DEF t
<1> QED
  BY <1>2 DEF MarkedOver, K, t

\* merge() on the rules puts the second grammar's alternatives after the
\* first's, of every name.
LEMMA RulesMerged ==
  ASSUME NEW T, NEW g, NEW h, NEW name, RulesAt(g, name) \in Seq(T), RulesAt(h, name) \in Seq(T)
  PROVE  RulesAt(MergeRules(g, h), name) = RulesAt(g, name) \o RulesAt(h, name)
<1>1. CASE name \in DOMAIN g \cup DOMAIN h
  BY <1>1 DEF MergeRules, RulesAt
<1>2. CASE name \notin DOMAIN g \cup DOMAIN h
  <2>1. RulesAt(g, name) = <<>> /\ RulesAt(h, name) = <<>>
    BY <1>2 DEF RulesAt
  <2>2. RulesAt(MergeRules(g, h), name) = <<>>
    BY <1>2 DEF MergeRules, RulesAt
  <2>3. <<>> \o <<>> = <<>>
    OBVIOUS
  <2> QED BY <2>1, <2>2, <2>3
<1> QED
  BY <1>1, <1>2

\* merge() on the keepers unites them name by name, and adds to the set of all
\* what the merged keeper has under any name.
LEMMA KeeperMerged ==
  ASSUME NEW g, NEW h
  PROVE  /\ \A name : name # All =>
              Ngp!SetAt(MergeKeeper(g, h), name) = Ngp!SetAt(g, name) \cup Ngp!SetAt(h, name)
         /\ Ngp!SetAt(MergeKeeper(g, h), All) =
              Ngp!SetAt(g, All) \cup Ngp!SetAt(h, All) \cup UNION {h[name] : name \in DOMAIN h}
         /\ All \in DOMAIN MergeKeeper(g, h)
<1>1. \A name : Ngp!SetAt(MergeSets(g, h), name) = Ngp!SetAt(g, name) \cup Ngp!SetAt(h, name)
  BY DEF MergeSets, Ngp!SetAt
<1> DEFINE s == MergeSets(g, h)
           all == UNION {h[name] : name \in DOMAIN h}
<1>2. MergeKeeper(g, h) = Ngp!AddTo(s, All, all)
  BY Zenon DEF MergeKeeper
<1> HIDE DEF s, all
<1>3. \A name : Ngp!SetAt(Ngp!AddTo(s, All, all), name)
                  = IF name = All THEN Ngp!SetAt(s, name) \cup all ELSE Ngp!SetAt(s, name)
  BY DEF Ngp!SetAt, Ngp!AddTo
<1>4. All \in DOMAIN Ngp!AddTo(s, All, all)
  BY DEF Ngp!AddTo
<1> QED
  BY <1>1, <1>2, <1>3, <1>4 DEF s, all

\* Grammar::merge, for one more file.
LEMMA MergedNext ==
  ASSUME NEW x \in Projects, NEW names \in Seq(FileName), NEW m \in FileName,
         MergedAre(x, names, out_grammar),
         \A name : name # <<Axiom>> =>
           RulesAt(production_rules, name) = WrittenFor(FileIn(x, m), name),
         \A name : Ngp!SetAt(keeper, name) = MarkedIn(FileIn(x, m), name)
  PROVE  MergedAre(x, Append(names, m), Merge(out_grammar))
<1> DEFINE after == Merge(out_grammar)
           file == FileIn(x, m)
           all == UNION {keeper[name] : name \in DOMAIN keeper}
<1>1. /\ after.rules = MergeRules(out_grammar.rules, production_rules)
      /\ after.keeper = MergeKeeper(out_grammar.keeper, keeper)
  BY DEF Merge
<1>2. /\ \A name : name # All => Ngp!SetAt(after.keeper, name) =
                                  Ngp!SetAt(out_grammar.keeper, name) \cup Ngp!SetAt(keeper, name)
      /\ Ngp!SetAt(after.keeper, All) =
           Ngp!SetAt(out_grammar.keeper, All) \cup Ngp!SetAt(keeper, All) \cup all
  BY <1>1, KeeperMerged
<1>3. all = UNION {MarkedIn(file, name) : name \in NamesOfRules}
  <2>1. ASSUME NEW y \in all
        PROVE  \E name \in NamesOfRules : y \in MarkedIn(file, name)
    <3>1. PICK name \in DOMAIN keeper : y \in keeper[name]
      OBVIOUS
    <3>2. y \in MarkedIn(file, name)
      BY <3>1 DEF Ngp!SetAt
    <3>3. Ngp!IsFile(file)
      BY FileInIsFile
    <3> QED BY <3>2, <3>3, MarkedNames
  <2>2. ASSUME NEW name \in NamesOfRules, NEW y \in MarkedIn(file, name)
        PROVE  y \in all
    <3>1. y \in Ngp!SetAt(keeper, name)
      BY <2>2
    <3> QED BY <3>1 DEF Ngp!SetAt
  <2> QED BY <2>1, <2>2
<1>4. Ngp!SetAt(keeper, All) \subseteq all
  BY DEF Ngp!SetAt
<1>5. ASSUME NEW name, name # <<Axiom>>
      PROVE  RulesAt(after.rules, name) = RulesOver(x, Append(names, m), name)
  <2>1. RulesAt(out_grammar.rules, name) = RulesOver(x, names, name)
        /\ RulesAt(production_rules, name) = WrittenFor(file, name)
    BY <1>5 DEF MergedAre
  <2>2. file \in Files(x)
    BY DEF Files
  <2>3. RulesOver(x, names, name) \in Seq(AlternativesFor(x, name))
        /\ WrittenFor(file, name) \in Seq(AlternativesFor(x, name))
    BY <2>2, RulesOverAppend, WrittenForType
  <2>4. RulesAt(after.rules, name)
          = RulesAt(out_grammar.rules, name) \o RulesAt(production_rules, name)
    <3> DEFINE g == out_grammar.rules
               h == production_rules
               T == AlternativesFor(x, name)
    <3>1. RulesAt(g, name) \in Seq(T) /\ RulesAt(h, name) \in Seq(T)
      BY <2>1, <2>3
    <3> HIDE DEF g, h, T
    <3>2. RulesAt(MergeRules(g, h), name) = RulesAt(g, name) \o RulesAt(h, name)
      BY <3>1, RulesMerged
    <3> QED BY <1>1, <3>2 DEF g, h
  <2>5. RulesOver(x, Append(names, m), name)
          = RulesOver(x, names, name) \o WrittenFor(file, name)
    BY RulesOverAppend
  <2> HIDE DEF after, file
  <2> QED BY <2>1, <2>4, <2>5, Zenon
<1>6. ASSUME NEW name, name # All
      PROVE  Ngp!SetAt(after.keeper, name) = MarkedOver(x, Append(names, m), name)
  <2>1. Ngp!SetAt(after.keeper, name)
          = Ngp!SetAt(out_grammar.keeper, name) \cup Ngp!SetAt(keeper, name)
    BY <1>2, <1>6
  <2>2. Ngp!SetAt(out_grammar.keeper, name) = MarkedOver(x, names, name)
    BY <1>6 DEF MergedAre
  <2>3. Ngp!SetAt(keeper, name) = MarkedIn(file, name)
    OBVIOUS
  <2>4. MarkedOver(x, Append(names, m), name)
          = MarkedOver(x, names, name) \cup MarkedIn(file, name)
    BY MarkedOverAppend
  <2> HIDE DEF after, file
  <2> QED BY <2>1, <2>2, <2>3, <2>4
<1>7. Ngp!SetAt(after.keeper, All)
        = UNION {MarkedOver(x, Append(names, m), name) : name \in NamesOfRules}
  <2>1. Ngp!SetAt(after.keeper, All) = Ngp!SetAt(out_grammar.keeper, All) \cup all
    BY <1>2, <1>4
  <2>2. Ngp!SetAt(out_grammar.keeper, All)
          = UNION {MarkedOver(x, names, name) : name \in NamesOfRules}
    BY DEF MergedAre
  <2>3. \A name : MarkedOver(x, Append(names, m), name)
                    = MarkedOver(x, names, name) \cup MarkedIn(file, name)
    BY MarkedOverAppend
  <2> HIDE DEF all, after, file
  <2> QED BY <1>3, <2>1, <2>2, <2>3
<1> HIDE DEF after
<1>8. MergedAre(x, Append(names, m), after)
  BY <1>5, <1>6, <1>7 DEF MergedAre
<1> QED
  BY <1>8 DEF after

\* The empty grammar is made of no files.
LEMMA MergedNone ==
  ASSUME NEW x
  PROVE  MergedAre(x, <<>>, EmptyGrammar)
<1>1. DOMAIN <<>> = {}
  OBVIOUS
<1>2. ASSUME NEW name
      PROVE  RulesOver(x, <<>>, name) = <<>> /\ MarkedOver(x, <<>>, name) = {}
  <2>1. [n \in DOMAIN <<>> |-> WrittenFor(FileIn(x, <<>>[n]), name)] = <<>>
    BY <1>1
  <2> QED BY <1>1, <2>1, FlattenEmpty DEF RulesOver, MarkedOver
<1>3. /\ \A name : RulesAt(EmptyGrammar.rules, name) = <<>>
      /\ \A name : Ngp!SetAt(EmptyGrammar.keeper, name) = {}
  BY DEF RulesAt, Ngp!SetAt, EmptyGrammar, NoRules
<1> QED
  BY <1>2, <1>3 DEF MergedAre

\* Grammar::merge, of the grammar of no tokens.
LEMMA MergedNothing ==
  ASSUME NEW x \in Projects, NEW names \in Seq(FileName),
         MergedAre(x, names, out_grammar),
         \A name : name # <<Axiom>> => RulesAt(production_rules, name) = <<>>,
         \A name : Ngp!SetAt(keeper, name) = {}
  PROVE  MergedAre(x, names, Merge(out_grammar))
<1> DEFINE after == Merge(out_grammar)
           all == UNION {keeper[name] : name \in DOMAIN keeper}
<1>1. /\ after.rules = MergeRules(out_grammar.rules, production_rules)
      /\ after.keeper = MergeKeeper(out_grammar.keeper, keeper)
  BY DEF Merge
<1>2. all = {}
  BY DEF Ngp!SetAt
<1>3. \A name : Ngp!SetAt(after.keeper, name) = Ngp!SetAt(out_grammar.keeper, name)
  <2>1. /\ \A name : name # All => Ngp!SetAt(after.keeper, name) =
                                    Ngp!SetAt(out_grammar.keeper, name) \cup Ngp!SetAt(keeper, name)
        /\ Ngp!SetAt(after.keeper, All) =
             Ngp!SetAt(out_grammar.keeper, All) \cup Ngp!SetAt(keeper, All) \cup all
    BY <1>1, KeeperMerged
  <2> HIDE DEF after, all
  <2> QED BY <1>2, <2>1
<1>4. ASSUME NEW name, name # <<Axiom>>
      PROVE  RulesAt(after.rules, name) = RulesOver(x, names, name)
  <2> DEFINE g == out_grammar.rules
             h == production_rules
             T == AlternativesFor(x, name)
  <2>1. RulesAt(g, name) = RulesOver(x, names, name) /\ RulesAt(h, name) = <<>>
    BY <1>4 DEF MergedAre
  <2>2. \E m : m \in FileName
    <3>1. project.start \in FileName \/ <<NoSegment>> \in FileName
      BY ProjectsAssumption DEF FileName
    <3> QED BY <3>1
  <2>3. RulesOver(x, names, name) \in Seq(T)
    BY <2>2, RulesOverAppend
  <2> HIDE DEF g, h, T
  <2>4. RulesAt(h, name) \in Seq(T)
    BY <2>1
  <2>7. RulesAt(g, name) \in Seq(T)
    BY <2>1, <2>3
  <2>5. RulesAt(MergeRules(g, h), name) = RulesAt(g, name) \o RulesAt(h, name)
    BY <2>4, <2>7, RulesMerged
  <2>6. RulesAt(g, name) \o <<>> = RulesAt(g, name)
    <3> DEFINE s == RulesAt(g, name)
    <3>1. s \in Seq(T)
      BY <2>1, <2>3
    <3> HIDE DEF s
    <3> QED BY <3>1 DEF s
  <2> QED BY <1>1, <2>1, <2>5, <2>6 DEF g, h
<1> HIDE DEF after
<1>5. MergedAre(x, names, after)
  BY <1>3, <1>4 DEF MergedAre
<1> QED
  BY <1>5 DEF after

\* All of these files are plain: each rule is written once, begins with an operand
\* and has a list only as an alternative of its own.
FilesPlain(x, names) == \A n \in DOMAIN names : Ngp!Plain(FileIn(x, names[n]))

\* The file of this name was read, and is not merged yet.
Unmerged(x, names, m) ==
  /\ names \in Seq(FileName) /\ m \in FileName
  /\ processed = Append(names, m) /\ parsedtokens = FileIn(x, m)
  /\ MergedAre(x, names, out_grammar)

\* What the loader has merged is what the files that it read write; between
\* reading a file and merging it, all files but the last.
MergedInv ==
  FilesPlain(project, processed) =>
    /\ mode \in {"next file", "returned"} => MergedAre(project, processed, out_grammar)
    /\ mode = "parsing" =>
         \/ parsedtokens = <<>> /\ MergedAre(project, processed, out_grammar)
         \/ \E names, m : Unmerged(project, names, m)

\* The parser does not change the matches it reads.
LEMMA FileStays == Ngp!Next => parsedtokens' = parsedtokens
BY DEF Ngp!Next, Ngp!CheckAxiom, Ngp!CheckLeftSide, Ngp!KeepAsText, Ngp!Keep, Ngp!MakeList,
       Ngp!MakeListOp, Ngp!AddToRule, Ngp!RightSideUndefined, Ngp!LeaveRightSide,
       Ngp!CheckOperators, Ngp!NoToken, Ngp!CheckForToken, Ngp!CleanRegexThrows, Ngp!Finish,
       Ngp!RightSide, Ngp!input

\* A file less is still plain.
LEMMA FilesPlainFewer ==
  ASSUME NEW x, NEW names \in Seq(FileName), NEW m \in FileName, FilesPlain(x, Append(names, m))
  PROVE  FilesPlain(x, names) /\ Ngp!Plain(FileIn(x, m))
<1>1. /\ DOMAIN Append(names, m) = (DOMAIN names) \cup {Len(names) + 1}
      /\ \A n \in DOMAIN names : Append(names, m)[n] = names[n]
      /\ Append(names, m)[Len(names) + 1] = m
  OBVIOUS
<1> DEFINE t == Append(names, m)
<1> HIDE DEF t
<1>2. \A n \in DOMAIN t : Ngp!Plain(FileIn(x, t[n]))
  BY DEF FilesPlain, t
<1> QED
  BY <1>1, <1>2 DEF FilesPlain, t

\* When the parser is done, merging its grammar adds what its file writes.
LEMMA MergeStep ==
  ASSUME LoaderTyped, MergedInv, MergeFile, FilesPlain(project, processed)
  PROVE  MergedAre(project, processed, Merge(out_grammar))
<1>1. mode = "parsing" /\ at = "done"
  BY DEF MergeFile
<1>2. project \in Projects /\ processed \in Seq(FileName) /\ Ngp!ParserInv
  BY DEF LoaderTyped
<1>3. CASE parsedtokens = <<>> /\ MergedAre(project, processed, out_grammar)
  <2>1. /\ \A name : name # <<Axiom>> => RulesAt(production_rules, name) = WrittenFor(<<>>, name)
        /\ \A name : Ngp!SetAt(keeper, name) = MarkedIn(<<>>, name)
    BY <1>1, <1>2, <1>3, EmptyFile, ParserIsDone
  <2>2. \A name : WrittenFor(<<>>, name) = <<>> /\ MarkedIn(<<>>, name) = {}
    BY EmptyFile DEF WrittenFor, MarkedIn
  <2> QED BY <1>2, <1>3, <2>1, <2>2, MergedNothing
<1>4. ASSUME NEW names, NEW m, Unmerged(project, names, m)
      PROVE  MergedAre(project, processed, Merge(out_grammar))
  <2>1. /\ names \in Seq(FileName) /\ m \in FileName
        /\ processed = Append(names, m) /\ parsedtokens = FileIn(project, m)
        /\ MergedAre(project, names, out_grammar)
    BY <1>4 DEF Unmerged
  <2>2. Ngp!Plain(parsedtokens)
    BY <2>1, FilesPlainFewer
  <2>3. /\ \A name : name # <<Axiom>> =>
              RulesAt(production_rules, name) = WrittenFor(FileIn(project, m), name)
        /\ \A name : Ngp!SetAt(keeper, name) = MarkedIn(FileIn(project, m), name)
    BY <1>1, <1>2, <2>1, <2>2, ParserIsDone
  <2> QED BY <1>2, <2>1, <2>3, MergedNext
<1> QED
  BY <1>1, <1>3, <1>4 DEF MergedInv

\* Every step preserves what is merged.
LEMMA MergedInvStep ==
  ASSUME LoaderTyped, MergedInv, Next
  PROVE  MergedInv'
<1>0. project \in Projects /\ processed \in Seq(FileName) /\ project' = project
  BY QueueStep DEF LoaderTyped
<1> SUFFICES ASSUME FilesPlain(project, processed')
             PROVE  /\ mode' \in {"next file", "returned"} =>
                         MergedAre(project, processed', out_grammar')
                    /\ mode' = "parsing" =>
                         \/ parsedtokens' = <<>> /\ MergedAre(project, processed', out_grammar')
                         \/ \E names, m : Unmerged(project, names, m)'
  BY <1>0 DEF MergedInv
<1>1. CASE ReadFile
  <2> DEFINE name == queue[1]
             file == WithoutImports(Content(name))
  <2>1. /\ name \in FileName /\ processed' = Append(processed, name)
    BY <1>1, QueueStep DEF SkipFile, ReadFile, MakeGrammar, MergeFile, Fail, Return
  <2>2. Ngp!Start(file) /\ mode = "next file" /\ mode' = "parsing" /\ out_grammar' = out_grammar
    BY <1>1 DEF ReadFile
  <2>3. parsedtokens' = file
    BY <2>2 DEF Ngp!Start
  <2>4. file = FileIn(project, name)
    BY ContentOf DEF FileIn
  <2>5. FilesPlain(project, processed)
    BY <1>0, <2>1, FilesPlainFewer
  <2>6. MergedAre(project, processed, out_grammar)
    BY <2>2, <2>5 DEF MergedInv
  <2> HIDE DEF name, file
  <2>7. PICK names, m : names = processed /\ m = name
    OBVIOUS
  <2>8. Unmerged(project, names, m)'
    BY <1>0, <2>1, <2>2, <2>3, <2>4, <2>6, <2>7 DEF Unmerged
  <2> QED BY <2>2, <2>8
<1>2. CASE SkipFile
  <2>1. Ngp!Start(<<>>) /\ mode = "next file" /\ mode' = "parsing" /\ out_grammar' = out_grammar
        /\ processed' = processed
    BY <1>2 DEF SkipFile
  <2>2. parsedtokens' = <<>>
    BY <2>1 DEF Ngp!Start
  <2> QED BY <2>1, <2>2 DEF MergedInv
<1>3. CASE MakeGrammar
  <2>1. /\ parsedtokens' = parsedtokens
        /\ UNCHANGED <<project, processed, out_grammar, mode>> /\ mode = "parsing"
    BY <1>3, FileStays DEF MakeGrammar
  <2> QED BY <2>1 DEF MergedInv, Unmerged
<1>4. CASE MergeFile
  <2>1. out_grammar' = Merge(out_grammar) /\ mode' = "next file" /\ processed' = processed
    BY <1>4 DEF MergeFile
  <2> QED BY <1>4, <2>1, MergeStep
<1>5. CASE Fail
  BY <1>5 DEF Fail
<1>6. CASE Return
  <2>1. /\ mode = "next file" /\ mode' = "returned"
        /\ processed' = processed /\ out_grammar' = out_grammar
    BY <1>6 DEF Return
  <2> QED BY <2>1 DEF MergedInv
<1> QED
  BY <1>1, <1>2, <1>3, <1>4, <1>5, <1>6 DEF Next

\* Some grammar was merged before parse returns.
SomeMerged ==
  \/ All \in DOMAIN out_grammar.keeper
  \/ mode = "next file" /\ queue # <<>>
  \/ mode \in {"parsing", "failed"}

\* A grammar that is returned was made from at least one file.
LEMMA SomeMergedStep ==
  ASSUME SomeMerged, Next
  PROVE  SomeMerged'
<1>1. CASE ReadFile \/ SkipFile \/ MakeGrammar \/ Fail
  <2>1. mode' \in {"parsing", "failed"}
    BY <1>1 DEF ReadFile, SkipFile, MakeGrammar, Fail
  <2> QED BY <2>1 DEF SomeMerged
<1>2. CASE MergeFile
  <2>1. out_grammar'.keeper = MergeKeeper(out_grammar.keeper, keeper)
    BY <1>2 DEF MergeFile, Merge
  <2> QED BY <2>1, KeeperMerged DEF SomeMerged
<1>3. CASE Return
  <2>1. mode = "next file" /\ queue = <<>> /\ out_grammar' = out_grammar
    BY <1>3 DEF Return
  <2> QED BY <2>1 DEF SomeMerged
<1> QED
  BY <1>1, <1>2, <1>3 DEF Next

-----------------------------------------------------------------------------
(* The invariant, and the theorems.                                         *)

\* The inductive invariant of the loader.
LoaderInv ==
  /\ LoaderTyped
  /\ NamesOnce
  /\ Downward(project) => NamesIn(DownNames(project))
  /\ Forward(project) => NamesIn(ForwardNames)
  /\ ImportsKnown
  /\ MergedInv
  /\ SomeMerged
  /\ mode = "returned" => queue = <<>>

\* It holds at the start.
LEMMA LoaderInvStart == Init => LoaderInv
<1> SUFFICES ASSUME Init PROVE LoaderInv
  OBVIOUS
<1>1. /\ processed = <<>> /\ queue = <<project.start>> /\ mode = "next file"
      /\ out_grammar = EmptyGrammar /\ project \in Projects
  BY DEF Init
<1>2. LoaderTyped
  BY LoaderTypedStart
<1>3. DOMAIN processed = {}
  <2>1. DOMAIN <<>> = {}
    OBVIOUS
  <2> QED BY <1>1, <2>1
<1>4. NamesOnce /\ ImportsKnown
  BY <1>3 DEF NamesOnce, ImportsKnown
<1>5. MergedInv
  BY <1>1, MergedNone DEF MergedInv
<1>6. SomeMerged
  <2>1. queue # <<>>
    <3>1. \A x : <<x>> # <<>>
      OBVIOUS
    <3> QED BY <1>1, <3>1
  <2> QED BY <1>1, <2>1 DEF SomeMerged
<1> QED
  BY <1>1, <1>2, <1>4, <1>5, <1>6, DownNamesFirst, ForwardNamesFirst DEF LoaderInv

\* Every step preserves it.
LEMMA LoaderInvStep ==
  ASSUME LoaderInv, Next
  PROVE  LoaderInv'
<1>1. LoaderTyped /\ NamesOnce /\ ImportsKnown /\ MergedInv /\ SomeMerged
  BY DEF LoaderInv
<1>2. project' = project /\ project \in Projects
  BY <1>1, QueueStep DEF LoaderTyped
<1>3. LoaderTyped' /\ NamesOnce' /\ ImportsKnown' /\ MergedInv' /\ SomeMerged'
  BY <1>1, LoaderTypedStep, NamesOnceStep, ImportsKnownStep, MergedInvStep, SomeMergedStep
<1>4. ASSUME Downward(project)
      PROVE  NamesIn(DownNames(project))'
  <2> DEFINE names == DownNames(project)
  <2>1. NamesIn(names)
    BY <1>4 DEF LoaderInv
  <2>2. \A name \in names \cap FileName : Range(ImportNames(name, Content(name))) \subseteq names
    BY <1>2, <1>4, DownNamesImport
  <2>3. Range(queue') \subseteq names /\ Range(processed') \subseteq names
    <3> HIDE DEF names
    <3> QED BY <1>1, <2>1, <2>2, NamesInStep DEF NamesIn
  <2> QED BY <1>2, <2>3 DEF NamesIn
<1>5. ASSUME Forward(project)
      PROVE  NamesIn(ForwardNames)'
  <2>1. NamesIn(ForwardNames)
    BY <1>5 DEF LoaderInv
  <2>2. \A name \in ForwardNames \cap FileName :
          Range(ImportNames(name, Content(name))) \subseteq ForwardNames
    BY <1>2, <1>5, ForwardNamesImport
  <2> QED BY <1>1, <2>1, <2>2, NamesInStep
<1>6. mode' = "returned" => queue' = <<>>
  BY DEF Next, ReadFile, SkipFile, MakeGrammar, MergeFile, Fail, Return
<1> QED
  BY <1>2, <1>3, <1>4, <1>5, <1>6 DEF LoaderInv

\* So does standing still.
LEMMA LoaderInvStutters ==
  ASSUME LoaderInv, UNCHANGED vars
  PROVE  LoaderInv'
<1>0. /\ project' = project /\ queue' = queue /\ processed' = processed
      /\ out_grammar' = out_grammar /\ mode' = mode
      /\ UNCHANGED ngpVars
  BY DEF vars
<1>1. Ngp!ParserInv'
  <2>0. \A f \in {} : Ngp!IsFile(f)
    OBVIOUS
  <2>1. UNCHANGED Ngp!vars
    BY <1>0 DEF ngpVars, Ngp!vars
  <2> QED BY <2>0, <2>1, NamesAssumption, Ngp!ParserSteps DEF LoaderInv, LoaderTyped
<1>2. LoaderTyped' /\ NamesOnce' /\ ImportsKnown' /\ SomeMerged'
  BY <1>0, <1>1 DEF LoaderInv, LoaderTyped, NamesOnce, ImportsKnown, SomeMerged
<1>3. MergedInv'
  <2>1. parsedtokens' = parsedtokens
    BY <1>0 DEF ngpVars
  <2> QED BY <1>0, <2>1 DEF LoaderInv, MergedInv, Unmerged
<1> QED
  BY <1>0, <1>2, <1>3 DEF LoaderInv, NamesIn

\* The invariant that the properties follow from.
THEOREM LoaderInvariant == Spec => []LoaderInv
<1>1. Init => LoaderInv
  BY LoaderInvStart
<1>2. LoaderInv /\ [Next]_vars => LoaderInv'
  <2> SUFFICES ASSUME LoaderInv, [Next]_vars PROVE LoaderInv'
    OBVIOUS
  <2>1. CASE Next
    BY <2>1, LoaderInvStep
  <2>2. CASE UNCHANGED vars
    BY <2>2, LoaderInvStutters
  <2> QED BY <2>1, <2>2
<1> QED
  BY <1>1, <1>2, PTL DEF Spec

\* merge keeps what both grammars keep, and every label with it.
LEMMA NotesMerged ==
  ASSUME NotesFit(out_grammar), LabelsAreKept(labels, keeper)
  PROVE  NotesFit(Merge(out_grammar))
<1> DEFINE l == MergeLabels(out_grammar.labels, labels)
           s == MergeKeeper(out_grammar.keeper, keeper)
<1>1. Merge(out_grammar).labels = l /\ Merge(out_grammar).keeper = s
  BY DEF Merge
<1>2. /\ DOMAIN s = DOMAIN out_grammar.keeper \cup DOMAIN keeper \cup {All}
      /\ \A name \in DOMAIN s :
           /\ Ngp!SetAt(out_grammar.keeper, name) \cup Ngp!SetAt(keeper, name) \subseteq s[name]
           /\ name # All =>
                s[name] = Ngp!SetAt(out_grammar.keeper, name) \cup Ngp!SetAt(keeper, name)
      /\ UNION {keeper[name] : name \in DOMAIN keeper} \subseteq s[All]
  BY DEF MergeKeeper, MergeSets, Ngp!AddTo, Ngp!SetAt
<1>3. DOMAIN l = DOMAIN out_grammar.labels \cup DOMAIN labels
  BY DEF MergeLabels
<1>4. ASSUME NEW name \in DOMAIN l, NEW operand \in DOMAIN l[name]
      PROVE  \/ /\ name \in DOMAIN labels /\ operand \in DOMAIN labels[name]
                /\ l[name][operand] = labels[name][operand]
             \/ /\ name \in DOMAIN out_grammar.labels
                /\ operand \in DOMAIN out_grammar.labels[name]
                /\ l[name][operand] = out_grammar.labels[name][operand]
  BY <1>3 DEF MergeLabels
<1> HIDE DEF l, s
<1>5. LabelsAreKept(l, s)
  BY <1>2, <1>3, <1>4 DEF NotesFit, LabelsAreKept, Ngp!SetAt
<1>6. ASSUME NEW name \in DOMAIN s PROVE s[name] \subseteq s[All]
  <2> SUFFICES ASSUME name # All, NEW x \in s[name] PROVE x \in s[All]
    OBVIOUS
  <2>1. CASE x \in Ngp!SetAt(keeper, name)
    BY <1>2, <2>1 DEF Ngp!SetAt
  <2>2. CASE x \in Ngp!SetAt(out_grammar.keeper, name)
    <3>1. x \in Ngp!SetAt(out_grammar.keeper, All)
      BY <2>2 DEF NotesFit, Ngp!SetAt
    <3> QED
      BY <1>2, <3>1
  <2> QED
    BY <1>2, <2>1, <2>2
<1> QED
  BY <1>1, <1>2, <1>5, <1>6 DEF NotesFit

\* A label that a file gives is where a session looks it up, after any number of
\* merges and for any files.
THEOREM LabelsAreFound == Spec => []NotesFit(out_grammar)
<1>1. Init => NotesFit(out_grammar)
  <2> SUFFICES ASSUME Init PROVE NotesFit(out_grammar)
    OBVIOUS
  <2>1. out_grammar.labels = NoRules /\ out_grammar.keeper = NoRules
    BY DEF Init, EmptyGrammar
  <2>2. DOMAIN NoRules = {}
    BY DEF NoRules
  <2> QED
    BY <2>1, <2>2 DEF NotesFit, LabelsAreKept
<1>2. LoaderInv /\ NotesFit(out_grammar) /\ [Next]_vars => NotesFit(out_grammar)'
  <2> SUFFICES ASSUME LoaderInv, NotesFit(out_grammar), [Next]_vars PROVE NotesFit(out_grammar)'
    OBVIOUS
  <2>1. CASE MergeFile
    <3>1. \A f \in {} : Ngp!IsFile(f)
      OBVIOUS
    <3>2. LabelsAreKept(labels, keeper)
      BY <3>1, NamesAssumption, Ngp!ParserPromises
         DEF LoaderInv, LoaderTyped, Ngp!TypeOK, Ngp!LabelsAreKept, LabelsAreKept
    <3>3. out_grammar' = Merge(out_grammar)
      BY <2>1 DEF MergeFile
    <3> QED
      BY <3>2, <3>3, NotesMerged DEF NotesFit, LabelsAreKept
  <2>2. CASE out_grammar' = out_grammar
    BY <2>2 DEF NotesFit, LabelsAreKept
  <2> QED
    BY <2>1, <2>2 DEF Next, vars, ReadFile, SkipFile, MakeGrammar, Fail, Return
<1> QED
  BY <1>1, <1>2, LoaderInvariant, PTL DEF Spec

\* The state of the loader and of its parser has its type: a name is never
\* empty, and text is kept only of what is kept.
THEOREM LoaderHasItsType == Spec => []TypeOK
<1>1. LoaderInv /\ NotesFit(out_grammar) => TypeOK
  BY LoaderTypes DEF LoaderInv
<1> QED
  BY <1>1, LoaderInvariant, LabelsAreFound, PTL

\* The preprocessor's protection against nested imports, for names that go down:
\* two different names never open one file, so comparing texts is enough.
THEOREM FilesAreMergedOnce == Spec => [](Downward(project) => NoFileMergedTwice)
<1>1. LoaderInv => (Downward(project) => NoFileMergedTwice)
  <2> SUFFICES ASSUME LoaderInv, Downward(project),
                      NEW m \in DOMAIN processed, NEW n \in DOMAIN processed,
                      Resolve(processed[m]) = Resolve(processed[n])
               PROVE  m = n
    BY DEF NoFileMergedTwice
  <2>1. project \in Projects /\ NamesOnce /\ Range(processed) \subseteq DownNames(project)
    BY DEF LoaderInv, LoaderTyped, NamesIn
  <2>2. processed[m] \in DownNames(project) /\ processed[n] \in DownNames(project)
    BY <2>1 DEF Range
  <2>3. processed[m] = processed[n]
    BY <2>1, <2>2, DownNamesApart
  <2> QED BY <2>1, <2>3 DEF NamesOnce
<1> QED
  BY <1>1, LoaderInvariant, PTL

\* When parse returns, every file on disk that a merged file imports is merged,
\* whatever way the files import each other, when the first name has a directory.
THEOREM ImportsAreFollowed == Spec => [](Forward(project) => EveryImportMerged)
<1>1. LoaderInv => (Forward(project) => EveryImportMerged)
  <2> SUFFICES ASSUME LoaderInv, Forward(project) PROVE EveryImportMerged
    OBVIOUS
  <2>1. LoaderTyped /\ ImportsKnown /\ NamesIn(ForwardNames) /\ (mode = "returned" => queue = <<>>)
    BY DEF LoaderInv
  <2>2. CASE mode = "returned"
    BY <2>1, <2>2, ImportsAreMerged
  <2>3. CASE mode # "returned"
    BY <2>3 DEF EveryImportMerged
  <2> QED BY <2>2, <2>3
<1> QED
  BY <1>1, LoaderInvariant, PTL

\* The files that were merged are the places that the names read lead to.
LEMMA MergedFilesAre ==
  /\ DOMAIN MergedFiles = DOMAIN processed
  /\ \A n \in DOMAIN processed : MergedFiles[n] = FileIn(project, processed[n])
<1>1. \A n \in DOMAIN processed :
        WithoutImports(Content(processed[n])) = FileIn(project, processed[n])
  BY ContentOf DEF FileIn
<1> QED
  BY <1>1 DEF MergedFiles

\* What is returned is what was merged of the files that were read.
LEMMA ReturnedIsMerged ==
  ASSUME LoaderInv, mode = "returned", AllPlain
  PROVE  MergedAre(project, processed, out_grammar) /\ All \in DOMAIN out_grammar.keeper
<1>1. FilesPlain(project, processed)
  BY MergedFilesAre DEF AllPlain, FilesPlain
<1>2. MergedInv /\ SomeMerged
  BY DEF LoaderInv
<1> QED
  BY <1>1, <1>2 DEF MergedInv, SomeMerged

\* The rules of a name are those of all files, in the order in which the files
\* were read, however many files there are.
THEOREM RulesAreOfAllFiles == Spec => []RulesOfAllFiles
<1>1. LoaderInv => RulesOfAllFiles
  <2> SUFFICES ASSUME LoaderInv, mode = "returned", AllPlain, NEW A \in NonTerminal \ {Axiom}
               PROVE  RulesAt(out_grammar.rules, <<A>>) =
                        FlattenSeq([n \in DOMAIN MergedFiles |-> WrittenFor(MergedFiles[n], <<A>>)])
    BY DEF RulesOfAllFiles
  <2>1. MergedAre(project, processed, out_grammar)
    BY ReturnedIsMerged
  <2>2. <<A>> # <<Axiom>>
    <3>1. <<A>>[1] = A /\ <<Axiom>>[1] = Axiom
      OBVIOUS
    <3> QED BY <3>1
  <2>3. [n \in DOMAIN MergedFiles |-> WrittenFor(MergedFiles[n], <<A>>)]
          = [n \in DOMAIN processed |-> WrittenFor(FileIn(project, processed[n]), <<A>>)]
    BY MergedFilesAre
  <2>4. RulesAt(out_grammar.rules, <<A>>) = RulesOver(project, processed, <<A>>)
    BY <2>1, <2>2 DEF MergedAre
  <2> QED BY <2>3, <2>4, Zenon DEF RulesOver
<1> QED
  BY <1>1, LoaderInvariant, PTL

\* A name keeps what any of the files marks in its rules, and "all" is the union.
THEOREM KeepersAreOfAllFiles == Spec => []KeptByAllFiles
<1>1. LoaderInv => KeptByAllFiles
  <2> SUFFICES ASSUME LoaderInv, mode = "returned", AllPlain
               PROVE  /\ \A name : name # All =>
                           Ngp!SetAt(out_grammar.keeper, name) = MarkedFor(name)
                      /\ out_grammar.keeper[All] = UNION {MarkedFor(<<A>>) : A \in NonTerminal}
    BY DEF KeptByAllFiles
  <2>1. MergedAre(project, processed, out_grammar) /\ All \in DOMAIN out_grammar.keeper
    BY ReturnedIsMerged
  <2>2. \A name : MarkedFor(name) = MarkedOver(project, processed, name)
    BY MergedFilesAre DEF MarkedFor, MarkedOver, MarkedIn
  <2>3. UNION {MarkedFor(<<A>>) : A \in NonTerminal}
          = UNION {MarkedOver(project, processed, name) : name \in NamesOfRules}
    BY <2>2 DEF NamesOfRules
  <2>4. out_grammar.keeper[All] = Ngp!SetAt(out_grammar.keeper, All)
    BY <2>1 DEF Ngp!SetAt
  <2> QED BY <2>1, <2>2, <2>3, <2>4 DEF MergedAre
<1> QED
  BY <1>1, LoaderInvariant, PTL

-----------------------------------------------------------------------------
(* Loading comes to an end.                                                 *)

\* The names of a project that open a file, and all names that can be met.
Opening(x) == {name \in DownNames(x) : ContentIn(x, name) # <<>>}

KnownNames(x) == {x.start} \cup UNION {Imported(x, name) : name \in Opening(x)}

\* The image of a finite set under a function is finite, as is the range of a sequence.
LEMMA ImageFinite ==
  ASSUME NEW S, IsFiniteSet(S), NEW f, DOMAIN f = S
  PROVE  IsFiniteSet({f[s] : s \in S})
<1> DEFINE T == {f[s] : s \in S}
           g == [s \in S |-> f[s]]
<1>1. g \in Surjection(S, T)
  BY DEF Surjection
<1> QED
  BY <1>1, FS_Surjection

LEMMA NamesFinite ==
  ASSUME NEW T, NEW s \in Seq(T)
  PROVE  IsFiniteSet(Range(s))
<1>1. DOMAIN s = 1..Len(s) /\ Len(s) \in Nat
  OBVIOUS
<1>2. IsFiniteSet(DOMAIN s)
  BY <1>1, FS_Interval
<1>3. IsFiniteSet({s[n] : n \in DOMAIN s})
  BY <1>2, ImageFinite
<1> QED
  BY <1>3 DEF Range

\* As no two of these names open one file, there are as many of them as files at most.
LEMMA OpeningFinite ==
  ASSUME project \in Projects, IsFiniteSet(DOMAIN project.disk)
  PROVE  IsFiniteSet(Opening(project))
<1> DEFINE open == [name \in Opening(project) |-> Resolve(name)]
<1>1. \A name \in Opening(project) : name \in DownNames(project) /\ Resolve(name) \in DOMAIN project.disk
  BY ContentOf DEF Opening, Content
<1>2. open \in Injection(Opening(project), DOMAIN project.disk)
  <2>1. open \in [Opening(project) -> DOMAIN project.disk]
    BY <1>1
  <2>2. IsInjective(open)
    BY <1>1, DownNamesApart DEF IsInjective
  <2> QED
    BY <2>1, <2>2 DEF Injection
<1> QED
  BY <1>2, FS_Injection

LEMMA KnownFinite ==
  ASSUME project \in Projects, Downward(project), IsFiniteSet(DOMAIN project.disk)
  PROVE  IsFiniteSet(KnownNames(project))
<1> DEFINE sets == {Imported(project, name) : name \in Opening(project)}
           f == [name \in Opening(project) |-> Imported(project, name)]
<1>1. IsFiniteSet(sets)
  <2>1. sets = {f[name] : name \in Opening(project)}
    OBVIOUS
  <2>2. DOMAIN f = Opening(project)
    OBVIOUS
  <2> HIDE DEF sets, f
  <2> QED
    BY <2>1, <2>2, OpeningFinite, ImageFinite
<1>2. ASSUME NEW name \in Opening(project) PROVE IsFiniteSet(Imported(project, name))
  <2>1. name \in FileName
    BY DEF Opening, DownNames
  <2>2. ImportNames(name, Content(name)) \in Seq(FileName)
    BY <2>1, ContentIs, ImportNamesAre
  <2> QED
    BY <2>2, ContentOf, NamesFinite DEF Imported
<1>3. IsFiniteSet(UNION sets)
  BY <1>1, <1>2, FS_UNION
<1>4. IsFiniteSet({project.start})
  BY FS_Singleton
<1> QED
  BY <1>3, <1>4, FS_Union DEF KnownNames

\* A file that imports something is there, so its imports are known.
LEMMA KnownNamesImport ==
  ASSUME project \in Projects, Downward(project), NEW name \in KnownNames(project)
  PROVE  Range(ImportNames(name, Content(name))) \subseteq KnownNames(project)
<1>1. \A other : Imported(project, other) = Range(ImportNames(other, Content(other)))
  BY ContentOf DEF Imported
<1>2. project.start \in DownNames(project)
  BY ProjectsAssumption DEF DownNames, Downward
<1>3. name \in DownNames(project)
  <2>1. CASE name = project.start
    BY <1>2, <2>1
  <2>2. CASE name # project.start
    <3>1. PICK other \in Opening(project) : name \in Imported(project, other)
      BY <2>2 DEF KnownNames
    <3> QED
      BY <1>1, <3>1, DownNamesImport DEF Opening
  <2> QED
    BY <2>1, <2>2
<1>4. CASE Content(name) # <<>>
  BY <1>1, <1>3, <1>4, ContentOf DEF KnownNames, Opening
<1>5. CASE Content(name) = <<>>
  <2>1. name \in FileName /\ IsDiskFile(Content(name))
    BY <1>3, ContentIs DEF DownNames
  <2>2. ImportsIn(Content(name)) = <<>>
    BY <1>5, PickEmpty DEF ImportsIn
  <2>3. DOMAIN ImportNames(name, Content(name)) = {}
    BY <2>1, <2>2, ImportNamesAre
  <2> QED
    BY <2>3 DEF Range
<1> QED
  BY <1>4, <1>5

\* What is met is known.
MeetsKnown == Downward(project) => NamesIn(KnownNames(project))

LEMMA MeetsKnownStart == Init => MeetsKnown
<1> SUFFICES ASSUME Init PROVE NamesIn(KnownNames(project))
  BY DEF MeetsKnown
<1>1. queue = <<project.start>> /\ processed = <<>>
  BY DEF Init
<1>2. Range(queue) = {project.start} /\ Range(processed) = {}
  BY <1>1 DEF Range
<1> QED
  BY <1>2 DEF NamesIn, KnownNames

LEMMA MeetsKnownStep ==
  ASSUME LoaderTyped, MeetsKnown, [Next]_vars
  PROVE  MeetsKnown'
<1>1. CASE Next
  <2>1. project' = project
    BY <1>1, QueueStep
  <2>0. ASSUME ~ Downward(project) PROVE MeetsKnown'
    BY <2>0, <2>1 DEF MeetsKnown
  <2> SUFFICES ASSUME Downward(project) PROVE MeetsKnown'
    BY <2>0
  <2> DEFINE names == KnownNames(project)
  <2>2. \A name \in names : Range(ImportNames(name, Content(name))) \subseteq names
    BY KnownNamesImport DEF LoaderTyped
  <2>3. NamesIn(names)
    BY DEF MeetsKnown
  <2> PICK given : given = names
    OBVIOUS
  <2>4. NamesIn(given)'
    <3> HIDE DEF names
    <3> QED
      BY <1>1, <2>2, <2>3, NamesInStep
  <2> QED
    BY <2>1, <2>4 DEF MeetsKnown, NamesIn
<1>2. CASE UNCHANGED vars
  BY <1>2 DEF MeetsKnown, NamesIn, vars
<1> QED
  BY <1>1, <1>2

\* However files import each other by names that go down, no more names are ever read
\* than there are: the one that parse was given, and those that the files on disk import.
THEOREM NestedImportsAreBounded ==
  Spec => [](Downward(project) /\ IsFiniteSet(DOMAIN project.disk) =>
               /\ IsFiniteSet(KnownNames(project))
               /\ Range(queue) \cup Range(processed) \subseteq KnownNames(project)
               /\ Len(processed) <= Cardinality(KnownNames(project)))
<1>1. ASSUME LoaderTyped, NamesOnce, MeetsKnown, Downward(project), IsFiniteSet(DOMAIN project.disk)
      PROVE  /\ IsFiniteSet(KnownNames(project))
             /\ Range(queue) \cup Range(processed) \subseteq KnownNames(project)
             /\ Len(processed) <= Cardinality(KnownNames(project))
  <2>1. IsFiniteSet(KnownNames(project))
    BY <1>1, KnownFinite DEF LoaderTyped
  <2>2. Range(queue) \cup Range(processed) \subseteq KnownNames(project)
    BY <1>1 DEF MeetsKnown, NamesIn
  <2>3. processed \in Seq(FileName)
    BY <1>1 DEF LoaderTyped
  <2> DEFINE k == Len(processed)
             read == [n \in 1..k |-> processed[n]]
  <2>4. k \in Nat /\ DOMAIN processed = 1..k
    BY <2>3
  <2>5. read \in Injection(1..k, KnownNames(project))
    <3>1. \A n \in 1..k : processed[n] \in KnownNames(project)
      BY <2>2, <2>4 DEF Range
    <3>2. IsInjective(read)
      BY <1>1, <2>4 DEF NamesOnce, IsInjective
    <3> QED
      BY <3>1, <3>2 DEF Injection
  <2>6. Cardinality(1..k) <= Cardinality(KnownNames(project))
    <3> HIDE DEF read, k
    <3> QED
      BY <2>1, <2>5, FS_Injection
  <2>7. Cardinality(1..k) = k
    <3> HIDE DEF read, k
    <3>1. Cardinality(1..k) = IF 1 > k THEN 0 ELSE k - 1 + 1
      BY <2>4, FS_Interval
    <3> QED
      BY <2>4, <3>1
  <2> QED
    BY <2>1, <2>2, <2>6, <2>7
<1>2. LoaderInv => LoaderTyped /\ NamesOnce
  BY DEF LoaderInv
<1>3. Spec => []MeetsKnown
  <2>1. LoaderInv /\ MeetsKnown /\ [Next]_vars => MeetsKnown'
    BY <1>2, MeetsKnownStep
  <2> QED
    BY <2>1, MeetsKnownStart, LoaderInvariant, PTL DEF Spec
<1> QED
  BY <1>1, <1>2, <1>3, LoaderInvariant, PTL

\* Every turn of parse's loop reads a name for the first time or leaves fewer names in
\* the queue.
THEOREM TurnsGoForward ==
  Spec => [][ReadFile \/ SkipFile =>
               \/ /\ queue[1] \notin Range(processed)
                  /\ processed' = Append(processed, queue[1])
               \/ /\ UNCHANGED processed
                  /\ Range(queue') \subseteq Range(queue) \ {queue[1]}
                  /\ queue[1] \in Range(queue)]_vars
<1>1. ASSUME LoaderTyped, ReadFile \/ SkipFile
      PROVE  \/ /\ queue[1] \notin Range(processed)
                /\ processed' = Append(processed, queue[1])
             \/ /\ UNCHANGED processed
                /\ Range(queue') \subseteq Range(queue) \ {queue[1]}
                /\ queue[1] \in Range(queue)
  <2>1. CASE ReadFile
    BY <2>1 DEF ReadFile
  <2>2. CASE SkipFile
    <3>1. /\ processed' = processed /\ queue' = Without(queue, queue[1])
          /\ queue # <<>>
      BY <2>2 DEF SkipFile
    <3>2. queue \in Seq(FileName)
      BY <1>1 DEF LoaderTyped
    <3>3. queue[1] \in Range(queue)
      BY <3>1, <3>2 DEF Range
    <3>4. \A x : x \in Range(Without(queue, queue[1])) <=> x \in Range(queue) /\ x # queue[1]
      BY <3>2, WithoutRange
    <3> QED
      BY <3>1, <3>3, <3>4
  <2> QED
    BY <1>1, <2>1, <2>2
<1>2. LoaderInv => LoaderTyped
  BY DEF LoaderInv
<1> QED
  BY <1>1, <1>2, LoaderInvariant, PTL

=============================================================================
