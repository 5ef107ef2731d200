----------------------- MODULE SequentialParserProofs -----------------------
(* Theorems about SequentialParser and their proofs.  The argument follows   *)
(* the two cursors: where they are in the file, then what rules, kept        *)
(* operands and tokens the parser has of the part of the file before them.   *)
(* At the end of the file that part is all of it.                            *)
EXTENDS SequentialParser, SequenceFacts, FiniteSetTheorems

-----------------------------------------------------------------------------
(* The matches of the second lexer.                                         *)

\* How many matches of the first lexer one match of the second takes up.
Width(file, p) ==
  IF Match(file, p) = "AXIOM" THEN 3
  ELSE IF Match(file, p) \in {"TOKEN", "LSIDE"} THEN 2
  ELSE 1

\* A file is a sequence of matches of the first lexer.
LEMMA FileIsSequence ==
  ASSUME NEW file, IsFile(file)
  PROVE  /\ file \in Seq(Range(file)) /\ DOMAIN file = 1..Len(file) /\ Len(file) \in Nat
         /\ \A p \in 1..Len(file) : file[p] \in Range(file) /\ IsToken(file[p])
<1>1. file \in Seq(Range(file)) /\ \A token \in Range(file) : IsToken(token)
  BY DEF IsFile
<1>2. DOMAIN file = 1..Len(file) /\ Len(file) \in Nat
  BY <1>1
<1> QED
  BY <1>1, <1>2, Zenon DEF Range

\* Its places are numbers.
LEMMA PlaceIsInt ==
  ASSUME NEW file, IsFile(file), NEW p \in 1..Len(file)
  PROVE  Len(file) \in Nat /\ p \in Int
<1>1. Len(file) \in Nat
  BY FileIsSequence, Zenon
<1> QED
  BY <1>1

\* Where the second lexer's AXIOM pattern matches, without the quantifier of
\* its definition.
LEMMA AxiomAtDef ==
  ASSUME NEW file, IsFile(file), NEW p \in Int
  PROVE  AxiomAt(file, p) <=>
           /\ p \in 1..Len(file) /\ p + 2 \in 1..Len(file)
           /\ file[p].type = "AXIOM" /\ file[p + 1].type = "EQUAL"
           /\ file[p + 2].type = "NONTERMINAL"
<1> DEFINE t == <<"AXIOM", "EQUAL", "NONTERMINAL">>
<1>1. /\ Len(t) = 3 /\ DOMAIN t = {1, 2, 3}
      /\ t[1] = "AXIOM" /\ t[2] = "EQUAL" /\ t[3] = "NONTERMINAL"
  OBVIOUS
<1> HIDE DEF t
<1>2. AxiomAt(file, p) <=>
        /\ p \in 1..Len(file) /\ p + 3 - 1 \in 1..Len(file)
        /\ \A q \in {1, 2, 3} : file[p + q - 1].type = t[q]
  BY <1>1, FileIsSequence, Zenon DEF AxiomAt, TypesAt, t
<1>3. p + 3 - 1 = p + 2 /\ p + 1 - 1 = p /\ p + 2 - 1 = p + 1
  OBVIOUS
<1> QED
  BY <1>1, <1>2, <1>3

\* The same for TOKEN.
LEMMA TokenAtDef ==
  ASSUME NEW file, IsFile(file), NEW p \in Int
  PROVE  TokenAt(file, p) <=>
           /\ p \in 1..Len(file) /\ p + 1 \in 1..Len(file)
           /\ file[p].type = "TERMINAL" /\ file[p + 1].type = "REGEX"
<1> DEFINE t == <<"TERMINAL", "REGEX">>
<1>1. Len(t) = 2 /\ DOMAIN t = {1, 2} /\ t[1] = "TERMINAL" /\ t[2] = "REGEX"
  OBVIOUS
<1> HIDE DEF t
<1>2. TokenAt(file, p) <=>
        /\ p \in 1..Len(file) /\ p + 2 - 1 \in 1..Len(file)
        /\ \A q \in {1, 2} : file[p + q - 1].type = t[q]
  BY <1>1, FileIsSequence, Zenon DEF TokenAt, TypesAt, t
<1>3. p + 1 - 1 = p /\ p + 2 - 1 = p + 1
  OBVIOUS
<1> QED
  BY <1>1, <1>2, <1>3

\* The same for LSIDE, which the axiom's own name does not start.
LEMMA LeftSideAtDef ==
  ASSUME NEW file, IsFile(file), NEW p \in Int
  PROVE  LeftSideAt(file, p) <=>
           /\ p \in 1..Len(file) /\ p + 1 \in 1..Len(file)
           /\ file[p].type = "NONTERMINAL" /\ file[p + 1].type = "EQUAL"
           /\ ~ AxiomAt(file, p - 2)
<1> DEFINE t == <<"NONTERMINAL", "EQUAL">>
<1>1. Len(t) = 2 /\ DOMAIN t = {1, 2} /\ t[1] = "NONTERMINAL" /\ t[2] = "EQUAL"
  OBVIOUS
<1> HIDE DEF t
<1>2. LeftSideAt(file, p) <=>
        /\ p \in 1..Len(file) /\ p + 2 - 1 \in 1..Len(file)
        /\ \A q \in {1, 2} : file[p + q - 1].type = t[q]
        /\ ~ AxiomAt(file, p - 2)
  BY <1>1, FileIsSequence, Zenon DEF LeftSideAt, TypesAt, t
<1>3. p + 1 - 1 = p /\ p + 2 - 1 = p + 1
  OBVIOUS
<1> QED
  BY <1>1, <1>2, <1>3

\* The kind of a match says what is at its place.
LEMMA MatchKinds ==
  ASSUME NEW file, IsFile(file), NEW p \in 1..Len(file), Match(file, p) # NoMatch
  PROVE  /\ ~ Inside(file, p)
         /\ \/ Match(file, p) = "AXIOM" /\ AxiomAt(file, p)
            \/ Match(file, p) = "TOKEN" /\ TokenAt(file, p) /\ ~ AxiomAt(file, p)
            \/ Match(file, p) = "LSIDE" /\ LeftSideAt(file, p)
            \/ /\ ~ AxiomAt(file, p) /\ ~ TokenAt(file, p) /\ ~ LeftSideAt(file, p)
               /\ \/ Match(file, p) = "OR" /\ file[p].type = "OR"
                  \/ Match(file, p) = "LINECOMMENT" /\ file[p].type = "LINECOMMENT"
                  \/ Match(file, p) = "RSIDE" /\ file[p].type \in OperandTypes \cup Operators
<1>1. ~ Inside(file, p)
  BY DEF Match, NoMatch
<1>0. Len(file) \in Nat /\ p \in Int
  BY PlaceIsInt
<1>2. CASE AxiomAt(file, p)
  <2>1. ~ TokenAt(file, p) /\ ~ LeftSideAt(file, p)
    BY <1>0, <1>2, AxiomAtDef, TokenAtDef, LeftSideAtDef
  <2> QED BY <1>1, <1>2, <2>1 DEF Match, NoMatch
<1>3. CASE ~ AxiomAt(file, p) /\ TokenAt(file, p)
  <2>1. ~ LeftSideAt(file, p)
    BY <1>0, <1>3, TokenAtDef, LeftSideAtDef
  <2> QED BY <1>1, <1>3, <2>1 DEF Match, NoMatch
<1>4. CASE ~ AxiomAt(file, p) /\ ~ TokenAt(file, p) /\ LeftSideAt(file, p)
  BY <1>1, <1>4 DEF Match, NoMatch
<1>5. CASE ~ AxiomAt(file, p) /\ ~ TokenAt(file, p) /\ ~ LeftSideAt(file, p)
  BY <1>1, <1>5 DEF NoMatch, Match, OperandTypes, Operators
<1> QED
  BY <1>1, <1>2, <1>3, <1>4, <1>5

\* A match of the second lexer lies inside the file.
LEMMA WidthFits ==
  ASSUME NEW file, IsFile(file), NEW p \in 1..Len(file), Match(file, p) # NoMatch
  PROVE  Width(file, p) \in 1..3 /\ p + Width(file, p) <= Len(file) + 1
<1>0. Len(file) \in Nat /\ p \in Int
  BY PlaceIsInt
<1>1. CASE AxiomAt(file, p) /\ Match(file, p) = "AXIOM"
  BY <1>0, <1>1, AxiomAtDef DEF Width
<1>2. CASE TokenAt(file, p) /\ Match(file, p) = "TOKEN"
  BY <1>0, <1>2, TokenAtDef DEF Width
<1>3. CASE LeftSideAt(file, p) /\ Match(file, p) = "LSIDE"
  BY <1>0, <1>3, LeftSideAtDef DEF Width
<1>4. CASE Match(file, p) \in {"OR", "LINECOMMENT", "RSIDE"}
  <2>1. Width(file, p) = 1
    BY <1>4 DEF Width
  <2> QED BY <1>0, <2>1
<1> QED
  BY <1>1, <1>2, <1>3, <1>4, MatchKinds

\* No match starts inside another one.
LEMMA CoveredIsInside ==
  ASSUME NEW file, IsFile(file), NEW p \in 1..Len(file), Match(file, p) # NoMatch,
         NEW q \in Int, p < q, q < p + Width(file, p)
  PROVE  Inside(file, q)
<1>0. Len(file) \in Nat /\ p \in Int
  BY PlaceIsInt
<1>1. CASE AxiomAt(file, p) /\ Match(file, p) = "AXIOM"
  <2>1. q - 1 = p \/ q - 2 = p
    BY <1>0, <1>1 DEF Width
  <2> QED BY <1>1, <2>1, Zenon DEF Inside
<1>2. CASE TokenAt(file, p) /\ Match(file, p) = "TOKEN"
  <2>1. q - 1 = p
    BY <1>0, <1>2 DEF Width
  <2> QED BY <1>2, <2>1, Zenon DEF Inside
<1>3. CASE LeftSideAt(file, p) /\ Match(file, p) = "LSIDE"
  <2>1. q - 1 = p
    BY <1>0, <1>3 DEF Width
  <2> QED BY <1>3, <2>1, Zenon DEF Inside
<1>4. CASE Match(file, p) \in {"OR", "LINECOMMENT", "RSIDE"}
  <2>1. Width(file, p) = 1
    BY <1>4 DEF Width
  <2> QED BY <1>0, <2>1
<1> QED
  BY <1>1, <1>2, <1>3, <1>4, MatchKinds

\* The place behind a match is inside no match.
LEMMA BehindIsOutside ==
  ASSUME NEW file, IsFile(file), NEW p \in 1..Len(file), Match(file, p) # NoMatch
  PROVE  ~ Inside(file, p + Width(file, p))
<1> DEFINE q == p + Width(file, p)
<1>0. Len(file) \in Nat /\ p \in Int
  BY PlaceIsInt
<1>1. CASE AxiomAt(file, p) /\ Match(file, p) = "AXIOM"
  <2>1. q = p + 3 /\ q - 1 = p + 2 /\ q - 2 = p + 1 /\ (q - 1) - 2 = p
    BY <1>0, <1>1 DEF Width
  <2>2. ~ AxiomAt(file, p + 2) /\ ~ AxiomAt(file, p + 1) /\ ~ TokenAt(file, p + 2)
    BY <1>1, AxiomAtDef, TokenAtDef
  <2>3. ~ LeftSideAt(file, q - 1)
    BY <2>1, <1>1 DEF LeftSideAt
  <2> HIDE DEF q
  <2>4. ~ Inside(file, q)
    BY <2>1, <2>2, <2>3 DEF Inside
  <2> QED BY <2>4 DEF q
<1>2. CASE TokenAt(file, p) /\ Match(file, p) = "TOKEN"
  <2>1. q = p + 2 /\ q - 1 = p + 1 /\ q - 2 = p
    BY <1>0, <1>2 DEF Width
  <2>2. /\ ~ AxiomAt(file, p + 1) /\ ~ AxiomAt(file, p) /\ ~ TokenAt(file, p + 1)
        /\ ~ LeftSideAt(file, p + 1)
    BY <1>2, AxiomAtDef, TokenAtDef, LeftSideAtDef
  <2> HIDE DEF q
  <2>3. ~ Inside(file, q)
    BY <2>1, <2>2 DEF Inside
  <2> QED BY <2>3 DEF q
<1>3. CASE LeftSideAt(file, p) /\ Match(file, p) = "LSIDE"
  <2>1. q = p + 2 /\ q - 1 = p + 1 /\ q - 2 = p
    BY <1>0, <1>3 DEF Width
  <2>2. /\ ~ AxiomAt(file, p + 1) /\ ~ AxiomAt(file, p) /\ ~ TokenAt(file, p + 1)
        /\ ~ LeftSideAt(file, p + 1)
    BY <1>3, AxiomAtDef, TokenAtDef, LeftSideAtDef
  <2> HIDE DEF q
  <2>3. ~ Inside(file, q)
    BY <2>1, <2>2 DEF Inside
  <2> QED BY <2>3 DEF q
<1>4. CASE /\ Match(file, p) \in {"OR", "LINECOMMENT", "RSIDE"}
           /\ ~ AxiomAt(file, p) /\ ~ TokenAt(file, p) /\ ~ LeftSideAt(file, p)
           /\ ~ Inside(file, p)
  <2>0. Width(file, p) = 1
    BY <1>4 DEF Width
  <2>1. q = p + 1 /\ q - 1 = p /\ q - 2 = p - 1
    BY <1>0, <2>0
  <2>2. ~ AxiomAt(file, p - 1)
    BY <1>4 DEF Inside
  <2> HIDE DEF q
  <2>3. ~ Inside(file, q)
    BY <2>1, <2>2, <1>4 DEF Inside
  <2> QED BY <2>3 DEF q
<1> QED
  BY <1>1, <1>2, <1>3, <1>4, MatchKinds
-----------------------------------------------------------------------------
(* The cursors.                                                             *)

\* The matches of the second lexer are the places where it matches, in order,
\* each with its type.
LEMMA StartsAre ==
  ASSUME NEW file, IsFile(file)
  PROVE  /\ Starts(file) \in Seq(1..Len(file))
         /\ Ascending(Starts(file))
         /\ \A x : x \in Range(Starts(file)) <=> x \in 1..Len(file) /\ Match(file, x) # NoMatch
         /\ Len(SecondLexer(file)) = Len(Starts(file))
         /\ \A m \in 1..Len(Starts(file)) : SecondLexer(file)[m] = Match(file, Starts(file)[m])
<1> DEFINE K == MatchPlaces(file)
           s == [p \in DOMAIN file |-> Match(file, p)]
           T == {Match(file, p) : p \in DOMAIN file}
<1>1. DOMAIN file = 1..Len(file) /\ Len(file) \in Nat
  BY FileIsSequence, Zenon
<1>2. \A x : x \in 1..Len(file) /\ x \in K <=> x \in 1..Len(file) /\ Match(file, x) # NoMatch
  BY <1>1 DEF MatchPlaces
<1>3. s \in Seq(T) /\ Len(s) = Len(file) /\ \A p \in 1..Len(file) : s[p] = Match(file, p)
  BY <1>1
<1> HIDE DEF K, s, T
<1>4. Starts(file) = Enumerate(K, Len(file)) /\ SecondLexer(file) = Pick(s, K)
  BY DEF Starts, SecondLexer, K, s
<1>5. /\ Enumerate(K, Len(file)) \in Seq(1..Len(file))
      /\ Ascending(Enumerate(K, Len(file)))
      /\ \A x : x \in Range(Enumerate(K, Len(file))) <=> x \in 1..Len(file) /\ x \in K
  BY <1>1, EnumerateType, EnumerateAscending, EnumerateRange
<1>6. /\ Len(Pick(s, K)) = Len(Enumerate(K, Len(file)))
      /\ \A m \in 1..Len(Pick(s, K)) : Pick(s, K)[m] = s[Enumerate(K, Len(file))[m]]
  BY <1>3, PickPlaces
<1>7. \A m \in 1..Len(Starts(file)) : Starts(file)[m] \in 1..Len(file)
  BY <1>4, <1>5
<1>8. \A m \in 1..Len(Starts(file)) : SecondLexer(file)[m] = Match(file, Starts(file)[m])
  BY <1>3, <1>4, <1>6, <1>7
<1> QED
  BY <1>2, <1>4, <1>5, <1>6, <1>8

\* The place of the match that is read next, from the number of matches read.
NextStart(file, op) ==
  IF op < Len(Starts(file)) THEN Starts(file)[op + 1] ELSE Len(file) + 1

\* No place before this one is left out by the second lexer.
NoStrayBefore(file, q) == \A p \in 1..(q - 1) : ~ Stray(file, p)

\* After op matches comes a place where the second lexer matches, or the end.
LEMMA NextStartIs ==
  ASSUME NEW file, IsFile(file), NEW op \in 0..Len(Starts(file))
  PROVE  /\ Len(file) \in Nat /\ Len(Starts(file)) \in Nat
         /\ NextStart(file, op) \in 1..(Len(file) + 1)
         /\ op < Len(Starts(file)) =>
              /\ NextStart(file, op) \in 1..Len(file)
              /\ Match(file, NextStart(file, op)) # NoMatch
              /\ SecondLexer(file)[op + 1] = Match(file, NextStart(file, op))
              /\ NextStart(file, op) < NextStart(file, op + 1)
<1> DEFINE s == Starts(file)
<1>1. /\ s \in Seq(1..Len(file)) /\ Ascending(s)
      /\ \A x : x \in Range(s) => Match(file, x) # NoMatch
      /\ \A m \in 1..Len(s) : SecondLexer(file)[m] = Match(file, s[m])
  BY StartsAre
<1>2. Len(file) \in Nat
  BY FileIsSequence, Zenon
<1>3. Len(s) \in Nat /\ DOMAIN s = 1..Len(s) /\ \A m \in 1..Len(s) : s[m] \in 1..Len(file)
  BY <1>1
<1>4. CASE op < Len(s)
  <2>1. op + 1 \in 1..Len(s) /\ op \in Int
    BY <1>3, <1>4 DEF s
  <2>2. NextStart(file, op) = s[op + 1] /\ s[op + 1] \in Range(s) /\ s[op + 1] \in 1..Len(file)
    BY <1>3, <1>4, <2>1 DEF NextStart, s, Range
  <2>3. s[op + 1] < NextStart(file, op + 1)
    <3>1. CASE op + 1 < Len(s)
      <4>1. (op + 1) + 1 \in 1..Len(s) /\ op + 1 < (op + 1) + 1
        BY <1>3, <2>1, <3>1
      <4>2. s[op + 1] < s[(op + 1) + 1]
        BY <1>1, <1>3, <2>1, <4>1, Zenon DEF Ascending
      <4> QED BY <3>1, <4>2 DEF NextStart, s
    <3>2. CASE ~ (op + 1 < Len(s))
      BY <1>2, <2>2, <3>2 DEF NextStart, s
    <3> QED BY <3>1, <3>2
  <2>4. Match(file, s[op + 1]) # NoMatch /\ SecondLexer(file)[op + 1] = Match(file, s[op + 1])
    BY <1>1, <2>1, <2>2
  <2> QED BY <1>2, <1>3, <2>2, <2>3, <2>4 DEF s
<1>5. CASE ~ (op < Len(s))
  BY <1>2, <1>3, <1>5 DEF NextStart, s
<1> QED
  BY <1>4, <1>5

\* No match starts between two matches that follow each other.
LEMMA NothingBetween ==
  ASSUME NEW file, IsFile(file), NEW op \in 0..Len(Starts(file)), NEW q \in 1..Len(file),
         q < NextStart(file, op), op # 0 => NextStart(file, op - 1) < q
  PROVE  Match(file, q) = NoMatch
<1> DEFINE s == Starts(file)
<1>1. /\ s \in Seq(1..Len(file)) /\ Ascending(s)
      /\ \A x : x \in Range(s) <=> x \in 1..Len(file) /\ Match(file, x) # NoMatch
  BY StartsAre
<1>2. Len(file) \in Nat /\ q \in Int
  BY PlaceIsInt
<1> SUFFICES ASSUME Match(file, q) # NoMatch PROVE FALSE
  OBVIOUS
<1> USE DEF s
<1>3. /\ Len(s) \in Nat /\ DOMAIN s = 1..Len(s)
      /\ \A m \in 1..Len(s) : s[m] \in 1..Len(file)
      /\ \A m, n \in 1..Len(s) : m < n => s[m] < s[n]
  BY <1>1 DEF Ascending
<1>4. PICK k \in 1..Len(s) : q = s[k]
  <2>1. q \in Range(s)
    BY <1>1
  <2> QED BY <1>3, <2>1, Zenon DEF Range
<1>5. op \in 0..Len(s)
  BY DEF s
<1>6. k <= op
  <2>1. SUFFICES ASSUME op < k PROVE FALSE
    BY <1>3, <1>5
  <2>2. op < Len(s) /\ op + 1 \in 1..Len(s) /\ (op + 1 = k \/ op + 1 < k)
    BY <1>3, <1>5, <2>1
  <2>3. s[op + 1] = s[k] \/ s[op + 1] < s[k]
    BY <1>3, <2>2
  <2>4. NextStart(file, op) = s[op + 1]
    BY <2>2 DEF NextStart, s
  <2>5. s[k] \in Int /\ s[op + 1] \in Int
    BY <1>2, <1>3, <2>2
  <2> QED BY <1>4, <2>3, <2>4, <2>5
<1>7. op # 0
  BY <1>3, <1>6
<1>8. op - 1 < Len(s) /\ (op - 1) + 1 = op /\ op \in 1..Len(s)
  BY <1>3, <1>5, <1>7
<1>9. NextStart(file, op - 1) = s[op]
  BY <1>8 DEF NextStart, s
<1>10. s[k] = s[op] \/ s[k] < s[op]
  BY <1>3, <1>6, <1>8
<1>11. s[k] \in Int /\ s[op] \in Int
  BY <1>2, <1>3, <1>8
<1> QED
  BY <1>4, <1>7, <1>9, <1>10, <1>11

\* A match is followed by the next one, or by tokens that belong to none.
LEMMA NextStartBehind ==
  ASSUME NEW file, IsFile(file), NEW op \in 0..Len(Starts(file)), op < Len(Starts(file))
  PROVE  /\ NextStart(file, op) + Width(file, NextStart(file, op)) <= NextStart(file, op + 1)
         /\ NoStrayBefore(file, NextStart(file, op + 1)) =>
              NextStart(file, op + 1) = NextStart(file, op) + Width(file, NextStart(file, op))
<1> DEFINE p == NextStart(file, op)
           next == NextStart(file, op + 1)
           w == Width(file, p)
<1>1. /\ Len(file) \in Nat /\ p \in 1..Len(file) /\ Match(file, p) # NoMatch
      /\ p < next /\ op + 1 \in 0..Len(Starts(file)) /\ (op + 1) - 1 = op /\ op + 1 # 0
  BY NextStartIs
<1>2. /\ next \in 1..(Len(file) + 1)
      /\ next \in 1..Len(file) => Match(file, next) # NoMatch
  <2> DEFINE o == op + 1
  <2>1. o \in 0..Len(Starts(file))
    BY <1>1
  <2> HIDE DEF o
  <2>2. /\ NextStart(file, o) \in 1..(Len(file) + 1)
        /\ o < Len(Starts(file)) => Match(file, NextStart(file, o)) # NoMatch
        /\ ~ (o < Len(Starts(file))) => NextStart(file, o) = Len(file) + 1
    <3>1. /\ NextStart(file, o) \in 1..(Len(file) + 1)
          /\ o < Len(Starts(file)) => Match(file, NextStart(file, o)) # NoMatch
      BY <2>1, NextStartIs
    <3> QED BY <3>1 DEF NextStart
  <2>3. Len(file) + 1 \notin 1..Len(file)
    BY <1>1
  <2> QED BY <2>2, <2>3 DEF o
<1>3. w \in 1..3 /\ p + w <= Len(file) + 1
  BY <1>1, WidthFits
<1>4. p + w <= next
  <2>1. SUFFICES ASSUME next < p + w PROVE FALSE
    BY <1>1, <1>2, <1>3
  <2>2. next \in 1..Len(file) /\ next \in Int
    BY <1>1, <1>2, <1>3, <2>1
  <2>3. Inside(file, next)
    BY <1>1, <2>1, <2>2, CoveredIsInside
  <2> QED BY <1>2, <2>2, <2>3 DEF Match
<1>5. ASSUME NoStrayBefore(file, next) PROVE next = p + w
  <2>1. SUFFICES ASSUME p + w < next PROVE FALSE
    BY <1>1, <1>2, <1>3, <1>4
  <2> DEFINE q == p + w
  <2>2. q \in 1..Len(file) /\ q < next /\ p < q /\ q \in 1..(next - 1)
    BY <1>1, <1>2, <1>3, <2>1
  <2>3. ~ Inside(file, q)
    BY <1>1, BehindIsOutside
  <2> HIDE DEF q
  <2>4. Match(file, q) = NoMatch
    <3> DEFINE o == op + 1
    <3>1. o \in 0..Len(Starts(file)) /\ q < NextStart(file, o) /\ NextStart(file, o - 1) < q
      BY <1>1, <2>2
    <3> HIDE DEF o
    <3> QED BY <2>2, <3>1, NothingBetween
  <2> QED BY <1>5, <2>2, <2>3, <2>4 DEF NoStrayBefore, Stray
<1> QED
  BY <1>4, <1>5

\* Nothing stray before the first match: it is at the file's start.
LEMMA FirstStart ==
  ASSUME NEW file, IsFile(file), NoStrayBefore(file, NextStart(file, 0))
  PROVE  NextStart(file, 0) = 1
<1>1. Len(Starts(file)) \in Nat /\ Len(file) \in Nat /\ NextStart(file, 0) \in 1..(Len(file) + 1)
  <2>1. Starts(file) \in Seq(1..Len(file))
    BY StartsAre
  <2>2. 0 \in 0..Len(Starts(file))
    BY <2>1
  <2> QED BY <2>2, NextStartIs
<1>2. SUFFICES ASSUME 1 < NextStart(file, 0) PROVE FALSE
  BY <1>1
<1>3. 1 \in 1..Len(file) /\ 0 \in 0..Len(Starts(file)) /\ 1 \in 1..(NextStart(file, 0) - 1)
  BY <1>1, <1>2
<1>4. Match(file, 1) = NoMatch
  BY <1>2, <1>3, NothingBetween
<1>5. ~ Inside(file, 1)
  <2>1. 1 - 1 = 0 /\ 1 - 2 = -1 /\ 0 \in Int /\ -1 \in Int
    OBVIOUS
  <2>2. 0 \notin 1..Len(file) /\ -1 \notin 1..Len(file)
    BY <1>1
  <2>3. ~ AxiomAt(file, 0) /\ ~ TokenAt(file, 0) /\ ~ LeftSideAt(file, 0) /\ ~ AxiomAt(file, -1)
    BY <2>1, <2>2, AxiomAtDef, TokenAtDef, LeftSideAtDef
  <2> QED BY <2>1, <2>3 DEF Inside
<1> QED
  BY <1>3, <1>4, <1>5 DEF NoStrayBefore, Stray

\* tok_count is not behind the match under op_count, and where it was skipped
\* over nothing it is at it.
Placed(file, op, tok) ==
  /\ op \in 0..Len(Starts(file))
  /\ tok \in Nat
  /\ tok + 1 <= NextStart(file, op)
  /\ NoStrayBefore(file, NextStart(file, op)) => tok + 1 = NextStart(file, op)

\* Both cursors start at the file's start.
LEMMA PlacedAtFirst ==
  ASSUME NEW file, IsFile(file)
  PROVE  Placed(file, 0, 0)
<1>1. Len(Starts(file)) \in Nat /\ 0 \in 0..Len(Starts(file))
  <2>1. Starts(file) \in Seq(1..Len(file))
    BY StartsAre
  <2> QED BY <2>1
<1>2. NextStart(file, 0) \in 1..(Len(file) + 1) /\ Len(file) \in Nat
  BY <1>1, NextStartIs
<1>3. NoStrayBefore(file, NextStart(file, 0)) => NextStart(file, 0) = 1
  BY FirstStart
<1> QED
  BY <1>1, <1>2, <1>3 DEF Placed

\* A match read by both cursors keeps them in step.
LEMMA PlacedAdvance ==
  ASSUME NEW file, IsFile(file), NEW op, NEW tok, Placed(file, op, tok),
         op < Len(Starts(file))
  PROVE  Placed(file, op + 1, tok + Width(file, NextStart(file, op)))
<1> DEFINE p == NextStart(file, op)
           next == NextStart(file, op + 1)
           w == Width(file, p)
<1>1. /\ op \in 0..Len(Starts(file)) /\ tok \in Nat /\ tok + 1 <= p
      /\ NoStrayBefore(file, p) => tok + 1 = p
  BY DEF Placed
<1>2. /\ Len(Starts(file)) \in Nat /\ Len(file) \in Nat /\ p \in 1..Len(file)
      /\ Match(file, p) # NoMatch /\ p < next
  BY <1>1, NextStartIs
<1>3. w \in 1..3
  BY <1>2, WidthFits
<1>4. p + w <= next /\ (NoStrayBefore(file, next) => next = p + w)
  BY <1>1, NextStartBehind
<1>5. op + 1 \in 0..Len(Starts(file)) /\ tok + w \in Nat
  BY <1>1, <1>2, <1>3
<1>5a. next \in 1..(Len(file) + 1)
  <2> DEFINE o == op + 1
  <2> HIDE DEF o
  <2>1. o \in 0..Len(Starts(file))
    BY <1>5 DEF o
  <2>2. NextStart(file, o) \in 1..(Len(file) + 1)
    BY <2>1, NextStartIs
  <2> QED BY <2>2 DEF o
<1>6. NoStrayBefore(file, next) => NoStrayBefore(file, p)
  <2>1. \A x \in 1..(p - 1) : x \in 1..(next - 1)
    BY <1>2, <1>5a
  <2> QED BY <2>1 DEF NoStrayBefore
<1> HIDE DEF p, next, w
<1>7. (tok + w) + 1 <= next /\ (NoStrayBefore(file, next) => (tok + w) + 1 = next)
  BY <1>1, <1>2, <1>3, <1>4, <1>5a, <1>6
<1> QED
  BY <1>5, <1>7 DEF Placed, p, next, w
-----------------------------------------------------------------------------
(* The cursors of a parse.                                                  *)

\* The cursor of the second lexer's matches and the cursor of the first's are
\* at the same place of the file, but for the places left out.
InPlace ==
  /\ IsFile(parsedtokens)
  /\ grammar = SecondLexer(parsedtokens)
  /\ Placed(parsedtokens, op_count, tok_count)

\* The place of the match that grammar[op_count] stands for.
Here == NextStart(parsedtokens, op_count)

\* What the cursors are at: a match of the second lexer that begins here.
LEMMA HereIs ==
  ASSUME InPlace
  PROVE  /\ Len(parsedtokens) \in Nat /\ Len(grammar) \in Nat
         /\ op_count \in 0..Len(grammar) /\ tok_count \in 0..Len(parsedtokens)
         /\ Here \in 1..(Len(parsedtokens) + 1) /\ tok_count + 1 <= Here
         /\ NoStrayBefore(parsedtokens, Here) => tok_count + 1 = Here
         /\ StillParsing =>
              /\ Here \in 1..Len(parsedtokens)
              /\ Match(parsedtokens, Here) # NoMatch
              /\ grammar[op_count + 1] = Match(parsedtokens, Here)
              /\ tok_count + Width(parsedtokens, Here) \in 1..Len(parsedtokens)
              /\ Width(parsedtokens, Here) \in 1..3
<1>1. /\ IsFile(parsedtokens) /\ grammar = SecondLexer(parsedtokens)
      /\ op_count \in 0..Len(Starts(parsedtokens)) /\ tok_count \in Nat
      /\ tok_count + 1 <= Here
      /\ NoStrayBefore(parsedtokens, Here) => tok_count + 1 = Here
  BY DEF InPlace, Placed, Here
<1>2. /\ Len(parsedtokens) \in Nat /\ Len(Starts(parsedtokens)) \in Nat
      /\ Here \in 1..(Len(parsedtokens) + 1)
      /\ op_count < Len(Starts(parsedtokens)) =>
           /\ Here \in 1..Len(parsedtokens)
           /\ Match(parsedtokens, Here) # NoMatch
           /\ SecondLexer(parsedtokens)[op_count + 1] = Match(parsedtokens, Here)
  BY <1>1, NextStartIs DEF Here
<1>3. Len(grammar) = Len(Starts(parsedtokens))
  BY <1>1, StartsAre
<1>4. ASSUME StillParsing
      PROVE  /\ tok_count + Width(parsedtokens, Here) \in 1..Len(parsedtokens)
             /\ Width(parsedtokens, Here) \in 1..3
  <2>1. Here \in 1..Len(parsedtokens) /\ Match(parsedtokens, Here) # NoMatch
    BY <1>2, <1>3, <1>4 DEF StillParsing
  <2>2. /\ Width(parsedtokens, Here) \in 1..3
        /\ Here + Width(parsedtokens, Here) <= Len(parsedtokens) + 1
    BY <1>1, <2>1, WidthFits
  <2> QED BY <1>1, <1>2, <2>1, <2>2
<1>5. tok_count \in 0..Len(parsedtokens)
  BY <1>1, <1>2
<1> QED
  BY <1>1, <1>2, <1>3, <1>4, <1>5 DEF StillParsing

\* Reading a match of its own width keeps the cursors in place.
LEMMA InPlaceAdvance ==
  ASSUME InPlace, StillParsing, UNCHANGED input,
         op_count' = op_count + 1,
         tok_count' = tok_count + Width(parsedtokens, Here)
  PROVE  InPlace'
<1>1. /\ IsFile(parsedtokens) /\ grammar = SecondLexer(parsedtokens)
      /\ Placed(parsedtokens, op_count, tok_count)
  BY DEF InPlace
<1>2. op_count < Len(Starts(parsedtokens))
  BY <1>1, StartsAre DEF StillParsing
<1>3. Placed(parsedtokens, op_count + 1, tok_count + Width(parsedtokens, Here))
  BY <1>1, <1>2, PlacedAdvance DEF Here
<1>4. Placed(parsedtokens', op_count', tok_count')
  BY <1>3 DEF input
<1> QED
  BY <1>1, <1>4 DEF InPlace, input

\* A step that reads nothing keeps them too.
LEMMA InPlaceSame ==
  ASSUME InPlace, UNCHANGED <<input, op_count, tok_count>>
  PROVE  InPlace'
BY DEF InPlace, input

\* The kind that grammar holds fixes how many tokens its match has.
LEMMA OpWidth ==
  ASSUME InPlace, NEW type, Op(type)
  PROVE  /\ StillParsing /\ Match(parsedtokens, Here) = type
         /\ Width(parsedtokens, Here) = IF type = "AXIOM" THEN 3
                                        ELSE IF type \in {"TOKEN", "LSIDE"} THEN 2 ELSE 1
<1>1. StillParsing /\ grammar[op_count + 1] = type
  BY DEF Op
<1>2. Match(parsedtokens, Here) = type
  BY <1>1, HereIs
<1> QED
  BY <1>1, <1>2 DEF Width

\* A step that reads a match of known type moves the second cursor by that
\* type's width.
LEMMA InPlaceOp ==
  ASSUME InPlace, NEW type, Op(type), UNCHANGED input, op_count' = op_count + 1,
         tok_count' = tok_count + (IF type = "AXIOM" THEN 3
                                   ELSE IF type \in {"TOKEN", "LSIDE"} THEN 2 ELSE 1)
  PROVE  InPlace'
<1>1. StillParsing /\ tok_count' = tok_count + Width(parsedtokens, Here)
  BY OpWidth
<1> QED
  BY <1>1, InPlaceAdvance

\* Every way of reading one operator, operand or list.
ReadRightSide == KeepAsText \/ Keep \/ MakeList \/ MakeListOp \/ AddToRule

\* What the steps that read an operand, an operator or a separator of a right
\* side have in common.
LEMMA ReadRightSideIs ==
  ASSUME ReadRightSide
  PROVE  /\ at = "check_right_side" /\ Op("RSIDE")
         /\ Tok.type \in OperandTypes \cup Operators \cup Separators
         /\ op_count' = op_count + 1 /\ tok_count' = tok_count + 1
         /\ UNCHANGED <<input, axiomflag, current_rule, tokens, at>>
BY DEF ReadRightSide, KeepAsText, Keep, MakeList, MakeListOp, AddToRule, RightSide, Advance,
       Operators, OperandTypes

\* A match of one token.
LEMMA PlacedOver ==
  ASSUME NEW file, IsFile(file), NEW op, NEW tok, Placed(file, op, tok),
         op < Len(SecondLexer(file)), SecondLexer(file)[op + 1] \in {"OR", "LINECOMMENT", "RSIDE"}
  PROVE  Placed(file, op + 1, tok + 1)
<1>1. op \in 0..Len(Starts(file)) /\ op < Len(Starts(file))
  BY StartsAre DEF Placed
<1>2. Match(file, NextStart(file, op)) \in {"OR", "LINECOMMENT", "RSIDE"}
  BY <1>1, NextStartIs
<1>3. Width(file, NextStart(file, op)) = 1
  BY <1>2 DEF Width
<1> QED
  BY <1>1, <1>3, PlacedAdvance

\* The helper for operators reads one match with both cursors, or none.
LEMMA CheckOperatorsInPlace ==
  ASSUME InPlace, CheckOperators
  PROVE  InPlace'
<1> DEFINE read == IF ReadsOr THEN 1 ELSE 0
           op   == op_count + read
           tok  == tok_count + read
           note == /\ op < Len(grammar)
                   /\ grammar[op + 1] = "LINECOMMENT"
                   /\ parsedtokens[tok + 1].type = "LINECOMMENT"
<1>1. /\ IsFile(parsedtokens) /\ grammar = SecondLexer(parsedtokens)
      /\ Placed(parsedtokens, op_count, tok_count)
  BY DEF InPlace
<1>2. /\ IF note THEN Advance(read + 1, read + 1) ELSE Advance(read, read)
      /\ UNCHANGED input
  BY DEF CheckOperators
<1>3. op_count \in Nat /\ tok_count \in Nat
  BY <1>1 DEF Placed
<1>4. Placed(parsedtokens, op, tok)
  <2>1. CASE ReadsOr
    <3>1. op_count < Len(grammar) /\ grammar[op_count + 1] = "OR" /\ read = 1
      BY <2>1 DEF ReadsOr, Op, StillParsing
    <3> QED BY <1>1, <3>1, PlacedOver
  <2>2. CASE ~ ReadsOr
    BY <1>1, <1>3, <2>2
  <2> QED BY <2>1, <2>2
<1>5. op \in Nat /\ tok \in Nat /\ read \in {0, 1}
  BY <1>3
<1>6. Placed(parsedtokens, op_count', tok_count')
  <2>1. CASE note
    <3>1. Placed(parsedtokens, op + 1, tok + 1)
      <4>1. op < Len(SecondLexer(parsedtokens)) /\ SecondLexer(parsedtokens)[op + 1] = "LINECOMMENT"
        BY <1>1, <2>1
      <4> HIDE DEF op, tok
      <4> QED BY <1>1, <1>4, <4>1, PlacedOver
    <3>2. op_count' = op + 1 /\ tok_count' = tok + 1
      <4>1. op_count' = op_count + (read + 1) /\ tok_count' = tok_count + (read + 1)
        BY <1>2, <2>1 DEF Advance
      <4> HIDE DEF read
      <4> QED BY <4>1, <1>3, <1>5
    <3> HIDE DEF op, tok
    <3> QED BY <3>1, <3>2
  <2>2. CASE ~ note
    <3>1. op_count' = op /\ tok_count' = tok
      BY <1>2, <2>2 DEF Advance
    <3> QED BY <1>4, <3>1
  <2> QED BY <2>1, <2>2
<1> QED
  BY <1>1, <1>2, <1>6 DEF InPlace, input

\* Every step of the parser keeps the cursors in place.
LEMMA InPlaceStep ==
  ASSUME InPlace, Next
  PROVE  InPlace'
<1>1. CASE CheckAxiom
  <2>1. CASE Op("AXIOM") /\ axiomflag
    <3>1. /\ UNCHANGED input /\ op_count' = op_count + 1 /\ tok_count' = tok_count + 3
      BY <1>1, <2>1 DEF CheckAxiom, Advance
    <3> QED BY <2>1, <3>1, InPlaceOp
  <2>2. CASE ~ (Op("AXIOM") /\ axiomflag)
    BY <1>1, <2>2, InPlaceSame DEF CheckAxiom
  <2> QED BY <2>1, <2>2
<1>2. CASE CheckLeftSide
  <2>1. CASE Op("LSIDE")
    <3>1. /\ UNCHANGED input /\ op_count' = op_count + 1 /\ tok_count' = tok_count + 2
      BY <1>2, <2>1 DEF CheckLeftSide, Advance
    <3> QED BY <2>1, <3>1, InPlaceOp
  <2>2. CASE ~ Op("LSIDE")
    BY <1>2, <2>2, InPlaceSame DEF CheckLeftSide
  <2> QED BY <2>1, <2>2
<1>3. CASE ReadRightSide
  <2>1. /\ Op("RSIDE") /\ UNCHANGED input
        /\ op_count' = op_count + 1 /\ tok_count' = tok_count + 1
    BY <1>3, ReadRightSideIs
  <2> QED BY <2>1, InPlaceOp
<1>4. CASE RightSideUndefined \/ LeaveRightSide \/ NoToken \/ CleanRegexThrows \/ Finish
  <2>1. UNCHANGED <<input, op_count, tok_count>>
    BY <1>4 DEF RightSideUndefined, LeaveRightSide, NoToken, CleanRegexThrows, Finish
  <2> QED BY <2>1, InPlaceSame
<1>5. CASE CheckOperators
  BY <1>5, CheckOperatorsInPlace
<1>6. CASE CheckForToken
  <2>1. /\ Op("TOKEN") /\ UNCHANGED input
        /\ op_count' = op_count + 1 /\ tok_count' = tok_count + 2
    BY <1>6 DEF CheckForToken, Advance
  <2> QED BY <2>1, InPlaceOp
<1> QED
  BY <1>1, <1>2, <1>3, <1>4, <1>5, <1>6 DEF Next, ReadRightSide

-----------------------------------------------------------------------------
(* The maps of a parse.                                                     *)

\* push_back on a rule's alternatives changes that rule only.
LEMMA RulesAtPush ==
  ASSUME NEW g, NEW name, NEW rule, NEW m
  PROVE  RulesAt(PushRule(g, name, rule), m) =
           IF m = name THEN Append(RulesAt(g, name), rule) ELSE RulesAt(g, m)
<1>1. CASE m = name
  BY <1>1, Zenon DEF RulesAt, PushRule
<1>2. CASE m # name
  BY <1>2, Zenon DEF RulesAt, PushRule
<1> QED
  BY <1>1, <1>2, Zenon

\* operator[] on the rules makes an entry, without alternatives.
LEMMA RulesAtDeclare ==
  ASSUME NEW g, NEW name, NEW m
  PROVE  RulesAt(Declare(g, name), m) = RulesAt(g, m)
BY Zenon DEF RulesAt, Declare

\* Replacing the last alternative changes that rule only.
LEMMA RulesAtReplace ==
  ASSUME NEW g, NEW name \in DOMAIN g, NEW rule, NEW m
  PROVE  RulesAt(ReplaceLast(g, name, rule), m) =
           IF m = name THEN Append(Front(RulesAt(g, name)), rule) ELSE RulesAt(g, m)
<1>1. DOMAIN ReplaceLast(g, name, rule) = DOMAIN g
  BY DEF ReplaceLast
<1>2. CASE m = name
  BY <1>1, <1>2 DEF RulesAt, ReplaceLast
<1>3. CASE m # name /\ m \in DOMAIN g
  BY <1>1, <1>3 DEF RulesAt, ReplaceLast
<1>4. CASE m # name /\ m \notin DOMAIN g
  BY <1>1, <1>4 DEF RulesAt
<1> QED
  BY <1>2, <1>3, <1>4

\* An operand goes to the end of the last alternative, or into a first one.
LEMMA RulesAtAdd ==
  ASSUME NEW g, NEW name, NEW operand, NEW m
  PROVE  RulesAt(AddOperand(g, name, operand), m) =
           IF m # name THEN RulesAt(g, m)
           ELSE IF RulesAt(g, name) = <<>> THEN Append(<<>>, <<operand>>)
           ELSE Append(Front(RulesAt(g, name)), Append(Last(RulesAt(g, name)), operand))
<1>1. CASE RulesAt(g, name) = <<>>
  <2>1. AddOperand(g, name, operand) = PushRule(g, name, <<operand>>)
    BY <1>1 DEF AddOperand
  <2>2. RulesAt(PushRule(g, name, <<operand>>), m) =
          IF m = name THEN Append(RulesAt(g, name), <<operand>>) ELSE RulesAt(g, m)
    BY RulesAtPush
  <2> QED BY <1>1, <2>1, <2>2
<1>2. CASE RulesAt(g, name) # <<>>
  <2>1. name \in DOMAIN g /\ RulesAt(g, name) = g[name]
    BY <1>2 DEF RulesAt
  <2> DEFINE rule == Append(Last(RulesAt(g, name)), operand)
  <2>2. AddOperand(g, name, operand) = ReplaceLast(g, name, rule)
    BY <1>2, <2>1, Zenon DEF AddOperand
  <2> HIDE DEF rule
  <2>3. RulesAt(ReplaceLast(g, name, rule), m) =
          IF m = name THEN Append(Front(RulesAt(g, name)), rule) ELSE RulesAt(g, m)
    BY <2>1, RulesAtReplace
  <2> QED BY <1>2, <2>2, <2>3 DEF rule
<1> QED
  BY <1>1, <1>2

\* insert() on the kept operands of a name changes that name's only.
LEMMA SetAtAdd ==
  ASSUME NEW map, NEW name, NEW set, NEW m
  PROVE  SetAt(AddTo(map, name, set), m) =
           IF m = name THEN SetAt(map, name) \cup set ELSE SetAt(map, m)
<1>1. CASE m = name
  BY <1>1, Zenon DEF SetAt, AddTo
<1>2. CASE m # name
  BY <1>2, Zenon DEF SetAt, AddTo
<1> QED
  BY <1>1, <1>2, Zenon

\* The last item of a non-empty sequence, and the others.
LEMMA LastAndFront ==
  ASSUME NEW T, NEW s \in Seq(T), s # <<>>
  PROVE  Last(s) \in T /\ Front(s) \in Seq(T)
BY DEF Last, Front

\* The map that CheckAxiom makes.
AxiomRule(g, rules) == [m \in DOMAIN g \cup {<<Axiom>>} |-> IF m = <<Axiom>> THEN rules ELSE g[m]]

\* The axiom's rule is set whole.
LEMMA RulesAtAxiom ==
  ASSUME NEW g, NEW rules, NEW m
  PROVE  RulesAt(AxiomRule(g, rules), m) = IF m = <<Axiom>> THEN rules ELSE RulesAt(g, m)
<1>1. CASE m = <<Axiom>>
  BY <1>1, Zenon DEF RulesAt, AxiomRule
<1>2. CASE m # <<Axiom>>
  BY <1>2, Zenon DEF RulesAt, AxiomRule
<1> QED
  BY <1>1, <1>2, Zenon

-----------------------------------------------------------------------------
(* Types.                                                                   *)

\* What the rules of a name are made of.
OperandsOf(file, name) == {AsOperand(file[p]) : p \in DOMAIN file} \cup {NameOperand(name)}

\* Every rule's alternatives are made of operands that the file writes, or of
\* the rule's own name.
RulesTyped(g, file) == \A name : RulesAt(g, name) \in Seq(Seq(OperandsOf(file, name)))

\* A rule that is not in the map has no alternatives.
LEMMA RulesTypedIs ==
  ASSUME NEW g, NEW file
  PROVE  RulesTyped(g, file) <=>
           \A name \in DOMAIN g : g[name] \in Seq(Seq(OperandsOf(file, name)))
<1>1. \A name : <<>> \in Seq(Seq(OperandsOf(file, name)))
  OBVIOUS
<1> QED
  BY <1>1, Zenon DEF RulesTyped, RulesAt

\* push_back keeps the alternatives of that type.
LEMMA PushTyped ==
  ASSUME NEW g, NEW file, NEW name, NEW rule \in Seq(OperandsOf(file, name)),
         RulesTyped(g, file)
  PROVE  RulesTyped(PushRule(g, name, rule), file)
<1>1. ASSUME NEW m PROVE RulesAt(PushRule(g, name, rule), m) \in Seq(Seq(OperandsOf(file, m)))
  <2>1. RulesAt(g, m) \in Seq(Seq(OperandsOf(file, m)))
    BY DEF RulesTyped
  <2>2. CASE m = name
    BY <2>1, <2>2, RulesAtPush
  <2>3. CASE m # name
    BY <2>1, <2>3, RulesAtPush
  <2> QED BY <2>2, <2>3
<1> QED
  BY <1>1 DEF RulesTyped

\* So does replacing the last one.
LEMMA ReplaceTyped ==
  ASSUME NEW g, NEW file, NEW name, NEW rule \in Seq(OperandsOf(file, name)),
         RulesTyped(g, file), RulesAt(g, name) # <<>>
  PROVE  RulesTyped(ReplaceLast(g, name, rule), file)
<1>1. name \in DOMAIN g
  BY DEF RulesAt
<1>2. ASSUME NEW m
      PROVE  RulesAt(ReplaceLast(g, name, rule), m) \in Seq(Seq(OperandsOf(file, m)))
  <2>1. RulesAt(g, m) \in Seq(Seq(OperandsOf(file, m)))
    BY DEF RulesTyped
  <2>2. CASE m = name
    <3>1. Front(RulesAt(g, m)) \in Seq(Seq(OperandsOf(file, m)))
      BY <2>1, <2>2, LastAndFront
    <3>2. RulesAt(ReplaceLast(g, name, rule), m) = Append(Front(RulesAt(g, m)), rule)
      BY <2>2, <1>1, RulesAtReplace
    <3> QED BY <2>2, <3>1, <3>2
  <2>3. CASE m # name
    BY <2>1, <2>3, <1>1, RulesAtReplace
  <2> QED BY <2>2, <2>3
<1> QED
  BY <1>2 DEF RulesTyped

\* So does adding an operand.
LEMMA AddTyped ==
  ASSUME NEW g, NEW file, NEW name, NEW operand \in OperandsOf(file, name), RulesTyped(g, file)
  PROVE  RulesTyped(AddOperand(g, name, operand), file)
<1>1. CASE RulesAt(g, name) = <<>>
  <2>1. <<operand>> \in Seq(OperandsOf(file, name))
    OBVIOUS
  <2> QED BY <1>1, <2>1, PushTyped DEF AddOperand
<1>2. CASE RulesAt(g, name) # <<>>
  <2>1. RulesAt(g, name) \in Seq(Seq(OperandsOf(file, name))) /\ g[name] = RulesAt(g, name)
    BY <1>2 DEF RulesTyped, RulesAt
  <2>2. Last(g[name]) \in Seq(OperandsOf(file, name))
    BY <1>2, <2>1, LastAndFront
  <2>3. Append(Last(g[name]), operand) \in Seq(OperandsOf(file, name))
    BY <2>2
  <2> QED BY <1>2, <2>3, ReplaceTyped DEF AddOperand
<1> QED
  BY <1>1, <1>2

\* Dropping repeated alternatives leaves alternatives.
LEMMA DoublesTyped ==
  ASSUME NEW T, NEW alternatives \in Seq(T)
  PROVE  WithoutDoubles(alternatives) \in Seq(T)
BY PickType DEF WithoutDoubles

\* Keeping an operand makes an entry for the rule.
LEMMA DomainAdd ==
  ASSUME NEW map, NEW name, NEW set
  PROVE  DOMAIN AddTo(map, name, set) = DOMAIN map \cup {name}
BY DEF AddTo

\* So does a label.
LEMMA DomainPut ==
  ASSUME NEW map, NEW name, NEW operand, NEW label
  PROVE  DOMAIN PutLabel(map, name, operand, label) = DOMAIN map \cup {name}
BY DEF PutLabel

\* What is kept stays kept, and a label is kept with the operand it is filed under.
LEMMA KeptAdd ==
  ASSUME NEW labelled, NEW kept, LabelsAreKept(labelled, kept), NEW name, NEW set
  PROVE  LabelsAreKept(labelled, AddTo(kept, name, set))
BY DEF LabelsAreKept, AddTo, SetAt

LEMMA KeptPut ==
  ASSUME NEW labelled, NEW kept, LabelsAreKept(labelled, kept), NEW name, NEW operand,
         NEW set, NEW label \in set
  PROVE  LabelsAreKept(PutLabel(labelled, name, operand, label), AddTo(kept, name, set))
<1> DEFINE put == PutLabel(labelled, name, operand, label)
           add == AddTo(kept, name, set)
<1>1. DOMAIN put = DOMAIN labelled \cup {name} /\ DOMAIN add = DOMAIN kept \cup {name}
  BY DEF PutLabel, AddTo
<1>2. ASSUME NEW m \in DOMAIN put
      PROVE  m \in DOMAIN add /\ \A o \in DOMAIN put[m] : put[m][o] \in add[m]
  <2>1. CASE m = name
    <3>1. add[m] = SetAt(kept, m) \cup set
      BY <2>1 DEF AddTo
    <3>2. ASSUME NEW o \in DOMAIN put[m]
          PROVE  put[m][o] = label \/ (m \in DOMAIN labelled /\ o \in DOMAIN labelled[m]
                                      /\ put[m][o] = labelled[m][o])
      BY <2>1 DEF PutLabel
    <3> QED
      BY <1>1, <2>1, <3>1, <3>2 DEF LabelsAreKept, SetAt
  <2>2. CASE m # name
    <3>1. m \in DOMAIN labelled /\ put[m] = labelled[m]
      BY <1>1, <2>2 DEF PutLabel
    <3>2. m \in DOMAIN kept /\ add[m] = kept[m]
      BY <2>2, <3>1 DEF LabelsAreKept, AddTo
    <3> QED
      BY <1>1, <3>1, <3>2 DEF LabelsAreKept
  <2> QED
    BY <2>1, <2>2
<1> QED
  BY <1>2 DEF LabelsAreKept

\* What handler the parser is in, or how it ended.
Stages == {"check_axiom", "check_left_side", "check_right_side", "check_operators",
           "check_for_token", "done", "undefined", "throws"}

\* Types that the steps preserve.
PartsTyped ==
  /\ RulesTyped(production_rules, parsedtokens)
  /\ axiomflag \in BOOLEAN
  /\ LabelsAreKept(labels, keeper)
  /\ DOMAIN strnodes \subseteq DOMAIN keeper
  /\ at \in Stages

\* They are stronger than the types that the runs check.
LEMMA TypesHold ==
  ASSUME InPlace, PartsTyped
  PROVE  TypeOK
<1>1. /\ IsFile(parsedtokens) /\ op_count \in 0..Len(grammar)
      /\ tok_count \in 0..Len(parsedtokens)
  BY HereIs DEF InPlace
<1>2. \A name \in DOMAIN production_rules :
        production_rules[name] \in Seq(Seq(OperandsOf(parsedtokens, name)))
  BY RulesTypedIs DEF PartsTyped
<1> QED
  BY <1>1, <1>2, Zenon DEF TypeOK, PartsTyped, Stages, OperandsOf

\* The match under the cursor is one of the file, and can be an operand.
LEMMA TokIs ==
  ASSUME InPlace, StillParsing
  PROVE  /\ tok_count + 1 \in DOMAIN parsedtokens
         /\ IsToken(Tok)
         /\ \A name : AsOperand(Tok) \in OperandsOf(parsedtokens, name)
<1>1. tok_count + 1 \in 1..Len(parsedtokens)
  BY HereIs
<1>2. IsFile(parsedtokens)
  BY DEF InPlace
<1>3. DOMAIN parsedtokens = 1..Len(parsedtokens)
  BY <1>2, FileIsSequence
<1>4. IsToken(parsedtokens[tok_count + 1])
  <2> DEFINE p == tok_count + 1
  <2> HIDE DEF p
  <2>1. p \in 1..Len(parsedtokens)
    BY <1>1 DEF p
  <2>2. IsToken(parsedtokens[p])
    BY <1>2, <2>1, FileIsSequence
  <2> QED BY <2>2 DEF p
<1> QED
  BY <1>1, <1>3, <1>4 DEF Tok, OperandsOf

\* Reading in a right side preserves the types.
LEMMA RightSideTyped ==
  ASSUME InPlace, PartsTyped, ReadRightSide
  PROVE  PartsTyped'
<1>0. Op("RSIDE") /\ UNCHANGED <<parsedtokens, axiomflag, current_rule, at>>
  BY ReadRightSideIs DEF input
<1>1. StillParsing
  BY <1>0 DEF Op
<1>2. /\ RulesTyped(production_rules, parsedtokens)
      /\ LabelsAreKept(labels, keeper) /\ DOMAIN strnodes \subseteq DOMAIN keeper
      /\ axiomflag \in BOOLEAN /\ at \in Stages
  BY DEF PartsTyped
<1>3. CASE KeepAsText
  <2>1. /\ UNCHANGED production_rules
        /\ DOMAIN strnodes' = DOMAIN strnodes \cup {current_rule}
        /\ DOMAIN keeper' = DOMAIN keeper \cup {current_rule}
        /\ LabelsAreKept(labels', keeper')
    <3>1. /\ UNCHANGED production_rules
          /\ strnodes' = AddTo(strnodes, current_rule, {Clean(NextTok.value)})
          /\ keeper' = AddTo(keeper, current_rule,
                         {Clean(NextTok.value)} \cup ({Tok.label} \ {NoLabel}))
          /\ labels' = (IF Tok.label = NoLabel THEN labels
                        ELSE PutLabel(labels, current_rule, NextTok.value, Tok.label))
      BY <1>3 DEF KeepAsText
    <3>2. DOMAIN strnodes' = DOMAIN strnodes \cup {current_rule}
      BY <3>1, DomainAdd, Zenon
    <3>3. DOMAIN keeper' = DOMAIN keeper \cup {current_rule}
      BY <3>1, DomainAdd, Zenon
    <3>4. LabelsAreKept(labels', keeper')
      <4> DEFINE set == {Clean(NextTok.value)} \cup ({Tok.label} \ {NoLabel})
      <4>1. Tok.label # NoLabel => Tok.label \in set
        OBVIOUS
      <4> HIDE DEF set
      <4>2. keeper' = AddTo(keeper, current_rule, set)
        BY <3>1 DEF set
      <4> QED
        BY <1>2, <3>1, <4>1, <4>2, KeptAdd, KeptPut
    <3> QED BY <3>1, <3>2, <3>3, <3>4
  <2> QED BY <1>0, <1>2, <2>1 DEF PartsTyped
<1>4. CASE Keep
  <2>1. /\ UNCHANGED <<production_rules, strnodes>>
        /\ DOMAIN keeper' = DOMAIN keeper \cup {current_rule}
        /\ LabelsAreKept(labels', keeper')
    <3> DEFINE name == Clean(NextTok.value)
    <3>1. /\ UNCHANGED <<production_rules, strnodes>>
          /\ labels' = PutLabel(labels, current_rule, name, name)
          /\ keeper' = AddTo(keeper, current_rule, {name})
      BY <1>4 DEF Keep
    <3> HIDE DEF name
    <3>2. DOMAIN keeper' = DOMAIN keeper \cup {current_rule}
      BY <3>1, DomainAdd, Zenon
    <3>3. LabelsAreKept(labels', keeper')
      BY <1>2, <3>1, KeptPut
    <3> QED BY <3>1, <3>2, <3>3
  <2> QED BY <1>0, <1>2, <2>1 DEF PartsTyped
<1>5. CASE MakeList
  <2>1. UNCHANGED notes /\ RulesTyped(production_rules', parsedtokens)
    <3> DEFINE rule == <<NameOperand(current_rule), NameOperand(current_rule)>>
    <3>1. rule \in Seq(OperandsOf(parsedtokens, current_rule))
      BY DEF OperandsOf
    <3>2. /\ production_rules' = ReplaceLast(production_rules, current_rule, rule)
          /\ RulesAt(production_rules, current_rule) # <<>> /\ UNCHANGED notes
      BY <1>5 DEF MakeList
    <3> HIDE DEF rule
    <3>3. RulesTyped(ReplaceLast(production_rules, current_rule, rule), parsedtokens)
      BY <1>2, <3>1, <3>2, ReplaceTyped
    <3> QED BY <3>2, <3>3
  <2> QED BY <1>0, <1>2, <2>1 DEF PartsTyped, notes
<1>6. CASE MakeListOp
  BY <1>0, <1>2, <1>6 DEF MakeListOp, PartsTyped, notes
<1>7. CASE AddToRule
  <2>1. RulesTyped(production_rules', parsedtokens)
    <3>1. AsOperand(Tok) \in OperandsOf(parsedtokens, current_rule)
      BY <1>1, TokIs
    <3>2. production_rules' = AddOperand(production_rules, current_rule, AsOperand(Tok))
      BY <1>7 DEF AddToRule
    <3> QED BY <1>2, <3>1, <3>2, AddTyped
  <2>2. /\ UNCHANGED strnodes
        /\ \/ UNCHANGED <<labels, keeper>>
           \/ /\ DOMAIN keeper' = DOMAIN keeper \cup {current_rule}
              /\ LabelsAreKept(labels', keeper')
    <3> DEFINE value == AsOperand(Tok).value
    <3>1. /\ UNCHANGED strnodes
          /\ \/ UNCHANGED <<labels, keeper>>
             \/ /\ labels' = PutLabel(labels, current_rule, value, Tok.label)
                /\ keeper' = AddTo(keeper, current_rule, {Tok.label})
      BY <1>7 DEF AddToRule
    <3> HIDE DEF value
    <3>2. CASE keeper' = AddTo(keeper, current_rule, {Tok.label})
               /\ labels' = PutLabel(labels, current_rule, value, Tok.label)
      <4>1. DOMAIN keeper' = DOMAIN keeper \cup {current_rule}
        BY <3>2, DomainAdd, Zenon
      <4>2. LabelsAreKept(labels', keeper')
        BY <1>2, <3>2, KeptPut
      <4> QED BY <3>1, <4>1, <4>2
    <3> QED BY <3>1, <3>2
  <2> QED BY <1>0, <1>2, <2>1, <2>2 DEF PartsTyped
<1> QED
  BY <1>3, <1>4, <1>5, <1>6, <1>7 DEF ReadRightSide

\* Every step does.
LEMMA PartsTypedStep ==
  ASSUME InPlace, PartsTyped, Next
  PROVE  PartsTyped'
<1>1. /\ RulesTyped(production_rules, parsedtokens)
      /\ LabelsAreKept(labels, keeper) /\ DOMAIN strnodes \subseteq DOMAIN keeper
      /\ axiomflag \in BOOLEAN /\ at \in Stages
  BY DEF PartsTyped
<1>2. CASE CheckAxiom
  <2>1. UNCHANGED <<parsedtokens, labels, keeper, strnodes>> /\ at' \in Stages
    BY <1>2 DEF CheckAxiom, input, notes, Stages
  <2>2. CASE Op("AXIOM") /\ axiomflag
    <3> DEFINE rules == <<<<AsOperand(parsedtokens[tok_count + 3])>>>>
    <3>1. tok_count + 3 \in DOMAIN parsedtokens
      <4>1. StillParsing /\ Width(parsedtokens, Here) = 3
        BY <2>2, OpWidth
      <4>2. tok_count + 3 \in 1..Len(parsedtokens)
        BY <4>1, HereIs
      <4> QED BY <4>2, FileIsSequence DEF InPlace
    <3>2. rules \in Seq(Seq(OperandsOf(parsedtokens, <<Axiom>>)))
      BY <3>1 DEF OperandsOf
    <3>3. production_rules' = AxiomRule(production_rules, rules) /\ axiomflag' = FALSE
      BY <1>2, <2>2 DEF CheckAxiom, AxiomRule
    <3> HIDE DEF rules
    <3>4. ASSUME NEW m
          PROVE  RulesAt(AxiomRule(production_rules, rules), m)
                   \in Seq(Seq(OperandsOf(parsedtokens, m)))
      <4>1. RulesAt(production_rules, m) \in Seq(Seq(OperandsOf(parsedtokens, m)))
        BY <1>1 DEF RulesTyped
      <4>2. RulesAt(AxiomRule(production_rules, rules), m) =
              IF m = <<Axiom>> THEN rules ELSE RulesAt(production_rules, m)
        BY RulesAtAxiom, Zenon
      <4>3. CASE m = <<Axiom>>
        BY <3>2, <4>2, <4>3, Zenon
      <4>4. CASE m # <<Axiom>>
        BY <4>1, <4>2, <4>4, Zenon
      <4> QED BY <4>3, <4>4
    <3> QED BY <1>1, <2>1, <3>3, <3>4 DEF PartsTyped, RulesTyped
  <2>3. CASE ~ (Op("AXIOM") /\ axiomflag)
    <3>1. UNCHANGED <<production_rules, axiomflag>>
      BY <1>2, <2>3 DEF CheckAxiom
    <3> QED BY <1>1, <2>1, <3>1 DEF PartsTyped
  <2> QED BY <2>2, <2>3
<1>3. CASE CheckLeftSide
  <2>1. UNCHANGED <<parsedtokens, labels, keeper, strnodes, axiomflag>> /\ at' \in Stages
    BY <1>3 DEF CheckLeftSide, input, notes, Stages
  <2>2. RulesTyped(production_rules', parsedtokens)
    <3>1. \/ production_rules' = Declare(production_rules, Tok.value)
          \/ UNCHANGED production_rules
      BY <1>3 DEF CheckLeftSide
    <3> QED BY <1>1, <3>1, RulesAtDeclare DEF RulesTyped
  <2> QED BY <1>1, <2>1, <2>2 DEF PartsTyped
<1>4. CASE ReadRightSide
  BY <1>4, RightSideTyped
<1>5. CASE RightSideUndefined \/ LeaveRightSide \/ NoToken \/ CleanRegexThrows \/ CheckForToken
  <2>1. /\ UNCHANGED <<parsedtokens, axiomflag, production_rules, labels, keeper, strnodes>>
        /\ at' \in Stages
    BY <1>5 DEF RightSideUndefined, LeaveRightSide, NoToken, CleanRegexThrows, CheckForToken,
                NextRound, input, notes, Stages
  <2> QED BY <1>1, <2>1 DEF PartsTyped
<1>6. CASE CheckOperators
  <2>1. /\ UNCHANGED <<parsedtokens, axiomflag, labels, keeper, strnodes>>
        /\ at' \in Stages
        /\ production_rules' \in {PushRule(production_rules, current_rule, <<>>), production_rules}
    BY <1>6 DEF CheckOperators, input, notes, Stages
  <2>2. <<>> \in Seq(OperandsOf(parsedtokens, current_rule))
    OBVIOUS
  <2>3. RulesTyped(production_rules', parsedtokens)
    BY <1>1, <2>1, <2>2, PushTyped
  <2> QED BY <1>1, <2>1, <2>3 DEF PartsTyped
<1>7. CASE Finish
  <2>1. /\ UNCHANGED <<parsedtokens, axiomflag, labels, keeper, strnodes>>
        /\ at' \in Stages
        /\ production_rules' =
             [m \in DOMAIN production_rules |-> WithoutDoubles(production_rules[m])]
    BY <1>7 DEF Finish, input, notes, Stages
  <2>2. \A m \in DOMAIN production_rules :
          WithoutDoubles(production_rules[m]) \in Seq(Seq(OperandsOf(parsedtokens, m)))
    BY <1>1, RulesTypedIs, DoublesTyped
  <2>3. RulesTyped(production_rules', parsedtokens)
    BY <2>1, <2>2, RulesTypedIs
  <2> QED BY <1>1, <2>1, <2>3 DEF PartsTyped
<1> QED
  BY <1>2, <1>3, <1>4, <1>5, <1>6, <1>7 DEF Next, ReadRightSide

-----------------------------------------------------------------------------

\* Cursors in place are cursors in step.
LEMMA InPlaceInStep ==
  ASSUME InPlace
  PROVE  InStep
<1>1. IsFile(parsedtokens) /\ op_count \in 0..Len(Starts(parsedtokens))
  BY DEF InPlace, Placed
<1> SUFFICES ASSUME op_count < Len(Starts(parsedtokens)),
                    \A p \in 1..Starts(parsedtokens)[op_count + 1] : ~ Stray(parsedtokens, p)
             PROVE  tok_count + 1 = Starts(parsedtokens)[op_count + 1]
  BY Zenon DEF InStep
<1>2. Here = Starts(parsedtokens)[op_count + 1] /\ Here \in 1..Len(parsedtokens)
      /\ Len(parsedtokens) \in Nat
  BY <1>1, NextStartIs DEF Here, NextStart
<1>3. \A p \in 1..(Here - 1) : p \in 1..Here
  BY <1>2
<1>4. NoStrayBefore(parsedtokens, Here)
  BY <1>2, <1>3 DEF NoStrayBefore
<1> QED
  BY <1>2, <1>4, HereIs

-----------------------------------------------------------------------------
(* The places that were read, and the rules they belong to.                 *)

\* The places of left sides, and of what a rule's right side owns.
LEMMA PlacesAre ==
  ASSUME NEW file, IsFile(file), NEW q, NEW types
  PROVE  /\ DOMAIN file = 1..Len(file) /\ Len(file) \in Nat
         /\ \A p \in LeftSides(file) : p \in 1..Len(file) /\ p \in Int /\ Match(file, p) = "LSIDE"
         /\ \A p \in Owned(file, q, types) :
              /\ p \in 1..Len(file) /\ p \in Int /\ Match(file, p) \in {"OR", "RSIDE"}
              /\ file[p].type \in types /\ Owner(file, p) = q
<1>1. DOMAIN file = 1..Len(file) /\ Len(file) \in Nat
  BY FileIsSequence, Zenon
<1>2. \A p \in 1..Len(file) : p \in Int
  BY <1>1
<1> QED
  BY <1>1, <1>2, Zenon DEF LeftSides, Owned

\* The matches in front of a match are those in front of the one before, and that.
LEMMA StartBefore ==
  ASSUME NEW file, IsFile(file), NEW op \in 0..Len(Starts(file)), op < Len(Starts(file)),
         NEW x \in 1..Len(file), Match(file, x) # NoMatch
  PROVE  x < NextStart(file, op + 1) <=> x < NextStart(file, op) \/ x = NextStart(file, op)
<1> DEFINE p == NextStart(file, op)
           next == NextStart(file, op + 1)
<1>1. /\ p \in 1..Len(file) /\ p < next /\ Len(Starts(file)) \in Nat /\ Len(file) \in Nat
      /\ op + 1 \in 0..Len(Starts(file))
  BY NextStartIs
<1>2. next \in 1..(Len(file) + 1)
  <2> DEFINE o == op + 1
  <2> HIDE DEF o
  <2>1. o \in 0..Len(Starts(file))
    BY <1>1 DEF o
  <2>2. NextStart(file, o) \in 1..(Len(file) + 1)
    BY <2>1, NextStartIs
  <2> QED BY <2>2 DEF o
<1>3. ASSUME x < next, p < x PROVE FALSE
  <2> DEFINE o == op + 1
  <2>1. o \in 0..Len(Starts(file)) /\ x < NextStart(file, o) /\ NextStart(file, o - 1) < x
    BY <1>1, <1>3
  <2> HIDE DEF o
  <2>2. Match(file, x) = NoMatch
    BY <2>1, NothingBetween
  <2> QED BY <2>2
<1> HIDE DEF p, next
<1>4. x < next <=> x < p \/ x = p
  BY <1>1, <1>2, <1>3
<1> QED
  BY <1>4 DEF p, next

\* No match begins before the first one.
LEMMA NoStartBeforeFirst ==
  ASSUME NEW file, IsFile(file), NEW x \in 1..Len(file), Match(file, x) # NoMatch
  PROVE  ~ (x < NextStart(file, 0))
<1>1. 0 \in 0..Len(Starts(file))
  <2>1. Starts(file) \in Seq(1..Len(file))
    BY StartsAre
  <2> QED BY <2>1
<1> QED
  BY <1>1, NothingBetween

\* Every place is before the end.
LEMMA AllStartsBeforeEnd ==
  ASSUME NEW file, IsFile(file), NEW x \in 1..Len(file)
  PROVE  x < NextStart(file, Len(Starts(file)))
<1>1. NextStart(file, Len(Starts(file))) = Len(file) + 1 /\ Len(file) \in Nat
  <2>1. Starts(file) \in Seq(1..Len(file)) /\ Len(file) \in Nat
    BY StartsAre, FileIsSequence
  <2>2. ~ (Len(Starts(file)) < Len(Starts(file)))
    BY <2>1
  <2> QED BY <2>1, <2>2 DEF NextStart
<1> QED
  BY <1>1

\* A place belongs to the last left side in front of it.
LEMMA OwnerIs ==
  ASSUME NEW file, IsFile(file), NEW p \in Int
  PROVE  \/ Owner(file, p) = 0 /\ \A q \in LeftSides(file) : ~ (q < p)
         \/ /\ Owner(file, p) \in LeftSides(file) /\ Owner(file, p) < p
            /\ \A r \in LeftSides(file) : r < p => r <= Owner(file, p)
<1> DEFINE before == {q \in LeftSides(file) : q < p}
<1>1. CASE before = {}
  BY <1>1 DEF Owner
<1>2. CASE before # {}
  <2> DEFINE T == {Len(file) - q : q \in before}
  <2>1. before \subseteq 1..Len(file) /\ Len(file) \in Nat
    BY PlacesAre
  <2>2. T \in SUBSET Nat /\ T # {}
    BY <1>2, <2>1
  <2>3. PICK t \in T : \A u \in T : t <= u
    <3> HIDE DEF T
    <3> QED BY <2>2, LeastNat
  <2>4. PICK q \in before : t = Len(file) - q
    BY <2>3
  <2>5. ASSUME NEW r \in before PROVE r <= q
    <3>1. Len(file) - r \in T
      BY <2>5
    <3>2. Len(file) - q <= Len(file) - r
      BY <2>3, <2>4, <3>1
    <3>3. r \in Int /\ q \in Int
      BY <2>1, <2>4, <2>5
    <3> QED BY <2>1, <3>2, <3>3
  <2>6. Owner(file, p) \in before /\ \A r \in before : r <= Owner(file, p)
    <3>1. Owner(file, p) = CHOOSE o \in before : \A r \in before : r <= o
      BY <1>2 DEF Owner
    <3> HIDE DEF before
    <3> QED BY <2>4, <2>5, <3>1
  <2> QED BY <2>6
<1> QED
  BY <1>1, <1>2

\* The place of the next match is a number.
LEMMA NextStartInt ==
  ASSUME NEW file, IsFile(file), NEW op
  PROVE  op \in Nat /\ op <= Len(Starts(file)) => NextStart(file, op) \in Int
<1>1. ASSUME op \in Nat, op <= Len(Starts(file))
      PROVE  NextStart(file, op) \in Int
  <2>1. Starts(file) \in Seq(1..Len(file))
    BY StartsAre
  <2>2. op \in 0..Len(Starts(file))
    BY <1>1, <2>1
  <2>3. NextStart(file, op) \in 1..(Len(file) + 1) /\ Len(file) \in Nat
    BY <2>2, NextStartIs
  <2> QED BY <2>3
<1> QED
  BY <1>1

\* The rule that a place belongs to changes at a left side only.
LEMMA OwnerNext ==
  ASSUME NEW file, IsFile(file), NEW op \in 0..Len(Starts(file)), op < Len(Starts(file))
  PROVE  Owner(file, NextStart(file, op + 1)) =
           IF Match(file, NextStart(file, op)) = "LSIDE" THEN NextStart(file, op)
           ELSE Owner(file, NextStart(file, op))
<1> DEFINE p == NextStart(file, op)
           next == NextStart(file, op + 1)
<1>1. p \in 1..Len(file) /\ p < next /\ Len(file) \in Nat /\ DOMAIN file = 1..Len(file)
  BY NextStartIs, PlacesAre
<1>2. \A q \in LeftSides(file) : q < next <=> q < p \/ q = p
  <2>1. "LSIDE" # NoMatch
    BY DEF NoMatch
  <2>2. \A q \in LeftSides(file) : q \in 1..Len(file) /\ Match(file, q) # NoMatch
    BY <2>1, PlacesAre
  <2> QED BY <2>2, StartBefore
<1>3. CASE Match(file, p) # "LSIDE"
  <2>1. {q \in LeftSides(file) : q < next} = {q \in LeftSides(file) : q < p}
    BY <1>2, <1>3 DEF LeftSides
  <2> HIDE DEF p, next
  <2>2. Owner(file, next) = Owner(file, p)
    <3> DEFINE greatest(s) == IF s = {} THEN 0 ELSE CHOOSE q \in s : \A r \in s : r <= q
    <3>1. /\ Owner(file, next) = greatest({q \in LeftSides(file) : q < next})
          /\ Owner(file, p) = greatest({q \in LeftSides(file) : q < p})
      BY DEF Owner
    <3> HIDE DEF greatest
    <3> QED BY <2>1, <3>1
  <2> QED BY <1>3, <2>2 DEF p, next
<1>4. CASE Match(file, p) = "LSIDE"
  <2>1. p \in LeftSides(file)
    BY <1>1, <1>4 DEF LeftSides
  <2>2. next \in Int
    <3>1. Starts(file) \in Seq(1..Len(file))
      BY StartsAre
    <3>2. op + 1 \in Nat /\ op + 1 <= Len(Starts(file))
      BY <3>1
    <3> QED BY <3>2, NextStartInt
  <2> HIDE DEF p, next
  <2>3. Owner(file, next) \in LeftSides(file) /\ Owner(file, next) < next /\ p <= Owner(file, next)
    BY <1>1, <2>1, <2>2, OwnerIs
  <2>4. Owner(file, next) < p \/ Owner(file, next) = p
    BY <1>2, <2>3
  <2>5. Owner(file, next) \in Int /\ p \in Int
    BY <1>1, <2>3, PlacesAre
  <2>6. Owner(file, next) = p
    BY <2>3, <2>4, <2>5
  <2> QED BY <1>4, <2>6 DEF p, next
<1> QED
  BY <1>3, <1>4

\* The places of a rule that were read when op matches were.
Seen(file, op, q, types) == {p \in Owned(file, q, types) : p < NextStart(file, op)}

\* What a rule owns are matches of the second lexer.
LEMMA OwnedStarts ==
  ASSUME NEW file, IsFile(file), NEW q, NEW types, NEW p \in Owned(file, q, types)
  PROVE  p \in 1..Len(file) /\ Match(file, p) # NoMatch
<1>1. p \in 1..Len(file) /\ Match(file, p) \in {"OR", "RSIDE"}
  BY PlacesAre
<1>2. "OR" # NoMatch /\ "RSIDE" # NoMatch
  BY DEF NoMatch
<1> QED
  BY <1>1, <1>2

\* Reading one match makes its place a seen one, if it is of the rule and of
\* these types.
LEMMA SeenStep ==
  ASSUME NEW file, IsFile(file), NEW op \in 0..Len(Starts(file)), op < Len(Starts(file)),
         NEW q, NEW types
  PROVE  Seen(file, op + 1, q, types) =
           IF NextStart(file, op) \in Owned(file, q, types)
           THEN Seen(file, op, q, types) \cup {NextStart(file, op)}
           ELSE Seen(file, op, q, types)
<1>1. \A p \in Owned(file, q, types) :
        p < NextStart(file, op + 1) <=> p < NextStart(file, op) \/ p = NextStart(file, op)
  BY OwnedStarts, StartBefore
<1> QED
  BY <1>1 DEF Seen

\* Nothing was seen at the start.
LEMMA SeenFirst ==
  ASSUME NEW file, IsFile(file), NEW q, NEW types
  PROVE  Seen(file, 0, q, types) = {}
BY OwnedStarts, NoStartBeforeFirst DEF Seen

\* At the end a rule's whole right side was seen.
LEMMA SeenAll ==
  ASSUME NEW file, IsFile(file), NEW q, NEW types
  PROVE  Seen(file, Len(Starts(file)), q, types) = Owned(file, q, types)
BY OwnedStarts, AllStartsBeforeEnd DEF Seen

\* Nothing of a rule is in front of its left side.
LEMMA SeenOfNew ==
  ASSUME NEW file, IsFile(file), NEW op \in 0..Len(Starts(file)), NEW types,
         NEW q \in LeftSides(file), NextStart(file, op) <= q
  PROVE  Seen(file, op, q, types) = {}
<1> SUFFICES ASSUME NEW p \in Owned(file, q, types), p < NextStart(file, op) PROVE FALSE
  BY DEF Seen
<1>1. p \in Int /\ Owner(file, p) = q /\ q \in Int /\ q \in 1..Len(file)
  BY PlacesAre
<1>2. q < p
  BY <1>1, OwnerIs
<1>3. NextStart(file, op) \in Int
  <2>1. Starts(file) \in Seq(1..Len(file))
    BY StartsAre
  <2>2. op \in Nat /\ op <= Len(Starts(file))
    BY <2>1
  <2> QED BY <2>2, NextStartInt
<1> QED
  BY <1>1, <1>2, <1>3

-----------------------------------------------------------------------------
(* Undefined behaviour.                                                     *)

\* In a tidy file no match is left out, so both cursors are at one place.
LEMMA TidyHere ==
  ASSUME InPlace, Tidy(parsedtokens)
  PROVE  /\ tok_count + 1 = Here
         /\ Tok = parsedtokens[Here]
<1>1. IsFile(parsedtokens) /\ Here \in 1..(Len(parsedtokens) + 1) /\ Len(parsedtokens) \in Nat
  BY HereIs DEF InPlace
<1>2. \A p \in 1..(Here - 1) : p \in DOMAIN parsedtokens
  BY <1>1, FileIsSequence
<1>3. NoStrayBefore(parsedtokens, Here)
  BY <1>2 DEF NoStrayBefore, Tidy
<1> QED
  BY <1>3, HereIs DEF Tok

\* What makes a rule begin: an operand or a bar.
BarsAndOperands == OperandTypes \cup {"OR"}

\* A rule that a bar or an operand was read of is not empty.
Begun(file, op, rules) ==
  Seen(file, op, Owner(file, NextStart(file, op)), BarsAndOperands) # {} => rules # <<>>

\* A rule whose left side was just read has not begun.
LEMMA BegunNew ==
  ASSUME NEW file, IsFile(file), NEW op \in 0..Len(Starts(file)), op < Len(Starts(file)),
         Match(file, NextStart(file, op)) = "LSIDE", NEW rules
  PROVE  Begun(file, op + 1, rules)
<1> DEFINE p == NextStart(file, op)
<1>1. p \in 1..Len(file) /\ p \in LeftSides(file) /\ p \in Int
  BY NextStartIs, PlacesAre DEF LeftSides
<1>2. Owner(file, NextStart(file, op + 1)) = p
  BY OwnerNext
<1>3. p \notin Owned(file, p, BarsAndOperands)
  BY PlacesAre
<1>4. Seen(file, op, p, BarsAndOperands) = {}
  BY <1>1, SeenOfNew
<1>5. Seen(file, op + 1, p, BarsAndOperands) = {}
  BY <1>3, <1>4, SeenStep
<1> QED
  BY <1>2, <1>5 DEF Begun

\* A match of another rule or type leaves a rule as far as it was, and a bar or
\* an operand begins it.
LEMMA BegunOver ==
  ASSUME NEW file, IsFile(file), NEW op \in 0..Len(Starts(file)), op < Len(Starts(file)),
         Match(file, NextStart(file, op)) # "LSIDE",
         NEW rules, NEW after, Begun(file, op, rules), rules # <<>> => after # <<>>,
         (Match(file, NextStart(file, op)) \in {"OR", "RSIDE"}
            /\ file[NextStart(file, op)].type \in BarsAndOperands) => after # <<>>
  PROVE  Begun(file, op + 1, after)
<1> DEFINE p == NextStart(file, op)
           q == Owner(file, p)
<1>1. Owner(file, NextStart(file, op + 1)) = q
  BY OwnerNext
<1>2. CASE p \in Owned(file, q, BarsAndOperands)
  BY <1>2, PlacesAre DEF Begun
<1>3. CASE p \notin Owned(file, q, BarsAndOperands)
  <2>1. Seen(file, op + 1, q, BarsAndOperands) = Seen(file, op, q, BarsAndOperands)
    BY <1>3, SeenStep
  <2> QED BY <1>1, <2>1 DEF Begun
<1> QED
  BY <1>2, <1>3

\* The handlers; the other values of at are ends.
Running == {"check_axiom", "check_left_side", "check_right_side", "check_operators",
            "check_for_token"}

\* The alternatives of the rule at hand, so far.
RulesHere == RulesAt(production_rules, current_rule)

\* Once an operand or a bar of the rule at hand was read, it has an
\* alternative.
RuleBegun == at \in Running => Begun(parsedtokens, op_count, RulesHere)

\* This is what the handlers rely on when they call back() on a rule's
\* alternatives.
BegunInv == Tidy(parsedtokens) => RuleBegun

\* What the lemmas on one match need of the state.
LEMMA AtOp ==
  ASSUME InPlace, NEW type, Op(type)
  PROVE  /\ IsFile(parsedtokens) /\ op_count \in 0..Len(Starts(parsedtokens))
         /\ op_count < Len(Starts(parsedtokens))
         /\ Here = NextStart(parsedtokens, op_count)
         /\ Match(parsedtokens, Here) = type
         /\ Here \in 1..Len(parsedtokens)
         /\ op_count \in Nat /\ tok_count \in Nat /\ Len(parsedtokens) \in Nat
<1>1. IsFile(parsedtokens) /\ grammar = SecondLexer(parsedtokens)
      /\ op_count \in 0..Len(Starts(parsedtokens)) /\ tok_count \in Nat
  BY DEF InPlace, Placed
<1>2. StillParsing /\ Match(parsedtokens, Here) = type
  BY OpWidth
<1>3. op_count < Len(Starts(parsedtokens))
  BY <1>1, <1>2, StartsAre DEF StillParsing
<1> QED
  BY <1>1, <1>2, <1>3, HereIs DEF Here

\* A step that reads nothing and drops no alternative preserves it.
LEMMA BegunSame ==
  ASSUME BegunInv, UNCHANGED <<parsedtokens, op_count>>, at' \in Running => at \in Running,
         RulesHere # <<>> => RulesHere' # <<>>
  PROVE  BegunInv'
BY DEF BegunInv, RuleBegun, Begun

\* So does a step that reads a match and makes an alternative where it has to.
LEMMA BegunOp ==
  ASSUME InPlace, BegunInv, NEW type, Op(type), type # "LSIDE",
         UNCHANGED parsedtokens, op_count' = op_count + 1, at' \in Running => at \in Running,
         RulesHere # <<>> => RulesHere' # <<>>,
         (Tidy(parsedtokens) /\ type \in {"OR", "RSIDE"} /\ Tok.type \in BarsAndOperands)
           => RulesHere' # <<>>
  PROVE  BegunInv'
<1> SUFFICES ASSUME Tidy(parsedtokens), at' \in Running
             PROVE  Begun(parsedtokens, op_count + 1, RulesHere')
  BY DEF BegunInv, RuleBegun
<1>1. Begun(parsedtokens, op_count, RulesHere)
  BY DEF BegunInv, RuleBegun
<1>2. Tok = parsedtokens[Here]
  BY TidyHere
<1> DEFINE rules == RulesHere
           after == RulesHere'
           file == parsedtokens
           op == op_count
<1>3. /\ IsFile(file) /\ op \in 0..Len(Starts(file)) /\ op < Len(Starts(file))
      /\ Match(file, NextStart(file, op)) = type /\ Here = NextStart(file, op)
  BY AtOp
<1>4. /\ Begun(file, op, rules) /\ (rules # <<>> => after # <<>>)
      /\ (Match(file, NextStart(file, op)) \in {"OR", "RSIDE"}
            /\ file[NextStart(file, op)].type \in BarsAndOperands) => after # <<>>
  BY <1>1, <1>2, <1>3
<1> HIDE DEF rules, after, file, op
<1>5. Begun(file, op + 1, after)
  BY <1>3, <1>4, BegunOver
<1> QED
  BY <1>5 DEF file, op, after

\* push_back leaves something.
LEMMA PushedIsSome ==
  ASSUME NEW T, NEW s \in Seq(T), NEW x \in T
  PROVE  Append(s, x) # <<>>
<1>1. Len(Append(s, x)) # Len(<<>>)
  OBVIOUS
<1> QED
  BY <1>1, Zenon

\* The handlers of a right side preserve it.
LEMMA BegunRightSide ==
  ASSUME InPlace, PartsTyped, BegunInv, ReadRightSide
  PROVE  BegunInv'
<1>1. /\ Op("RSIDE") /\ UNCHANGED <<parsedtokens, current_rule, at>>
      /\ op_count' = op_count + 1
  BY ReadRightSideIs DEF input
<1>2. RulesHere \in Seq(Seq(OperandsOf(parsedtokens, current_rule)))
  BY DEF RulesHere, PartsTyped, RulesTyped
<1>3. AsOperand(Tok) \in OperandsOf(parsedtokens, current_rule)
  BY <1>1, TokIs DEF Op
<1>4. SUFFICES /\ RulesHere # <<>> => RulesHere' # <<>>
               /\ Tok.type \in BarsAndOperands => RulesHere' # <<>>
  BY <1>1, BegunOp
<1>5. CASE KeepAsText \/ Keep \/ MakeListOp
  <2>1. Tok.type \in Operators /\ UNCHANGED production_rules
    BY <1>5 DEF KeepAsText, Keep, MakeListOp, RightSide, Operators
  <2>2. RulesHere' = RulesHere
    BY <1>1, <2>1 DEF RulesHere
  <2> QED BY <2>1, <2>2 DEF Operators, BarsAndOperands, OperandTypes
<1>6. CASE MakeList
  <2> DEFINE rule == <<NameOperand(current_rule), NameOperand(current_rule)>>
  <2>1. /\ RulesHere # <<>> /\ production_rules' = ReplaceLast(production_rules, current_rule, rule)
    BY <1>6 DEF MakeList, RulesHere
  <2>2. rule \in Seq(OperandsOf(parsedtokens, current_rule))
    BY DEF OperandsOf
  <2> HIDE DEF rule
  <2>3. current_rule \in DOMAIN production_rules
    BY <2>1 DEF RulesHere, RulesAt
  <2>4. RulesHere' = Append(Front(RulesHere), rule)
    BY <1>1, <2>1, <2>3, RulesAtReplace DEF RulesHere
  <2>5. Front(RulesHere) \in Seq(Seq(OperandsOf(parsedtokens, current_rule)))
    BY <1>2, <2>1, LastAndFront
  <2> QED BY <2>2, <2>4, <2>5, PushedIsSome
<1>7. CASE AddToRule
  <2> DEFINE operand == AsOperand(Tok)
  <2>1. production_rules' = AddOperand(production_rules, current_rule, operand)
    BY <1>7 DEF AddToRule
  <2>2. operand \in OperandsOf(parsedtokens, current_rule)
    BY <1>3
  <2> HIDE DEF operand
  <2>3. RulesHere' = IF RulesHere = <<>> THEN Append(<<>>, <<operand>>)
                     ELSE Append(Front(RulesHere), Append(Last(RulesHere), operand))
    BY <1>1, <2>1, RulesAtAdd DEF RulesHere
  <2>4. CASE RulesHere = <<>>
    BY <2>3, <2>4
  <2>5. CASE RulesHere # <<>>
    <3>1. /\ Front(RulesHere) \in Seq(Seq(OperandsOf(parsedtokens, current_rule)))
          /\ Last(RulesHere) \in Seq(OperandsOf(parsedtokens, current_rule))
      BY <1>2, <2>5, LastAndFront
    <3>2. Append(Last(RulesHere), operand) \in Seq(OperandsOf(parsedtokens, current_rule))
      BY <2>2, <3>1
    <3> QED BY <2>3, <2>5, <3>1, <3>2, PushedIsSome
  <2> QED BY <2>4, <2>5
<1> QED
  BY <1>5, <1>6, <1>7 DEF ReadRightSide

\* The helper for operators preserves it.
LEMMA BegunOperators ==
  ASSUME InPlace, PartsTyped, BegunInv, CheckOperators
  PROVE  BegunInv'
<1> DEFINE file == parsedtokens
           read == IF ReadsOr THEN 1 ELSE 0
           op   == op_count + read
           note == /\ op < Len(grammar)
                   /\ grammar[op + 1] = "LINECOMMENT"
                   /\ parsedtokens[tok_count + read + 1].type = "LINECOMMENT"
           after == RulesHere'
<1>1. /\ UNCHANGED <<parsedtokens, current_rule>>
      /\ production_rules' = (IF ReadsOr THEN PushRule(production_rules, current_rule, <<>>)
                              ELSE production_rules)
      /\ IF note THEN Advance(read + 1, read + 1) ELSE Advance(read, read)
      /\ at = "check_operators"
  BY DEF CheckOperators, input
<1>2. SUFFICES ASSUME Tidy(parsedtokens) PROVE Begun(file, op_count', after)
  BY <1>1 DEF BegunInv, RuleBegun
<1>3. Begun(file, op_count, RulesHere)
  BY <1>1, <1>2 DEF BegunInv, RuleBegun, Running
<1>4. IsFile(file) /\ op_count \in 0..Len(Starts(file)) /\ Len(grammar) = Len(Starts(file))
      /\ grammar = SecondLexer(file)
  BY StartsAre DEF InPlace, Placed
<1>5. op \in 0..Len(Starts(file)) /\ Begun(file, op, after)
  <2>1. CASE ReadsOr
    <3>1. Op("OR")
      BY <2>1 DEF ReadsOr
    <3>2. /\ op_count < Len(Starts(file)) /\ Match(file, NextStart(file, op_count)) = "OR"
          /\ op = op_count + 1 /\ Len(Starts(file)) \in Nat
      BY <2>1, <3>1, <1>4, AtOp, NextStartIs
    <3>3. RulesHere' = Append(RulesHere, <<>>)
      BY <1>1, <2>1, RulesAtPush DEF RulesHere
    <3>4. RulesHere \in Seq(Seq(OperandsOf(file, current_rule)))
          /\ <<>> \in Seq(OperandsOf(file, current_rule))
      BY DEF RulesHere, PartsTyped, RulesTyped
    <3>5. after # <<>>
      BY <3>3, <3>4, PushedIsSome
    <3> HIDE DEF file, after, RulesHere
    <3>6. Begun(file, op_count + 1, after)
      BY <1>3, <1>4, <3>2, <3>5, BegunOver
    <3> QED BY <1>4, <3>2, <3>6
  <2>2. CASE ~ ReadsOr
    <3>1. op = op_count /\ RulesHere' = RulesHere
      BY <1>1, <1>4, <2>2 DEF RulesHere
    <3> QED BY <1>3, <1>4, <3>1
  <2> QED BY <2>1, <2>2
<1>6. CASE note
  <2>1. /\ op < Len(Starts(file)) /\ SecondLexer(file)[op + 1] = "LINECOMMENT"
        /\ op_count' = op_count + (read + 1) /\ op_count \in Nat /\ read \in Nat
    BY <1>1, <1>4, <1>6 DEF Advance
  <2>2. op_count' = op + 1
    <3> HIDE DEF read
    <3> QED BY <2>1
  <2> HIDE DEF op, file, after
  <2>3. Match(file, NextStart(file, op)) = "LINECOMMENT"
    BY <1>4, <1>5, <2>1, NextStartIs
  <2>4. Begun(file, op + 1, after)
    BY <1>4, <1>5, <2>1, <2>3, BegunOver
  <2> QED BY <2>2, <2>4
<1>7. CASE ~ note
  BY <1>1, <1>5, <1>7 DEF Advance
<1> QED
  BY <1>6, <1>7

\* Every step does.
LEMMA BegunStep ==
  ASSUME InPlace, PartsTyped, BegunInv, Next
  PROVE  BegunInv'
<1>1. CASE CheckAxiom
  <2>0. UNCHANGED <<parsedtokens, current_rule>> /\ at \in Running
    BY <1>1 DEF CheckAxiom, input, Running
  <2>1. CASE Op("AXIOM") /\ axiomflag
    <3> DEFINE rules == <<<<AsOperand(parsedtokens[tok_count + 3])>>>>
    <3>1. production_rules' = AxiomRule(production_rules, rules) /\ op_count' = op_count + 1
      BY <1>1, <2>1 DEF CheckAxiom, AxiomRule, Advance
    <3>2. rules # <<>>
      OBVIOUS
    <3> HIDE DEF rules
    <3>3. RulesHere' = IF current_rule = <<Axiom>> THEN rules ELSE RulesHere
      BY <2>0, <3>1, RulesAtAxiom DEF RulesHere
    <3> QED BY <2>0, <2>1, <3>1, <3>2, <3>3, BegunOp
  <2>2. CASE ~ (Op("AXIOM") /\ axiomflag)
    <3>1. UNCHANGED <<production_rules, op_count>>
      BY <1>1, <2>2 DEF CheckAxiom
    <3> QED BY <2>0, <3>1, BegunSame DEF RulesHere
  <2> QED BY <2>1, <2>2
<1>2. CASE CheckLeftSide
  <2>0. UNCHANGED parsedtokens /\ at \in Running
    BY <1>2 DEF CheckLeftSide, input, Running
  <2>1. CASE Op("LSIDE")
    <3>1. op_count' = op_count + 1
      BY <1>2, <2>1 DEF CheckLeftSide, Advance
    <3> DEFINE file == parsedtokens
               op   == op_count
               after == RulesHere'
    <3>2. /\ IsFile(file) /\ op \in 0..Len(Starts(file)) /\ op < Len(Starts(file))
          /\ Match(file, NextStart(file, op)) = "LSIDE"
      BY <2>1, AtOp
    <3> HIDE DEF file, op, after
    <3>3. Begun(file, op + 1, after)
      BY <3>2, BegunNew
    <3> QED BY <2>0, <3>1, <3>3 DEF BegunInv, RuleBegun, file, op, after
  <2>2. CASE ~ Op("LSIDE")
    <3>1. UNCHANGED <<production_rules, op_count, current_rule>>
      BY <1>2, <2>2 DEF CheckLeftSide
    <3> QED BY <2>0, <3>1, BegunSame DEF RulesHere
  <2> QED BY <2>1, <2>2
<1>3. CASE ReadRightSide
  BY <1>3, BegunRightSide
<1>4. CASE RightSideUndefined \/ LeaveRightSide \/ NoToken \/ CleanRegexThrows
  <2>1. /\ UNCHANGED <<parsedtokens, op_count, production_rules, current_rule>>
        /\ at \in Running
    BY <1>4 DEF RightSideUndefined, LeaveRightSide, NoToken, CleanRegexThrows, input, Running
  <2> QED BY <2>1, BegunSame DEF RulesHere
<1>5. CASE CheckOperators
  BY <1>5, BegunOperators
<1>6. CASE CheckForToken
  <2>1. /\ Op("TOKEN") /\ UNCHANGED <<parsedtokens, production_rules, current_rule>>
        /\ op_count' = op_count + 1 /\ at \in Running
    BY <1>6 DEF CheckForToken, Advance, input, Running
  <2> QED BY <2>1, BegunOp DEF RulesHere
<1>7. CASE Finish
  <2>1. at' = "done" /\ UNCHANGED parsedtokens
    BY <1>7 DEF Finish, input
  <2> QED BY <2>1 DEF BegunInv, RuleBegun, Running
<1> QED
  BY <1>1, <1>2, <1>3, <1>4, <1>5, <1>6, <1>7 DEF Next, ReadRightSide

\* back() on no alternatives in a right side's handler: only where the file has
\* no operand before it.
LEMMA BrokenRightSide ==
  ASSUME InPlace, BegunInv, RightSideUndefined
  PROVE  UndefinedOnlyOnBrokenRules'
<1> SUFFICES ASSUME Tidy(parsedtokens)
             PROVE  \/ Last(parsedtokens).type \in {"OR", "EXCL", "STR"}
                    \/ \E p \in DOMAIN parsedtokens :
                         /\ parsedtokens[p].type = "LIST"
                         /\ \A q \in Owned(parsedtokens, Owner(parsedtokens, p),
                                           OperandTypes \cup {"OR"}) : p < q
  BY DEF UndefinedOnlyOnBrokenRules, RightSideUndefined, input
<1>1. /\ Op("RSIDE") /\ at \in Running
      /\ \/ Tok.type \in {"STR", "EXCL"} /\ ~ HasNextTok
         \/ Tok.type = "LIST" /\ RulesHere = <<>>
  BY DEF RightSideUndefined, Running, RulesHere
<1>2. /\ IsFile(parsedtokens) /\ Here \in 1..Len(parsedtokens) /\ Tok = parsedtokens[Here]
      /\ tok_count + 1 = Here /\ Len(parsedtokens) \in Nat /\ tok_count \in Nat
      /\ Here = NextStart(parsedtokens, op_count)
  BY <1>1, AtOp, TidyHere
<1>3. CASE Tok.type \in {"STR", "EXCL"} /\ ~ HasNextTok
  <2>1. Here = Len(parsedtokens)
    BY <1>2, <1>3 DEF HasNextTok
  <2> QED BY <1>2, <1>3, <2>1 DEF Last
<1>4. CASE Tok.type = "LIST" /\ RulesHere = <<>>
  <2> DEFINE q == Owner(parsedtokens, Here)
  <2>1. Seen(parsedtokens, op_count, q, BarsAndOperands) = {}
    BY <1>1, <1>2, <1>4 DEF BegunInv, RuleBegun, Begun
  <2>2. ASSUME NEW p \in Owned(parsedtokens, q, BarsAndOperands)
        PROVE  Here < p
    <3>1. p \in Int /\ Here \in Int /\ parsedtokens[p].type \in BarsAndOperands
      BY <1>2, PlacesAre
    <3>2. ~ (p < Here)
      BY <1>2, <2>1 DEF Seen
    <3>3. p # Here
      BY <1>2, <1>4, <3>1 DEF BarsAndOperands, OperandTypes
    <3> QED BY <3>1, <3>2, <3>3
  <2>3. Here \in DOMAIN parsedtokens
    BY <1>2, PlacesAre
  <2> QED BY <1>2, <1>4, <2>2, <2>3 DEF BarsAndOperands
<1> QED
  BY <1>1, <1>3, <1>4

\* The same of the helper for operators.
LEMMA BrokenOperators ==
  ASSUME InPlace, CheckOperators
  PROVE  UndefinedOnlyOnBrokenRules'
<1> SUFFICES ASSUME Tidy(parsedtokens), at' = "undefined"
             PROVE  Last(parsedtokens).type = "OR"
  BY DEF UndefinedOnlyOnBrokenRules, CheckOperators, input
<1>1. ReadsOr /\ op_count + 1 = Len(grammar)
  BY DEF CheckOperators
<1>2. Op("OR") /\ Tok.type = "OR"
  BY <1>1 DEF ReadsOr
<1>3. /\ IsFile(parsedtokens) /\ Here \in 1..Len(parsedtokens) /\ Tok = parsedtokens[Here]
      /\ Here = NextStart(parsedtokens, op_count) /\ Match(parsedtokens, Here) = "OR"
      /\ op_count \in 0..Len(Starts(parsedtokens)) /\ op_count < Len(Starts(parsedtokens))
      /\ Len(parsedtokens) \in Nat
  BY <1>2, AtOp, TidyHere
<1>4. Len(grammar) = Len(Starts(parsedtokens)) /\ Len(grammar) \in Nat
  BY StartsAre, HereIs DEF InPlace
<1>5. NextStart(parsedtokens, op_count + 1) = Len(parsedtokens) + 1
  BY <1>1, <1>4 DEF NextStart
<1>6. NoStrayBefore(parsedtokens, Len(parsedtokens) + 1)
  <2>1. \A p \in 1..((Len(parsedtokens) + 1) - 1) : p \in DOMAIN parsedtokens
    BY <1>3, PlacesAre
  <2> QED BY <2>1 DEF NoStrayBefore, Tidy
<1>7. Len(parsedtokens) + 1 = Here + Width(parsedtokens, Here)
  BY <1>3, <1>5, <1>6, NextStartBehind
<1>8. Width(parsedtokens, Here) = 1
  BY <1>3 DEF Width
<1>9. Here = Len(parsedtokens)
  BY <1>3, <1>7, <1>8
<1> QED
  BY <1>2, <1>3, <1>9 DEF Last

\* And of every step.
LEMMA BrokenStep ==
  ASSUME InPlace, BegunInv, Next
  PROVE  UndefinedOnlyOnBrokenRules'
<1>1. CASE RightSideUndefined
  BY <1>1, BrokenRightSide
<1>2. CASE CheckOperators
  BY <1>2, BrokenOperators
<1>3. CASE ~ RightSideUndefined /\ ~ CheckOperators
  <2>1. at' # "undefined"
    BY <1>3 DEF Next, CheckAxiom, CheckLeftSide, KeepAsText, Keep, MakeList, MakeListOp,
                AddToRule, RightSide, LeaveRightSide, NoToken, CheckForToken, CleanRegexThrows,
                Finish, NextRound
  <2> QED BY <2>1 DEF UndefinedOnlyOnBrokenRules
<1> QED
  BY <1>1, <1>2, <1>3

-----------------------------------------------------------------------------
(* What the rules keep.                                                     *)

\* What the marks read so far say is kept in the rule with this left side.
MarkedSoFar(file, op, q) ==
  {Clean(file[p + 1].value) : p \in Seen(file, op, q, {"EXCL", "STR"})}
    \cup ({file[p].label : p \in Seen(file, op, q, {"STR", "TERMINAL", "NONTERMINAL"})}
            \ {NoLabel})

\* What the token at one place marks.
MarkOf(file, p) ==
  (IF file[p].type \in {"EXCL", "STR"} THEN {Clean(file[p + 1].value)} ELSE {})
    \cup (IF file[p].type \in {"STR", "TERMINAL", "NONTERMINAL"}
          THEN {file[p].label} \ {NoLabel} ELSE {})

\* The keeper has it, for every rule.
KeptSoFar(file, op, map) ==
  \A q \in LeftSides(file) : SetAt(map, file[q].value) = MarkedSoFar(file, op, q)

\* Only these names keep anything.
OnlyKept(file, map) == \A m : SetAt(map, m) # {} => m \in LeftNames(file)

\* The rule that is read is the one of the last left side.
RuleIs(file, op, rule) ==
  LET q == Owner(file, NextStart(file, op))
  IN  q # 0 => rule = file[q].value

\* The rule at hand is the one of the last left side: any other match leaves it
\* so.
LEMMA RuleIsOver ==
  ASSUME NEW file, IsFile(file), NEW op \in 0..Len(Starts(file)), op < Len(Starts(file)),
         Match(file, NextStart(file, op)) # "LSIDE", NEW rule, RuleIs(file, op, rule)
  PROVE  RuleIs(file, op + 1, rule)
BY OwnerNext DEF RuleIs

\* And a left side changes it.
LEMMA RuleIsNew ==
  ASSUME NEW file, IsFile(file), NEW op \in 0..Len(Starts(file)), op < Len(Starts(file)),
         Match(file, NextStart(file, op)) = "LSIDE"
  PROVE  RuleIs(file, op + 1, file[NextStart(file, op)].value)
BY OwnerNext DEF RuleIs

\* At the start nothing is marked and nothing kept.
LEMMA KeptFirst ==
  ASSUME NEW file, IsFile(file), NEW map, \A name : SetAt(map, name) = {}
  PROVE  KeptSoFar(file, 0, map)
BY SeenFirst DEF KeptSoFar, MarkedSoFar

\* Matches outside a right side mark nothing.
LEMMA KeptOver ==
  ASSUME NEW file, IsFile(file), NEW op \in 0..Len(Starts(file)), op < Len(Starts(file)),
         Match(file, NextStart(file, op)) \notin {"OR", "RSIDE"},
         NEW map, KeptSoFar(file, op, map)
  PROVE  KeptSoFar(file, op + 1, map)
<1>1. ASSUME NEW q, NEW types
      PROVE  Seen(file, op + 1, q, types) = Seen(file, op, q, types)
  <2>1. NextStart(file, op) \notin Owned(file, q, types)
    BY PlacesAre
  <2> QED BY <2>1, SeenStep
<1> QED
  BY <1>1, Zenon DEF KeptSoFar, MarkedSoFar

\* A match of a right side marks, in its rule, what its mark says.
LEMMA MarkedStep ==
  ASSUME NEW file, IsFile(file), NEW op \in 0..Len(Starts(file)), op < Len(Starts(file)),
         Match(file, NextStart(file, op)) \in {"OR", "RSIDE"}, NEW q
  PROVE  MarkedSoFar(file, op + 1, q) =
           IF q = Owner(file, NextStart(file, op))
           THEN MarkedSoFar(file, op, q) \cup MarkOf(file, NextStart(file, op))
           ELSE MarkedSoFar(file, op, q)
<1> DEFINE p == NextStart(file, op)
           Keeps == {"EXCL", "STR"}
           Labels == {"STR", "TERMINAL", "NONTERMINAL"}
<1>1. p \in 1..Len(file) /\ p \in DOMAIN file
  BY NextStartIs, PlacesAre
<1>2. ASSUME NEW types
      PROVE  Seen(file, op + 1, q, types) =
               IF q = Owner(file, p) /\ file[p].type \in types
               THEN Seen(file, op, q, types) \cup {p} ELSE Seen(file, op, q, types)
  <2>1. p \in Owned(file, q, types) <=> file[p].type \in types /\ Owner(file, p) = q
    BY <1>1 DEF Owned
  <2> QED BY <2>1, SeenStep
<1>3. /\ Seen(file, op + 1, q, Keeps) = IF q = Owner(file, p) /\ file[p].type \in Keeps
                                       THEN Seen(file, op, q, Keeps) \cup {p}
                                       ELSE Seen(file, op, q, Keeps)
      /\ Seen(file, op + 1, q, Labels) = IF q = Owner(file, p) /\ file[p].type \in Labels
                                        THEN Seen(file, op, q, Labels) \cup {p}
                                        ELSE Seen(file, op, q, Labels)
  BY <1>2, Zenon
<1> HIDE DEF p
<1>4. CASE q # Owner(file, p)
  BY <1>3, <1>4 DEF MarkedSoFar, p
<1>5. CASE q = Owner(file, p)
  BY <1>3, <1>5 DEF MarkedSoFar, MarkOf, p
<1> QED
  BY <1>4, <1>5

\* Keeping that of the rule at hand keeps it of the rule that owns the match.
LEMMA KeptMark ==
  ASSUME NEW file, IsFile(file), NEW op \in 0..Len(Starts(file)), op < Len(Starts(file)),
         Match(file, NextStart(file, op)) \in {"OR", "RSIDE"}, Plain(file),
         NEW rule, RuleIs(file, op, rule), NEW map, KeptSoFar(file, op, map),
         NEW after,
         \A name : SetAt(after, name) =
                     IF name = rule THEN SetAt(map, name) \cup MarkOf(file, NextStart(file, op))
                     ELSE SetAt(map, name)
  PROVE  KeptSoFar(file, op + 1, after) /\ (OnlyKept(file, map) => OnlyKept(file, after))
<1> DEFINE p == NextStart(file, op)
           o == Owner(file, p)
<1>1. p \in 1..Len(file) /\ p \in DOMAIN file /\ p \in Int
  BY NextStartIs, PlacesAre
<1>2. o # 0
  BY <1>1 DEF Plain
<1>3. rule = file[o].value
  BY <1>2 DEF RuleIs
<1>4. o \in LeftSides(file)
  BY <1>1, <1>2, OwnerIs
<1>10. OnlyKept(file, map) => OnlyKept(file, after)
  <2>1. rule \in LeftNames(file)
    BY <1>3, <1>4 DEF LeftNames
  <2> QED BY <2>1 DEF OnlyKept
<1>5. SUFFICES ASSUME NEW q \in LeftSides(file)
               PROVE  SetAt(after, file[q].value) = MarkedSoFar(file, op + 1, q)
  BY <1>10 DEF KeptSoFar
<1>6. SetAt(map, file[q].value) = MarkedSoFar(file, op, q)
  BY DEF KeptSoFar
<1>7. q # o => file[q].value # rule
  BY <1>3, <1>4 DEF Plain
<1>8. MarkedSoFar(file, op + 1, q) = IF q = o THEN MarkedSoFar(file, op, q) \cup MarkOf(file, p)
                                     ELSE MarkedSoFar(file, op, q)
  BY MarkedStep
<1>9. SetAt(after, file[q].value) =
        IF file[q].value = rule THEN SetAt(map, file[q].value) \cup MarkOf(file, p)
        ELSE SetAt(map, file[q].value)
  BY Zenon
<1> HIDE DEF p, o
<1> QED
  BY <1>3, <1>6, <1>7, <1>8, <1>9

\* The keeper has what the marks read so far say, nothing else, and the rule at
\* hand is the one of the last left side.
MarksInv ==
  Plain(parsedtokens) => /\ KeptSoFar(parsedtokens, op_count, keeper)
                         /\ OnlyKept(parsedtokens, keeper)
                         /\ RuleIs(parsedtokens, op_count, current_rule)

\* A step that reads nothing and keeps nothing preserves it.
LEMMA MarksSame ==
  ASSUME MarksInv, UNCHANGED <<parsedtokens, op_count, keeper, current_rule>>
  PROVE  MarksInv'
BY DEF MarksInv

\* So does reading a match outside a right side.
LEMMA MarksOver ==
  ASSUME InPlace, MarksInv, NEW type, Op(type), type \notin {"LSIDE", "OR", "RSIDE"},
         UNCHANGED <<parsedtokens, keeper, current_rule>>, op_count' = op_count + 1
  PROVE  MarksInv'
<1> DEFINE file == parsedtokens
           op   == op_count
           map  == keeper
           rule == current_rule
<1> SUFFICES ASSUME Plain(file)
             PROVE  KeptSoFar(file, op + 1, map) /\ RuleIs(file, op + 1, rule)
  BY DEF MarksInv
<1>1. /\ IsFile(file) /\ op \in 0..Len(Starts(file)) /\ op < Len(Starts(file))
      /\ Match(file, NextStart(file, op)) = type
      /\ KeptSoFar(file, op, map) /\ RuleIs(file, op, rule)
  BY AtOp DEF MarksInv
<1> HIDE DEF file, op, map, rule
<1> QED
  BY <1>1, KeptOver, RuleIsOver

\* So does reading one of a right side, with the keeping that its mark asks
\* for.
LEMMA MarksRead ==
  ASSUME InPlace, MarksInv, NEW type \in {"OR", "RSIDE"}, Op(type),
         UNCHANGED <<parsedtokens, current_rule>>, op_count' = op_count + 1,
         Plain(parsedtokens) =>
           \A name : SetAt(keeper', name) =
                       IF name = current_rule THEN SetAt(keeper, name) \cup MarkOf(parsedtokens, Here)
                       ELSE SetAt(keeper, name)
  PROVE  MarksInv'
<1> DEFINE file == parsedtokens
           op   == op_count
           map  == keeper
           after == keeper'
           rule == current_rule
<1> SUFFICES ASSUME Plain(file)
             PROVE  /\ KeptSoFar(file, op + 1, after) /\ RuleIs(file, op + 1, rule)
                    /\ OnlyKept(file, after)
  BY DEF MarksInv
<1>1. /\ IsFile(file) /\ op \in 0..Len(Starts(file)) /\ op < Len(Starts(file))
      /\ Match(file, NextStart(file, op)) = type /\ Here = NextStart(file, op)
      /\ KeptSoFar(file, op, map) /\ RuleIs(file, op, rule) /\ OnlyKept(file, map)
  BY AtOp DEF MarksInv
<1>2. \A name : SetAt(after, name) =
                  IF name = rule THEN SetAt(map, name) \cup MarkOf(file, NextStart(file, op))
                  ELSE SetAt(map, name)
  BY <1>1
<1> HIDE DEF file, op, map, rule, after
<1> QED
  BY <1>1, <1>2, KeptMark, RuleIsOver

\* In a plain file the parser's lookahead is at the places where it thinks it
\* is.
LEMMA TidyTokens ==
  ASSUME InPlace, Plain(parsedtokens), StillParsing
  PROVE  /\ Tok = parsedtokens[Here] /\ NextTok = parsedtokens[Here + 1]
         /\ tok_count + 1 = Here /\ IsToken(Tok)
<1>1. tok_count + 1 = Here /\ Tok = parsedtokens[Here]
  BY TidyHere DEF Plain
<1>2. tok_count + 2 = Here + 1
  <2>1. tok_count \in Int
    BY HereIs
  <2> QED BY <1>1, <2>1
<1> QED
  BY <1>1, <1>2, TokIs DEF NextTok

\* The handlers of a right side keep what is marked.
LEMMA MarksRightSide ==
  ASSUME InPlace, MarksInv, ReadRightSide
  PROVE  MarksInv'
<1>1. /\ Op("RSIDE") /\ UNCHANGED <<parsedtokens, current_rule>> /\ op_count' = op_count + 1
  BY ReadRightSideIs DEF input
<1>2. SUFFICES ASSUME Plain(parsedtokens), NEW name
               PROVE  SetAt(keeper', name) =
                        IF name = current_rule
                        THEN SetAt(keeper, name) \cup MarkOf(parsedtokens, Here)
                        ELSE SetAt(keeper, name)
  BY <1>1, MarksRead
<1>3. /\ Tok = parsedtokens[Here] /\ NextTok = parsedtokens[Here + 1] /\ IsToken(Tok)
  BY <1>1, <1>2, TidyTokens DEF Op
<1>4. MarkOf(parsedtokens, Here) =
        (IF Tok.type \in {"EXCL", "STR"} THEN {Clean(NextTok.value)} ELSE {})
          \cup (IF Tok.type \in {"STR", "TERMINAL", "NONTERMINAL"}
                THEN {Tok.label} \ {NoLabel} ELSE {})
  BY <1>3 DEF MarkOf
<1>5. CASE KeepAsText
  <2> DEFINE set == {Clean(NextTok.value)} \cup ({Tok.label} \ {NoLabel})
  <2>1. Tok.type = "STR" /\ keeper' = AddTo(keeper, current_rule, set)
    BY <1>5 DEF KeepAsText, RightSide
  <2>2. set = MarkOf(parsedtokens, Here)
    BY <1>4, <2>1
  <2> HIDE DEF set
  <2> QED BY <2>1, <2>2, SetAtAdd
<1>6. CASE Keep
  <2> DEFINE set == {Clean(NextTok.value)}
  <2>1. Tok.type = "EXCL" /\ keeper' = AddTo(keeper, current_rule, set)
    BY <1>6 DEF Keep, RightSide
  <2>2. set = MarkOf(parsedtokens, Here)
    BY <1>4, <2>1
  <2> HIDE DEF set
  <2> QED BY <2>1, <2>2, SetAtAdd
<1>7. CASE MakeList \/ MakeListOp
  <2>1. Tok.type \in {"LIST", "LISTOP"} /\ UNCHANGED keeper
    BY <1>7 DEF MakeList, MakeListOp, RightSide, notes
  <2>2. MarkOf(parsedtokens, Here) = {}
    BY <1>4, <2>1
  <2> QED BY <2>1, <2>2
<1>8. CASE AddToRule
  <2>1. Tok.type \in OperandTypes \cup Separators
    BY <1>8 DEF AddToRule, RightSide
  <2>2. MarkOf(parsedtokens, Here) = IF Tok.label = NoLabel THEN {} ELSE {Tok.label}
    <3>1. Tok.type \notin {"EXCL", "STR"}
      BY <2>1 DEF OperandTypes, Separators
    <3>2. Tok.label # NoLabel => Tok.type \in {"TERMINAL", "NONTERMINAL", "STR"}
      BY <1>3 DEF IsToken
    <3> QED BY <1>4, <3>1, <3>2
  <2>3. CASE Tok.label = NoLabel
    <3>1. UNCHANGED keeper
      BY <1>8, <2>3 DEF AddToRule
    <3> QED BY <2>2, <2>3, <3>1
  <2>4. CASE Tok.label # NoLabel
    <3> DEFINE set == {Tok.label}
    <3>1. keeper' = AddTo(keeper, current_rule, set) /\ set = MarkOf(parsedtokens, Here)
      BY <1>8, <2>2, <2>4 DEF AddToRule
    <3> HIDE DEF set
    <3> QED BY <3>1, SetAtAdd
  <2> QED BY <2>3, <2>4
<1> QED
  BY <1>5, <1>6, <1>7, <1>8 DEF ReadRightSide

\* The helper for operators does too.
LEMMA MarksOperators ==
  ASSUME InPlace, MarksInv, CheckOperators
  PROVE  MarksInv'
<1> DEFINE file == parsedtokens
           map  == keeper
           rule == current_rule
           read == IF ReadsOr THEN 1 ELSE 0
           op   == op_count + read
           note == /\ op < Len(grammar)
                   /\ grammar[op + 1] = "LINECOMMENT"
                   /\ parsedtokens[tok_count + read + 1].type = "LINECOMMENT"
<1>1. /\ UNCHANGED <<parsedtokens, current_rule, keeper>>
      /\ IF note THEN Advance(read + 1, read + 1) ELSE Advance(read, read)
  BY DEF CheckOperators, input, notes
<1>2. SUFFICES ASSUME Plain(parsedtokens)
               PROVE  KeptSoFar(file, op_count', map) /\ RuleIs(file, op_count', rule)
  BY <1>1 DEF MarksInv
<1>3. KeptSoFar(file, op_count, map) /\ RuleIs(file, op_count, rule)
  BY <1>1, <1>2 DEF MarksInv
<1>4. IsFile(file) /\ op_count \in 0..Len(Starts(file)) /\ Len(grammar) = Len(Starts(file))
      /\ grammar = SecondLexer(file)
  BY StartsAre DEF InPlace, Placed
<1>5. op \in 0..Len(Starts(file)) /\ KeptSoFar(file, op, map) /\ RuleIs(file, op, rule)
  <2>1. CASE ReadsOr
    <3>1. Op("OR") /\ Tok.type = "OR"
      BY <2>1 DEF ReadsOr
    <3>2. /\ op_count < Len(Starts(file)) /\ Match(file, NextStart(file, op_count)) = "OR"
          /\ op = op_count + 1 /\ Len(Starts(file)) \in Nat /\ Here = NextStart(file, op_count)
      BY <2>1, <3>1, <1>4, AtOp, NextStartIs
    <3>3. MarkOf(file, NextStart(file, op_count)) = {}
      <4>1. parsedtokens[Here].type = "OR"
        BY <1>2, <3>1, TidyTokens DEF Op
      <4> QED BY <3>2, <4>1 DEF MarkOf
    <3> HIDE DEF file, map, rule
    <3>4. \A name : SetAt(map, name) =
                      IF name = rule
                      THEN SetAt(map, name) \cup MarkOf(file, NextStart(file, op_count))
                      ELSE SetAt(map, name)
      BY <3>3
    <3>5. KeptSoFar(file, op_count + 1, map)
      BY <1>2, <1>3, <1>4, <3>2, <3>4, KeptMark DEF file
    <3>6. RuleIs(file, op_count + 1, rule)
      BY <1>3, <1>4, <3>2, RuleIsOver
    <3> QED BY <1>4, <3>2, <3>5, <3>6
  <2>2. CASE ~ ReadsOr
    <3>1. op = op_count
      BY <1>4, <2>2
    <3> QED BY <1>3, <1>4, <3>1
  <2> QED BY <2>1, <2>2
<1>6. CASE note
  <2>1. /\ op < Len(Starts(file)) /\ SecondLexer(file)[op + 1] = "LINECOMMENT"
        /\ op_count' = op_count + (read + 1) /\ op_count \in Nat /\ read \in Nat
    BY <1>1, <1>4, <1>6 DEF Advance
  <2>2. op_count' = op + 1
    <3> HIDE DEF read
    <3> QED BY <2>1
  <2> HIDE DEF op, file, map, rule
  <2>3. Match(file, NextStart(file, op)) = "LINECOMMENT"
    BY <1>4, <1>5, <2>1, NextStartIs
  <2>4. KeptSoFar(file, op + 1, map) /\ RuleIs(file, op + 1, rule)
    BY <1>4, <1>5, <2>1, <2>3, KeptOver, RuleIsOver
  <2> QED BY <2>2, <2>4
<1>7. CASE ~ note
  BY <1>1, <1>5, <1>7 DEF Advance
<1> QED
  BY <1>6, <1>7

\* Every step does.
LEMMA MarksStep ==
  ASSUME InPlace, MarksInv, Next
  PROVE  MarksInv'
<1>1. CASE CheckAxiom
  <2>0. UNCHANGED <<parsedtokens, current_rule, keeper>>
    BY <1>1 DEF CheckAxiom, input, notes
  <2>1. CASE Op("AXIOM") /\ axiomflag
    <3>1. op_count' = op_count + 1
      BY <1>1, <2>1 DEF CheckAxiom, Advance
    <3> QED BY <2>0, <2>1, <3>1, MarksOver
  <2>2. CASE ~ (Op("AXIOM") /\ axiomflag)
    BY <1>1, <2>0, <2>2, MarksSame DEF CheckAxiom
  <2> QED BY <2>1, <2>2
<1>2. CASE CheckLeftSide
  <2>0. UNCHANGED <<parsedtokens, keeper>>
    BY <1>2 DEF CheckLeftSide, input, notes
  <2>1. CASE Op("LSIDE")
    <3>1. op_count' = op_count + 1 /\ current_rule' = Tok.value
      BY <1>2, <2>1 DEF CheckLeftSide, Advance
    <3> DEFINE file == parsedtokens
               op   == op_count
               map  == keeper
    <3> SUFFICES ASSUME Plain(file)
                 PROVE  KeptSoFar(file, op + 1, map) /\ RuleIs(file, op + 1, current_rule')
      BY <2>0, <3>1 DEF MarksInv
    <3>2. /\ IsFile(file) /\ op \in 0..Len(Starts(file)) /\ op < Len(Starts(file))
          /\ Match(file, NextStart(file, op)) = "LSIDE" /\ KeptSoFar(file, op, map)
          /\ Here = NextStart(file, op)
      BY <2>1, AtOp DEF MarksInv
    <3>3. current_rule' = file[NextStart(file, op)].value
      BY <2>1, <3>1, <3>2, TidyTokens DEF Op
    <3> HIDE DEF file, op, map
    <3> QED BY <3>2, <3>3, KeptOver, RuleIsNew
  <2>2. CASE ~ Op("LSIDE")
    BY <1>2, <2>0, <2>2, MarksSame DEF CheckLeftSide
  <2> QED BY <2>1, <2>2
<1>3. CASE ReadRightSide
  BY <1>3, MarksRightSide
<1>4. CASE RightSideUndefined \/ LeaveRightSide \/ NoToken \/ CleanRegexThrows \/ Finish
  <2>1. UNCHANGED <<parsedtokens, op_count, keeper, current_rule>>
    BY <1>4 DEF RightSideUndefined, LeaveRightSide, NoToken, CleanRegexThrows, Finish, input, notes
  <2> QED BY <2>1, MarksSame
<1>5. CASE CheckOperators
  BY <1>5, MarksOperators
<1>6. CASE CheckForToken
  <2>1. /\ Op("TOKEN") /\ UNCHANGED <<parsedtokens, keeper, current_rule>>
        /\ op_count' = op_count + 1
    BY <1>6 DEF CheckForToken, Advance, input, notes
  <2> QED BY <2>1, MarksOver
<1> QED
  BY <1>1, <1>2, <1>3, <1>4, <1>5, <1>6 DEF Next, ReadRightSide

\* The parse is done behind the last match.
EndInv == at = "done" => op_count = Len(Starts(parsedtokens))

\* A step ends the parser only after the last match.
LEMMA EndStep ==
  ASSUME InPlace, Next
  PROVE  EndInv'
<1>1. CASE Finish
  <2>1. ~ (op_count < Len(grammar)) /\ UNCHANGED <<parsedtokens, op_count>>
    BY <1>1 DEF Finish, StillParsing, input
  <2>2. op_count \in 0..Len(grammar) /\ Len(grammar) = Len(Starts(parsedtokens))
        /\ Len(grammar) \in Nat
    BY HereIs, StartsAre DEF InPlace
  <2> QED BY <2>1, <2>2 DEF EndInv
<1>2. CASE ~ Finish
  <2>1. at' # "done"
    BY <1>2 DEF Next, CheckAxiom, CheckLeftSide, KeepAsText, Keep, MakeList, MakeListOp,
                AddToRule, RightSide, LeaveRightSide, NoToken, CheckForToken, CleanRegexThrows,
                NextRound, RightSideUndefined, CheckOperators
  <2> QED BY <2>1 DEF EndInv
<1> QED
  BY <1>1, <1>2

\* At the end this is the promise about kept operands.
LEMMA MarksKept ==
  ASSUME InPlace, MarksInv, EndInv
  PROVE  KeepsWhatIsMarked
<1>0. ASSUME Plain(parsedtokens), NEW name \in DOMAIN keeper, keeper[name] # {}
      PROVE  name \in LeftNames(parsedtokens)
  <2>1. SetAt(keeper, name) # {}
    BY <1>0 DEF SetAt
  <2> QED BY <1>0, <2>1 DEF MarksInv, OnlyKept
<1> SUFFICES ASSUME at = "done", Plain(parsedtokens), NEW q \in LeftSides(parsedtokens)
             PROVE  SetAt(keeper, parsedtokens[q].value) = Marked(parsedtokens, q)
  BY <1>0 DEF KeepsWhatIsMarked
<1>1. IsFile(parsedtokens) /\ op_count = Len(Starts(parsedtokens))
  BY DEF InPlace, EndInv
<1>2. SetAt(keeper, parsedtokens[q].value) = MarkedSoFar(parsedtokens, op_count, q)
  BY DEF MarksInv, KeptSoFar
<1>3. \A types : Seen(parsedtokens, op_count, q, types) = Owned(parsedtokens, q, types)
  BY <1>1, SeenAll
<1>4. /\ Seen(parsedtokens, op_count, q, {"EXCL", "STR"})
           = Owned(parsedtokens, q, {"EXCL", "STR"})
      /\ Seen(parsedtokens, op_count, q, {"STR", "TERMINAL", "NONTERMINAL"})
           = Owned(parsedtokens, q, {"STR", "TERMINAL", "NONTERMINAL"})
  BY <1>3, Zenon
<1>5. MarkedSoFar(parsedtokens, op_count, q) = Marked(parsedtokens, q)
  BY <1>4 DEF Marked, MarkedSoFar
<1> QED
  BY <1>2, <1>5

-----------------------------------------------------------------------------
(* The alternatives of a rule, as far as they were read.                    *)

\* What a right side is made of: operands, lists and bars.
BodyTypes == OperandTypes \cup {"LIST", "OR"}

\* The places of one alternative's operands.
OperandPlaces(file, q, n) == {p \in Owned(file, q, OperandTypes) : AlternativeOf(file, p) = n}

\* The place of its list, if it has one.
ListPlaces(file, q, n) == {p \in Owned(file, q, {"LIST"}) : AlternativeOf(file, p) = n}

\* The places among these that were read, in order.
ReadPlaces(file, op, places) == Enumerate(places, NextStart(file, op) - 1)

\* The operands written at these places.
OperandsAt(file, places) == [m \in DOMAIN places |-> AsOperand(file[places[m]])]

\* What was read of one alternative: its operands, or what a list becomes.
AlternativeSoFar(file, op, q, n) ==
  IF \E p \in ListPlaces(file, q, n) : p < NextStart(file, op)
  THEN <<NameOperand(file[q].value), NameOperand(file[q].value)>>
  ELSE OperandsAt(file, ReadPlaces(file, op, OperandPlaces(file, q, n)))

\* The bars of a rule that were read.
Bars(file, op, q) == Cardinality(Seen(file, op, q, {"OR"}))

\* The alternatives of a rule that were read, the last of them as far as it
\* was.
RulesSoFar(file, op, q) ==
  IF Seen(file, op, q, BodyTypes) = {} THEN <<>>
  ELSE [n \in 1..(Bars(file, op, q) + 1) |-> AlternativeSoFar(file, op, q, n)]

\* Places of matches, read up to one match and up to the next.
LEMMA ReadPlacesStep ==
  ASSUME NEW file, IsFile(file), NEW op \in 0..Len(Starts(file)), op < Len(Starts(file)),
         NEW places, \A x \in places : x \in 1..Len(file) /\ Match(file, x) # NoMatch
  PROVE  /\ ReadPlaces(file, op, places) \in Seq(1..Len(file))
         /\ ReadPlaces(file, op + 1, places) =
              IF NextStart(file, op) \in places
              THEN Append(ReadPlaces(file, op, places), NextStart(file, op))
              ELSE ReadPlaces(file, op, places)
<1> DEFINE p == NextStart(file, op)
           next == NextStart(file, op + 1)
<1>1. p \in 1..Len(file) /\ p < next /\ Len(file) \in Nat
  BY NextStartIs
<1>2. next \in Int
  <2>1. Starts(file) \in Seq(1..Len(file))
    BY StartsAre
  <2>2. op + 1 \in Nat /\ op + 1 <= Len(Starts(file))
    BY <2>1
  <2> QED BY <2>2, NextStartInt
<1>3. \A x \in (p + 1)..(next - 1) : x \notin places
  <2>1. ASSUME NEW x \in (p + 1)..(next - 1), x \in places PROVE FALSE
    <3>1. x < next /\ ~ (x < p) /\ x # p
      BY <1>1, <1>2, <2>1
    <3> HIDE DEF p, next
    <3>2. x \in 1..Len(file) /\ Match(file, x) # NoMatch
      BY <2>1
    <3>3. x < next <=> x < p \/ x = p
      BY <3>2, StartBefore DEF p, next
    <3> QED BY <3>1, <3>3
  <2> QED BY <2>1
<1>4. p - 1 \in Nat /\ p \in Nat /\ next - 1 \in Nat /\ p <= next - 1 /\ (p - 1) + 1 = p
  BY <1>1, <1>2
<1> HIDE DEF p, next
<1>5. Enumerate(places, next - 1) = Enumerate(places, p)
  BY <1>3, <1>4, EnumerateSkip
<1>6. Enumerate(places, p) = IF p \in places THEN Append(Enumerate(places, p - 1), p)
                             ELSE Enumerate(places, p - 1)
  <2> DEFINE n == p - 1
  <2>1. n \in Nat /\ n + 1 = p
    BY <1>4
  <2> HIDE DEF n
  <2>2. Enumerate(places, n + 1) = IF n + 1 \in places THEN Append(Enumerate(places, n), n + 1)
                                   ELSE Enumerate(places, n)
    BY <2>1, EnumerateStep
  <2> QED BY <2>1, <2>2 DEF n
<1>7. Enumerate(places, p - 1) \in Seq(1..Len(file))
  <2> DEFINE n == p - 1
  <2>1. n \in Nat /\ n <= Len(file)
    BY <1>1, <1>4
  <2> HIDE DEF n
  <2>2. Enumerate(places, n) \in Seq(1..n)
    BY <2>1, EnumerateType
  <2>3. 1..n \subseteq 1..Len(file)
    BY <1>1, <2>1
  <2>4. Enumerate(places, n) \in Seq(1..Len(file))
    BY <2>2, <2>3, SeqWider
  <2> QED BY <2>4 DEF n
<1> QED
  BY <1>5, <1>6, <1>7 DEF ReadPlaces, p, next

\* At the start no place was read.
LEMMA ReadPlacesFirst ==
  ASSUME NEW file, IsFile(file),
         NEW places, \A x \in places : x \in 1..Len(file) /\ Match(file, x) # NoMatch
  PROVE  ReadPlaces(file, 0, places) = <<>>
<1> DEFINE p == NextStart(file, 0)
<1>1. p \in 1..(Len(file) + 1) /\ Len(file) \in Nat
  <2>1. Starts(file) \in Seq(1..Len(file))
    BY StartsAre
  <2>2. 0 \in 0..Len(Starts(file))
    BY <2>1
  <2> QED BY <2>2, NextStartIs
<1>2. \A x \in 1..(p - 1) : x \notin places
  <2>1. ASSUME NEW x \in 1..(p - 1), x \in places PROVE FALSE
    <3>1. x < p
      BY <1>1, <2>1
    <3> QED BY <2>1, <3>1, NoStartBeforeFirst
  <2> QED BY <2>1
<1>3. p - 1 \in Nat
  BY <1>1
<1> HIDE DEF p
<1>4. Enumerate(places, p - 1) = <<>>
  BY <1>2, <1>3, EnumerateNone
<1> QED
  BY <1>4 DEF ReadPlaces, p

\* At the end all were.
LEMMA ReadPlacesAll ==
  ASSUME NEW file, IsFile(file), NEW places
  PROVE  ReadPlaces(file, Len(Starts(file)), places) = Enumerate(places, Len(file))
<1>1. Starts(file) \in Seq(1..Len(file)) /\ Len(file) \in Nat
  BY StartsAre, FileIsSequence
<1>2. ~ (Len(Starts(file)) < Len(Starts(file)))
  BY <1>1
<1>3. NextStart(file, Len(Starts(file))) = Len(file) + 1
  BY <1>2 DEF NextStart
<1>4. NextStart(file, Len(Starts(file))) - 1 = Len(file)
  BY <1>1, <1>3
<1> QED
  BY <1>4 DEF ReadPlaces

\* A place further on adds its operand.
LEMMA OperandsStep ==
  ASSUME NEW file, IsFile(file), NEW op \in 0..Len(Starts(file)), op < Len(Starts(file)),
         NEW places, \A x \in places : x \in 1..Len(file) /\ Match(file, x) # NoMatch
  PROVE  /\ OperandsAt(file, ReadPlaces(file, op, places))
              \in Seq({AsOperand(file[p]) : p \in DOMAIN file})
         /\ OperandsAt(file, ReadPlaces(file, op + 1, places)) =
              IF NextStart(file, op) \in places
              THEN Append(OperandsAt(file, ReadPlaces(file, op, places)),
                          AsOperand(file[NextStart(file, op)]))
              ELSE OperandsAt(file, ReadPlaces(file, op, places))
<1> DEFINE D == 1..Len(file)
           T == {AsOperand(file[p]) : p \in DOMAIN file}
           f == [p \in D |-> AsOperand(file[p])]
           d == ReadPlaces(file, op, places)
           x == NextStart(file, op)
<1>1. x \in D /\ DOMAIN file = D
  BY NextStartIs, PlacesAre
<1>2. f \in [D -> T] /\ f[x] = AsOperand(file[x])
  BY <1>1
<1>3. /\ d \in Seq(D)
      /\ ReadPlaces(file, op + 1, places) = IF x \in places THEN Append(d, x) ELSE d
  BY ReadPlacesStep
<1>4. \A e \in Seq(D) : OperandsAt(file, e) = [m \in DOMAIN e |-> f[e[m]]]
  <2>1. SUFFICES ASSUME NEW e \in Seq(D), NEW m \in DOMAIN e
                 PROVE  AsOperand(file[e[m]]) = f[e[m]]
    BY DEF OperandsAt
  <2>2. e[m] \in D
    BY <2>1
  <2> QED BY <2>2
<1> HIDE DEF D, T, f, d, x
<1>5. /\ [m \in DOMAIN d |-> f[d[m]]] \in Seq(T)
      /\ [m \in DOMAIN Append(d, x) |-> f[Append(d, x)[m]]]
           = Append([m \in DOMAIN d |-> f[d[m]]], f[x])
  BY <1>1, <1>2, <1>3, MappedAppend
<1>6. Append(d, x) \in Seq(D)
  BY <1>1, <1>3
<1>7. /\ OperandsAt(file, d) \in Seq(T)
      /\ OperandsAt(file, Append(d, x)) = Append(OperandsAt(file, d), AsOperand(file[x]))
  BY <1>2, <1>3, <1>4, <1>5, <1>6
<1> QED
  BY <1>3, <1>7 DEF T, d, x

\* The places of an alternative are matches of the second lexer, of its rule.
LEMMA BodyPlaces ==
  ASSUME NEW file, IsFile(file), NEW q, NEW n
  PROVE  /\ \A x \in OperandPlaces(file, q, n) :
              /\ x \in 1..Len(file) /\ Match(file, x) # NoMatch
              /\ x \in Owned(file, q, OperandTypes) /\ AlternativeOf(file, x) = n
         /\ \A x \in ListPlaces(file, q, n) :
              /\ x \in 1..Len(file) /\ Match(file, x) # NoMatch
              /\ x \in Owned(file, q, {"LIST"}) /\ AlternativeOf(file, x) = n
BY OwnedStarts DEF OperandPlaces, ListPlaces

\* A list was seen before, or is what is read now.
LEMMA ListsStep ==
  ASSUME NEW file, IsFile(file), NEW op \in 0..Len(Starts(file)), op < Len(Starts(file)),
         NEW q, NEW n
  PROVE  (\E x \in ListPlaces(file, q, n) : x < NextStart(file, op + 1)) <=>
           \/ \E x \in ListPlaces(file, q, n) : x < NextStart(file, op)
           \/ NextStart(file, op) \in ListPlaces(file, q, n)
<1>1. \A x \in ListPlaces(file, q, n) :
        x < NextStart(file, op + 1) <=> x < NextStart(file, op) \/ x = NextStart(file, op)
  BY BodyPlaces, StartBefore
<1> QED
  BY <1>1, Zenon

\* An alternative that was read in part is a sequence of operands.
LEMMA AlternativeType ==
  ASSUME NEW file, IsFile(file), NEW op \in 0..Len(Starts(file)), op < Len(Starts(file)),
         NEW q, NEW n
  PROVE  /\ AlternativeSoFar(file, op, q, n) \in Seq(OperandsOf(file, file[q].value))
         /\ OperandsAt(file, ReadPlaces(file, op, OperandPlaces(file, q, n)))
              \in Seq(OperandsOf(file, file[q].value))
<1> DEFINE T == {AsOperand(file[p]) : p \in DOMAIN file}
           U == OperandsOf(file, file[q].value)
           list == NameOperand(file[q].value)
           s == OperandsAt(file, ReadPlaces(file, op, OperandPlaces(file, q, n)))
<1>1. T \subseteq U /\ list \in U
  BY DEF OperandsOf
<1>2. s \in Seq(T)
  BY BodyPlaces, OperandsStep
<1>3. AlternativeSoFar(file, op, q, n) \in {<<list, list>>, s}
  BY DEF AlternativeSoFar
<1> HIDE DEF T, U, list, s
<1>4. s \in Seq(U) /\ <<list, list>> \in Seq(U)
  BY <1>1, <1>2, SeqWider
<1> QED
  BY <1>3, <1>4 DEF U, s

\* A match elsewhere leaves an alternative as far as it was.
LEMMA AlternativeSame ==
  ASSUME NEW file, IsFile(file), NEW op \in 0..Len(Starts(file)), op < Len(Starts(file)),
         NEW q, NEW n, NextStart(file, op) \notin ListPlaces(file, q, n),
         NextStart(file, op) \notin OperandPlaces(file, q, n)
  PROVE  AlternativeSoFar(file, op + 1, q, n) = AlternativeSoFar(file, op, q, n)
<1>1. OperandsAt(file, ReadPlaces(file, op + 1, OperandPlaces(file, q, n)))
        = OperandsAt(file, ReadPlaces(file, op, OperandPlaces(file, q, n)))
  <2> DEFINE K == OperandPlaces(file, q, n)
  <2>1. \A x \in K : x \in 1..Len(file) /\ Match(file, x) # NoMatch
    BY BodyPlaces
  <2>2. NextStart(file, op) \notin K
    OBVIOUS
  <2> HIDE DEF K
  <2>3. OperandsAt(file, ReadPlaces(file, op + 1, K)) = OperandsAt(file, ReadPlaces(file, op, K))
    BY <2>1, <2>2, OperandsStep
  <2> QED BY <2>3 DEF K
<1> QED
  BY <1>1, ListsStep DEF AlternativeSoFar

\* A list makes its alternative the rule's name twice.
LEMMA AlternativeList ==
  ASSUME NEW file, IsFile(file), NEW op \in 0..Len(Starts(file)), op < Len(Starts(file)),
         NEW q, NEW n, NextStart(file, op) \in ListPlaces(file, q, n)
  PROVE  AlternativeSoFar(file, op + 1, q, n)
           = <<NameOperand(file[q].value), NameOperand(file[q].value)>>
BY ListsStep DEF AlternativeSoFar

\* An operand goes to the end of its alternative.
LEMMA AlternativeOperand ==
  ASSUME NEW file, IsFile(file), NEW op \in 0..Len(Starts(file)), op < Len(Starts(file)),
         NEW q, NEW n, NextStart(file, op) \in OperandPlaces(file, q, n),
         ListPlaces(file, q, n) = {}
  PROVE  AlternativeSoFar(file, op + 1, q, n)
           = Append(AlternativeSoFar(file, op, q, n), AsOperand(file[NextStart(file, op)]))
<1>1. OperandsAt(file, ReadPlaces(file, op + 1, OperandPlaces(file, q, n)))
        = Append(OperandsAt(file, ReadPlaces(file, op, OperandPlaces(file, q, n))),
                 AsOperand(file[NextStart(file, op)]))
  <2> DEFINE K == OperandPlaces(file, q, n)
  <2>1. \A x \in K : x \in 1..Len(file) /\ Match(file, x) # NoMatch
    BY BodyPlaces
  <2>2. NextStart(file, op) \in K
    OBVIOUS
  <2> HIDE DEF K
  <2>3. OperandsAt(file, ReadPlaces(file, op + 1, K)) =
          Append(OperandsAt(file, ReadPlaces(file, op, K)), AsOperand(file[NextStart(file, op)]))
    BY <2>1, <2>2, OperandsStep
  <2> QED BY <2>3 DEF K
<1> QED
  BY <1>1 DEF AlternativeSoFar

\* The alternative that is being read is the one after as many bars as were
\* read.
LEMMA BarsAre ==
  ASSUME NEW file, IsFile(file), NEW op \in 0..Len(Starts(file)), op < Len(Starts(file)), NEW q
  PROVE  /\ IsFiniteSet(Seen(file, op, q, {"OR"})) /\ Bars(file, op, q) \in Nat
         /\ Owner(file, NextStart(file, op)) = q =>
              AlternativeOf(file, NextStart(file, op)) = Bars(file, op, q) + 1
         /\ \A types : \A x \in Owned(file, q, types) :
              x < NextStart(file, op + 1) => AlternativeOf(file, x) \in 1..(Bars(file, op, q) + 1)
<1> DEFINE S == Seen(file, op, q, {"OR"})
           p == NextStart(file, op)
<1>1. S \subseteq 1..Len(file) /\ Len(file) \in Nat
  BY PlacesAre DEF Seen
<1>2. IsFiniteSet(S)
  <2> HIDE DEF S
  <2>1. IsFiniteSet(1..Len(file))
    BY <1>1, FS_Interval
  <2> QED BY <1>1, <2>1, FS_Subset
<1>3. Bars(file, op, q) \in Nat
  BY <1>2, FS_CardinalityType DEF Bars
<1>4. ASSUME Owner(file, p) = q
      PROVE  AlternativeOf(file, p) = Bars(file, op, q) + 1
  BY <1>4 DEF AlternativeOf, Bars, Seen
<1>5. ASSUME NEW types, NEW x \in Owned(file, q, types), x < NextStart(file, op + 1)
      PROVE  AlternativeOf(file, x) \in 1..(Bars(file, op, q) + 1)
  <2> DEFINE B == {b \in Owned(file, q, {"OR"}) : b < x}
  <2>1. Owner(file, x) = q /\ x \in Int /\ p \in 1..Len(file)
    BY <1>5, PlacesAre, NextStartIs
  <2>2. x < p \/ x = p
    BY <1>5, OwnedStarts, StartBefore
  <2>3. \A b \in Owned(file, q, {"OR"}) : b \in Int
    BY PlacesAre
  <2>4. B \in SUBSET S
    <3>1. ASSUME NEW b \in Owned(file, q, {"OR"}), b < x
          PROVE  b < p
      <4>1. b \in Int /\ p \in Int
        BY <1>1, <2>1, <2>3
      <4> HIDE DEF p
      <4> QED BY <2>1, <2>2, <3>1, <4>1
    <3> QED BY <3>1 DEF Seen
  <2>5. AlternativeOf(file, x) = Cardinality(B) + 1
    BY <2>1 DEF AlternativeOf
  <2> HIDE DEF B, S
  <2>6. IsFiniteSet(B) /\ Cardinality(B) <= Cardinality(S)
    BY <1>2, <2>4, FS_Subset
  <2>7. Cardinality(B) \in Nat
    BY <2>6, FS_CardinalityType
  <2>8. Cardinality(B) <= Bars(file, op, q)
    BY <2>6 DEF Bars, S
  <2> QED BY <1>3, <2>5, <2>7, <2>8
<1> QED
  BY <1>2, <1>3, <1>4, <1>5

\* The pieces of the rules of a left side that something was read of.
LEMMA RulesAre ==
  ASSUME NEW file, IsFile(file), NEW op \in 0..Len(Starts(file)), op < Len(Starts(file)),
         NEW q, Seen(file, op, q, BodyTypes) # {}
  PROVE  LET k == Bars(file, op, q) + 1
             R == RulesSoFar(file, op, q)
         IN  /\ k \in Nat \ {0}
             /\ R \in Seq(Seq(OperandsOf(file, file[q].value))) /\ Len(R) = k
             /\ \A n \in 1..k : R[n] = AlternativeSoFar(file, op, q, n)
             /\ R # <<>> /\ Last(R) = R[k]
             /\ Front(R) \in Seq(Seq(OperandsOf(file, file[q].value))) /\ Len(Front(R)) = k - 1
             /\ \A n \in 1..(k - 1) : Front(R)[n] = R[n]
<1> DEFINE T == Seq(OperandsOf(file, file[q].value))
           k == Bars(file, op, q) + 1
           R == RulesSoFar(file, op, q)
<1>1. k \in Nat \ {0}
  BY BarsAre
<1>2. R = [n \in 1..k |-> AlternativeSoFar(file, op, q, n)]
  BY DEF RulesSoFar
<1>3. \A n \in 1..k : AlternativeSoFar(file, op, q, n) \in T
  BY AlternativeType
<1> HIDE DEF T, k, R
<1>4. R \in Seq(T) /\ Len(R) = k /\ \A n \in 1..k : R[n] = AlternativeSoFar(file, op, q, n)
  BY <1>1, <1>2, <1>3
<1>5. R # <<>>
  BY <1>1, <1>4
<1>6. /\ Last(R) = R[k] /\ Front(R) \in Seq(T) /\ Len(Front(R)) = k - 1
      /\ \A n \in 1..(k - 1) : Front(R)[n] = R[n]
  BY <1>1, <1>4 DEF Last, Front
<1> QED
  BY <1>1, <1>4, <1>5, <1>6 DEF T, k, R

\* What a rule owns of some types it owns of more types.
LEMMA OwnedWider ==
  ASSUME NEW file, IsFile(file), NEW q, NEW x, NEW types, NEW more, types \subseteq more
  PROVE  /\ x \in Owned(file, q, types) => x \in Owned(file, q, more)
         /\ x \in Owned(file, q, more) /\ file[x].type \in types => x \in Owned(file, q, types)
BY DEF Owned

\* Tokens that are no part of a rule's alternatives leave them as they are.
LEMMA RulesSame ==
  ASSUME NEW file, IsFile(file), NEW op \in 0..Len(Starts(file)), op < Len(Starts(file)),
         NEW q, NextStart(file, op) \notin Owned(file, q, BodyTypes)
  PROVE  RulesSoFar(file, op + 1, q) = RulesSoFar(file, op, q)
<1> DEFINE p == NextStart(file, op)
<1>1. /\ p \notin Owned(file, q, {"OR"})
      /\ \A n : p \notin ListPlaces(file, q, n) /\ p \notin OperandPlaces(file, q, n)
  BY DEF BodyTypes, Owned, ListPlaces, OperandPlaces
<1>2. /\ Seen(file, op + 1, q, BodyTypes) = Seen(file, op, q, BodyTypes)
      /\ Seen(file, op + 1, q, {"OR"}) = Seen(file, op, q, {"OR"})
  BY <1>1, SeenStep
<1>3. Bars(file, op + 1, q) = Bars(file, op, q)
  BY <1>2 DEF Bars
<1>4. \A n : AlternativeSoFar(file, op + 1, q, n) = AlternativeSoFar(file, op, q, n)
  BY <1>1, AlternativeSame
<1> QED
  BY <1>2, <1>3, <1>4 DEF RulesSoFar

\* An alternative that nothing was read of.
LEMMA AlternativeNone ==
  ASSUME NEW file, IsFile(file), NEW op \in 0..Len(Starts(file)), NEW q, NEW n,
         \A x \in Owned(file, q, BodyTypes) :
           x < NextStart(file, op) => AlternativeOf(file, x) # n \/ file[x].type = "OR"
  PROVE  AlternativeSoFar(file, op, q, n) = <<>>
<1> DEFINE K == OperandPlaces(file, q, n)
           k == NextStart(file, op) - 1
<1>1. \A y \in ListPlaces(file, q, n) : ~ (y < NextStart(file, op))
  BY DEF Owned, BodyTypes, ListPlaces
<1>2. \A y \in K : ~ (y < NextStart(file, op))
  BY DEF Owned, BodyTypes, OperandTypes, OperandPlaces
<1>3. k \in Nat /\ \A y \in 1..k : y < NextStart(file, op)
  BY NextStartIs
<1>4. \A y \in 1..k : y \notin K
  BY <1>2, <1>3
<1> HIDE DEF K, k
<1>5. Enumerate(K, k) = <<>>
  BY <1>3, <1>4, EnumerateNone
<1>6. OperandsAt(file, ReadPlaces(file, op, K)) = <<>>
  BY <1>5 DEF OperandsAt, ReadPlaces, k
<1> QED
  BY <1>1, <1>6 DEF AlternativeSoFar, K

\* What an operand or a list changes: the last alternative.
LEMMA RulesLast ==
  ASSUME NEW file, IsFile(file), NEW op \in 0..Len(Starts(file)), op < Len(Starts(file)),
         NEW q, NextStart(file, op) \in Owned(file, q, {"LIST"} \cup OperandTypes)
  PROVE  LET k == Bars(file, op, q) + 1
         IN  /\ k \in Nat \ {0} /\ AlternativeOf(file, NextStart(file, op)) = k
             /\ RulesSoFar(file, op + 1, q) = [n \in 1..k |-> AlternativeSoFar(file, op + 1, q, n)]
             /\ \A n \in 1..(k - 1) :
                  AlternativeSoFar(file, op + 1, q, n) = AlternativeSoFar(file, op, q, n)
<1> DEFINE p == NextStart(file, op)
           k == Bars(file, op, q) + 1
<1>1. /\ Owner(file, p) = q /\ file[p].type \in {"LIST"} \cup OperandTypes
      /\ p \in Owned(file, q, BodyTypes) /\ p \notin Owned(file, q, {"OR"})
  BY DEF BodyTypes, Owned, OperandTypes
<1>2. k \in Nat \ {0} /\ AlternativeOf(file, p) = k
  BY <1>1, BarsAre
<1>3. /\ Seen(file, op + 1, q, BodyTypes) # {}
      /\ Seen(file, op + 1, q, {"OR"}) = Seen(file, op, q, {"OR"})
  BY <1>1, SeenStep
<1>4. Bars(file, op + 1, q) = Bars(file, op, q)
  BY <1>3 DEF Bars
<1>5. RulesSoFar(file, op + 1, q) = [n \in 1..k |-> AlternativeSoFar(file, op + 1, q, n)]
  BY <1>3, <1>4 DEF RulesSoFar
<1>6. ASSUME NEW n \in 1..(k - 1)
      PROVE  AlternativeSoFar(file, op + 1, q, n) = AlternativeSoFar(file, op, q, n)
  <2>1. n # k
    BY <1>2
  <2>2. p \notin ListPlaces(file, q, n) /\ p \notin OperandPlaces(file, q, n)
    BY <1>2, <2>1 DEF ListPlaces, OperandPlaces
  <2> QED BY <2>2, AlternativeSame
<1> QED
  BY <1>2, <1>5, <1>6

\* Replacing the last one of a sequence.
LEMMA LastReplaced ==
  ASSUME NEW T, NEW k \in Nat \ {0}, NEW front \in Seq(T), Len(front) = k - 1, NEW x \in T
  PROVE  [n \in 1..k |-> IF n = k THEN x ELSE front[n]] = Append(front, x)
<1> DEFINE s == [n \in 1..k |-> IF n = k THEN x ELSE front[n]]
<1>1. s \in Seq(T) /\ Len(s) = k
  OBVIOUS
<1>2. Append(front, x) \in Seq(T) /\ Len(Append(front, x)) = k
  OBVIOUS
<1>3. \A n \in 1..k : s[n] = Append(front, x)[n]
  OBVIOUS
<1> HIDE DEF s
<1>4. s = Append(front, x)
  BY <1>1, <1>2, <1>3, SeqEqual
<1> QED
  BY <1>4 DEF s

\* In the rules read so far a list replaces the last alternative, the empty one
\* after its bar.
LEMMA RulesList ==
  ASSUME NEW file, IsFile(file), NEW op \in 0..Len(Starts(file)), op < Len(Starts(file)),
         NEW q, NextStart(file, op) \in Owned(file, q, {"LIST"}), RulesSoFar(file, op, q) # <<>>
  PROVE  RulesSoFar(file, op + 1, q) =
           Append(Front(RulesSoFar(file, op, q)),
                  <<NameOperand(file[q].value), NameOperand(file[q].value)>>)
<1> DEFINE p == NextStart(file, op)
           k == Bars(file, op, q) + 1
           R == RulesSoFar(file, op, q)
           x == <<NameOperand(file[q].value), NameOperand(file[q].value)>>
           T == Seq(OperandsOf(file, file[q].value))
           s == RulesSoFar(file, op + 1, q)
           front == Front(R)
<1>1. p \in Owned(file, q, {"LIST"} \cup OperandTypes)
  BY OwnedWider
<1>2. /\ k \in Nat \ {0} /\ AlternativeOf(file, p) = k
      /\ s = [n \in 1..k |-> AlternativeSoFar(file, op + 1, q, n)]
      /\ \A n \in 1..(k - 1) : AlternativeSoFar(file, op + 1, q, n) = AlternativeSoFar(file, op, q, n)
  BY <1>1, RulesLast
<1>3. AlternativeSoFar(file, op + 1, q, k) = x
  <2>1. p \in ListPlaces(file, q, k)
    BY <1>2 DEF ListPlaces
  <2> HIDE DEF k
  <2> QED BY <2>1, AlternativeList
<1>4. /\ front \in Seq(T) /\ Len(front) = k - 1
      /\ \A n \in 1..(k - 1) : front[n] = R[n] /\ R[n] = AlternativeSoFar(file, op, q, n)
  <2>1. Seen(file, op, q, BodyTypes) # {}
    BY DEF RulesSoFar
  <2>2. /\ front \in Seq(T) /\ Len(front) = k - 1
        /\ \A n \in 1..(k - 1) : front[n] = R[n]
        /\ \A n \in 1..k : R[n] = AlternativeSoFar(file, op, q, n)
    BY <2>1, RulesAre
  <2>3. \A n \in 1..(k - 1) : n \in 1..k
    BY <1>2
  <2> QED BY <2>2, <2>3
<1>5. x \in T
  BY DEF OperandsOf
<1> HIDE DEF p, k, R, x, T, s, front
<1>6. s = [n \in 1..k |-> IF n = k THEN x ELSE front[n]]
  <2>1. \A n \in 1..k : n = k \/ n \in 1..(k - 1)
    BY <1>2
  <2>2. \A n \in 1..k : AlternativeSoFar(file, op + 1, q, n) = IF n = k THEN x ELSE front[n]
    BY <1>2, <1>3, <1>4, <2>1
  <2> QED BY <1>2, <2>2
<1>7. s = Append(front, x)
  BY <1>2, <1>4, <1>5, <1>6, LastReplaced
<1> QED
  BY <1>7 DEF s, front, R, x

\* In a plain file an alternative with operands has no list.
LEMMA PlainOperand ==
  ASSUME NEW file, IsFile(file), Plain(file), NEW q \in LeftSides(file),
         NEW p \in Owned(file, q, OperandTypes)
  PROVE  ListPlaces(file, q, AlternativeOf(file, p)) = {}
<1> SUFFICES ASSUME NEW r \in Owned(file, q, {"LIST"}),
                    AlternativeOf(file, r) = AlternativeOf(file, p)
             PROVE  FALSE
  BY DEF ListPlaces
<1>1. /\ r \in Owned(file, q, {"LIST"} \cup OperandTypes)
      /\ p \in Owned(file, q, {"LIST"} \cup OperandTypes)
  BY OwnedWider
<1>2. file[r].type = "LIST" /\ file[p].type \in OperandTypes
  BY PlacesAre
<1>3. p = r
  BY <1>1, <1>2 DEF Plain
<1> QED
  BY <1>2, <1>3 DEF OperandTypes

\* What a file writes as an alternative, in terms of its places.
LEMMA WrittenIs ==
  ASSUME NEW file, NEW q, NEW n
  PROVE  WrittenAlternative(file, q, n) =
           IF ListPlaces(file, q, n) # {}
           THEN <<NameOperand(file[q].value), NameOperand(file[q].value)>>
           ELSE OperandsAt(file, Enumerate(OperandPlaces(file, q, n), Len(file)))
BY Zenon DEF WrittenAlternative, ListPlaces, OperandPlaces, OperandsAt

\* A plain rule begins with an operand.
LEMMA PlainFirst ==
  ASSUME NEW file, IsFile(file), Plain(file), NEW q \in LeftSides(file)
  PROVE  OperandPlaces(file, q, 1) # {}
<1> SUFFICES ASSUME OperandPlaces(file, q, 1) = {} PROVE FALSE
  OBVIOUS
<1>1. ListPlaces(file, q, 1) = {}
  <2> SUFFICES ASSUME NEW r \in Owned(file, q, {"LIST"}), AlternativeOf(file, r) = 1
               PROVE  FALSE
    BY DEF ListPlaces
  <2>1. r \in Owned(file, q, {"LIST"} \cup OperandTypes) /\ file[r].type = "LIST"
    BY OwnedWider, PlacesAre
  <2> QED BY <2>1 DEF Plain
<1>2. Len(file) \in Nat
  BY PlacesAre
<1>3. Enumerate({}, Len(file)) = <<>>
  BY <1>2, EnumerateNone
<1>4. WrittenAlternative(file, q, 1) = <<>>
  <2>1. WrittenAlternative(file, q, 1) = OperandsAt(file, <<>>)
    BY <1>1, <1>3, WrittenIs
  <2> QED BY <2>1 DEF OperandsAt
<1> QED
  BY <1>4 DEF Plain

\* In the rules read so far an operand goes to the end of the last alternative,
\* or into a first one.
LEMMA RulesOperand ==
  ASSUME NEW file, IsFile(file), NEW op \in 0..Len(Starts(file)), op < Len(Starts(file)),
         Plain(file), NEW q \in LeftSides(file), NextStart(file, op) \in Owned(file, q, OperandTypes)
  PROVE  RulesSoFar(file, op + 1, q) =
           IF RulesSoFar(file, op, q) = <<>>
           THEN Append(<<>>, <<AsOperand(file[NextStart(file, op)])>>)
           ELSE Append(Front(RulesSoFar(file, op, q)),
                       Append(Last(RulesSoFar(file, op, q)), AsOperand(file[NextStart(file, op)])))
<1> DEFINE p == NextStart(file, op)
           k == Bars(file, op, q) + 1
           R == RulesSoFar(file, op, q)
           operand == AsOperand(file[p])
           T == Seq(OperandsOf(file, file[q].value))
           s == RulesSoFar(file, op + 1, q)
           front == Front(R)
           x == Append(AlternativeSoFar(file, op, q, k), operand)
<1>1. p \in Owned(file, q, {"LIST"} \cup OperandTypes)
  BY OwnedWider
<1>2. /\ k \in Nat \ {0} /\ AlternativeOf(file, p) = k
      /\ s = [n \in 1..k |-> AlternativeSoFar(file, op + 1, q, n)]
      /\ \A n \in 1..(k - 1) : AlternativeSoFar(file, op + 1, q, n) = AlternativeSoFar(file, op, q, n)
  BY <1>1, RulesLast
<1>3. AlternativeSoFar(file, op + 1, q, k) = x
  <2>1. p \in OperandPlaces(file, q, k) /\ ListPlaces(file, q, k) = {}
    BY <1>2, PlainOperand DEF OperandPlaces
  <2> HIDE DEF k
  <2> QED BY <2>1, AlternativeOperand
<1>4. x \in T /\ AlternativeSoFar(file, op, q, k) \in T
  <2>1. operand \in OperandsOf(file, file[q].value)
    BY NextStartIs, PlacesAre DEF OperandsOf
  <2>2. AlternativeSoFar(file, op, q, k) \in T
    BY AlternativeType
  <2> QED BY <2>1, <2>2
<1>5. CASE Seen(file, op, q, BodyTypes) = {}
  <2>1. R = <<>>
    BY <1>5 DEF RulesSoFar
  <2>2. k = 1
    <3>1. Seen(file, op, q, {"OR"}) = {}
      BY <1>5 DEF Seen, Owned, BodyTypes
    <3> QED BY <3>1, FS_EmptySet DEF Bars
  <2>3. AlternativeSoFar(file, op, q, k) = <<>>
    <3>1. \A y \in Owned(file, q, BodyTypes) : ~ (y < NextStart(file, op))
      BY <1>5 DEF Seen
    <3> QED BY <3>1, AlternativeNone
  <2>4. x = <<operand>>
    <3> HIDE DEF operand, k
    <3> QED BY <2>3
  <2>5. s = <<x>>
    <3> HIDE DEF s, k, x
    <3>1. s = [n \in 1..1 |-> x]
      BY <1>2, <1>3, <2>2
    <3> QED BY <3>1
  <2> HIDE DEF s, R, x, operand
  <2>6. s = Append(<<>>, <<operand>>)
    BY <2>4, <2>5
  <2> QED BY <2>1, <2>6 DEF s, R, operand
<1>6. CASE Seen(file, op, q, BodyTypes) # {}
  <2>1. /\ R # <<>> /\ Last(R) = R[k] /\ front \in Seq(T) /\ Len(front) = k - 1
        /\ \A n \in 1..(k - 1) : front[n] = R[n]
        /\ \A n \in 1..k : R[n] = AlternativeSoFar(file, op, q, n)
    BY <1>6, RulesAre
  <2> HIDE DEF p, k, R, T, s, front
  <2>2. \A n \in 1..k : n = k \/ n \in 1..(k - 1)
    BY <1>2
  <2>3. s = [n \in 1..k |-> IF n = k THEN x ELSE front[n]]
    <3> HIDE DEF x
    <3>1. \A n \in 1..(k - 1) : n \in 1..k
      BY <1>2
    <3>2. \A n \in 1..k : AlternativeSoFar(file, op + 1, q, n) = IF n = k THEN x ELSE front[n]
      BY <1>2, <1>3, <2>1, <2>2, <3>1
    <3> QED BY <1>2, <3>2
  <2>4. s = Append(front, x)
    <3> HIDE DEF x
    <3> QED BY <1>2, <1>4, <2>1, <2>3, LastReplaced
  <2>5. AlternativeSoFar(file, op, q, k) = Last(R)
    BY <1>2, <2>1
  <2> QED BY <2>1, <2>4, <2>5 DEF s, front, R, p
<1> QED
  BY <1>5, <1>6

\* A bar opens an alternative.
LEMMA RulesBar ==
  ASSUME NEW file, IsFile(file), NEW op \in 0..Len(Starts(file)), op < Len(Starts(file)),
         Plain(file), NEW q \in LeftSides(file), NextStart(file, op) \in Owned(file, q, {"OR"})
  PROVE  RulesSoFar(file, op + 1, q) = Append(RulesSoFar(file, op, q), <<>>)
<1> DEFINE p == NextStart(file, op)
           k == Bars(file, op, q) + 1
           R == RulesSoFar(file, op, q)
           T == Seq(OperandsOf(file, file[q].value))
           s == RulesSoFar(file, op + 1, q)
<1>1. p \in Int /\ file[p].type = "OR" /\ Owner(file, p) = q
  BY NextStartIs, PlacesAre
<1>2. Seen(file, op, q, BodyTypes) # {}
  <2>1. PICK x : x \in OperandPlaces(file, q, 1)
    BY PlainFirst
  <2>2. /\ x \in Owned(file, q, OperandTypes) /\ AlternativeOf(file, x) = 1
        /\ x \in Int /\ Owner(file, x) = q /\ x # p
    BY <1>1, <2>1, PlacesAre DEF OperandPlaces, OperandTypes
  <2> DEFINE B == {b \in Owned(file, q, {"OR"}) : b < x}
  <2>3. B = {}
    <3>1. Cardinality(B) + 1 = 1
      BY <2>2 DEF AlternativeOf
    <3>2. B \subseteq 1..Len(file) /\ IsFiniteSet(1..Len(file))
      BY PlacesAre, FS_Interval
    <3> HIDE DEF B
    <3>3. IsFiniteSet(B)
      BY <3>2, FS_Subset
    <3>4. Cardinality(B) = 0
      BY <3>1, <3>3, FS_CardinalityType
    <3> QED BY <3>3, <3>4, FS_EmptySet
  <2>4. x < p
    BY <1>1, <2>2, <2>3
  <2>5. x \in Owned(file, q, BodyTypes)
    BY <2>2 DEF BodyTypes, Owned
  <2> QED BY <2>4, <2>5 DEF Seen
<1>3. /\ k \in Nat \ {0} /\ R \in Seq(T) /\ Len(R) = k
      /\ \A n \in 1..k : R[n] = AlternativeSoFar(file, op, q, n)
  BY <1>2, RulesAre
<1>4. Seen(file, op + 1, q, BodyTypes) # {}
  BY <1>2, SeenStep
<1>5. Bars(file, op + 1, q) = k
  <2> DEFINE S == Seen(file, op, q, {"OR"})
  <2>1. IsFiniteSet(S) /\ p \notin S
    BY <1>1, BarsAre DEF Seen
  <2>2. Seen(file, op + 1, q, {"OR"}) = S \cup {p}
    BY SeenStep
  <2> HIDE DEF S, p
  <2>3. Cardinality(S \cup {p}) = Cardinality(S) + 1
    BY <2>1, FS_AddElement
  <2> QED BY <2>2, <2>3 DEF Bars, S
<1>6. s = [n \in 1..(k + 1) |-> AlternativeSoFar(file, op + 1, q, n)]
  BY <1>4, <1>5 DEF RulesSoFar
<1>7. \A n : AlternativeSoFar(file, op + 1, q, n) = AlternativeSoFar(file, op, q, n)
  <2>1. \A n : p \notin ListPlaces(file, q, n) /\ p \notin OperandPlaces(file, q, n)
    BY <1>1 DEF Owned, ListPlaces, OperandPlaces, OperandTypes
  <2> QED BY <2>1, AlternativeSame
<1>8. AlternativeSoFar(file, op, q, k + 1) = <<>>
  <2>1. ASSUME NEW x \in Owned(file, q, BodyTypes), x < p
        PROVE  AlternativeOf(file, x) # k + 1
    <3>1. x < NextStart(file, op + 1)
      BY <2>1, OwnedStarts, StartBefore
    <3>2. AlternativeOf(file, x) \in 1..k
      BY <3>1, BarsAre
    <3> HIDE DEF k
    <3> QED BY <1>3, <3>2
  <2> HIDE DEF k
  <2> QED BY <2>1, AlternativeNone
<1> HIDE DEF p, k, R, T, s
<1>9. s = [n \in 1..(k + 1) |-> IF n = k + 1 THEN <<>> ELSE R[n]]
  <2>1. \A n \in 1..(k + 1) : n = k + 1 \/ n \in 1..k
    BY <1>3
  <2>2. \A n \in 1..(k + 1) :
          AlternativeSoFar(file, op + 1, q, n) = IF n = k + 1 THEN <<>> ELSE R[n]
    BY <1>3, <1>7, <1>8, <2>1
  <2> QED BY <1>6, <2>2
<1>10. s = Append(R, <<>>)
  <2>1. k + 1 \in Nat \ {0} /\ (k + 1) - 1 = k /\ <<>> \in T
    BY <1>3 DEF T
  <2> QED BY <1>3, <1>9, <2>1, LastReplaced
<1> QED
  BY <1>10 DEF s, R

-----------------------------------------------------------------------------
(* What a parse has made of the matches before one of them.                 *)

\* The rules are those read so far.
SaidSoFar(file, op, g) ==
  \A q \in LeftSides(file) : RulesAt(g, file[q].value) = RulesSoFar(file, op, q)

\* Only these names have rules.
OnlyNamed(file, g) ==
  \A m : RulesAt(g, m) # <<>> =>
          m \in LeftNames(file) \/ (m = <<Axiom>> /\ AxiomLines(file) # {})

\* So is the axiom's rule, once its line was read.
AxiomSoFar(file, op, g) ==
  \A q \in AxiomLines(file) :
    q < NextStart(file, op) => RulesAt(g, <<Axiom>>) = <<<<AsOperand(file[q + 2])>>>>

\* The places of the token definitions.
TokenPlaces(file) == {p \in DOMAIN file : Match(file, p) = "TOKEN"}

\* The token that is defined at a place, its name without blanks.
PatternAt(file, p) == [type |-> Clean(file[p].value), value |-> file[p + 1].value]

\* The tokens that are defined at these places.
PatternsAt(file, places) == [n \in DOMAIN places |-> PatternAt(file, places[n])]

\* The token definitions that were read.
PatternsSoFar(file, op) == PatternsAt(file, ReadPlaces(file, op, TokenPlaces(file)))

\* The name of a left side is not AXIOM.
LEMMA LeftSideName ==
  ASSUME NEW file, IsFile(file), NEW q \in LeftSides(file)
  PROVE  file[q].value # <<Axiom>> /\ file[q].value \in {<<A>> : A \in NonTerminal}
<1>1. q \in 1..Len(file) /\ Match(file, q) = "LSIDE" /\ q \in Int
  BY PlacesAre
<1>2. Match(file, q) # NoMatch
  BY <1>1 DEF NoMatch
<1>3. LeftSideAt(file, q)
  BY <1>1, <1>2, MatchKinds
<1>4. file[q].type = "NONTERMINAL" /\ IsToken(file[q])
  BY <1>1, <1>3, LeftSideAtDef, FileIsSequence
<1>5. PICK A \in NonTerminal \ {Axiom} : file[q].value = <<A>>
  BY <1>4 DEF IsToken
<1>6. <<A>>[1] # <<Axiom>>[1]
  BY <1>5
<1> QED
  BY <1>5, <1>6

\* An axiom line is a match.
LEMMA AxiomLinesAre ==
  ASSUME NEW file, IsFile(file), NEW q \in AxiomLines(file)
  PROVE  q \in 1..Len(file) /\ Match(file, q) = "AXIOM" /\ Match(file, q) # NoMatch
<1>1. q \in 1..Len(file) /\ q \in Int /\ AxiomAt(file, q)
  BY PlacesAre DEF AxiomLines
<1>2. file[q].type = "AXIOM"
  BY <1>1, AxiomAtDef
<1>3. q - 1 \in Int /\ q - 2 \in Int /\ (q - 1) + 1 = q /\ (q - 2) + 2 = q
  BY <1>1
<1>4. /\ AxiomAt(file, q - 1) => file[(q - 1) + 1].type = "EQUAL"
      /\ AxiomAt(file, q - 2) => file[(q - 2) + 2].type = "NONTERMINAL"
      /\ TokenAt(file, q - 1) => file[(q - 1) + 1].type = "REGEX"
      /\ LeftSideAt(file, q - 1) => file[(q - 1) + 1].type = "EQUAL"
  BY <1>3, AxiomAtDef, TokenAtDef, LeftSideAtDef
<1>5. ~ Inside(file, q)
  BY <1>2, <1>3, <1>4 DEF Inside
<1>6. ~ TokenAt(file, q) /\ ~ LeftSideAt(file, q)
  BY <1>1, <1>2, TokenAtDef, LeftSideAtDef
<1>7. Match(file, q) = "AXIOM"
  BY <1>1, <1>5, <1>6 DEF Match
<1> QED
  BY <1>1, <1>7 DEF NoMatch

\* The places of token definitions are matches of the second lexer.
LEMMA TokenPlacesAre ==
  ASSUME NEW file, IsFile(file)
  PROVE  \A x \in TokenPlaces(file) :
           x \in 1..Len(file) /\ Match(file, x) = "TOKEN" /\ Match(file, x) # NoMatch
BY PlacesAre DEF TokenPlaces, NoMatch

\* A place further on adds its pattern.
LEMMA PatternsStep ==
  ASSUME NEW file, IsFile(file), NEW op \in 0..Len(Starts(file)), op < Len(Starts(file))
  PROVE  PatternsSoFar(file, op + 1) =
           IF Match(file, NextStart(file, op)) = "TOKEN"
           THEN Append(PatternsSoFar(file, op), PatternAt(file, NextStart(file, op)))
           ELSE PatternsSoFar(file, op)
<1> DEFINE D == 1..Len(file)
           T == {PatternAt(file, p) : p \in D}
           f == [p \in D |-> PatternAt(file, p)]
           places == TokenPlaces(file)
           d == ReadPlaces(file, op, places)
           x == NextStart(file, op)
<1>1. x \in D /\ DOMAIN file = D
  BY NextStartIs, PlacesAre
<1>2. f \in [D -> T] /\ f[x] = PatternAt(file, x)
  BY <1>1
<1>3. /\ d \in Seq(D)
      /\ ReadPlaces(file, op + 1, places) = IF x \in places THEN Append(d, x) ELSE d
  BY TokenPlacesAre, ReadPlacesStep
<1>4. x \in places <=> Match(file, x) = "TOKEN"
  BY <1>1 DEF TokenPlaces
<1>5. \A e \in Seq(D) : PatternsAt(file, e) = [m \in DOMAIN e |-> f[e[m]]]
  <2>1. SUFFICES ASSUME NEW e \in Seq(D), NEW m \in DOMAIN e
                 PROVE  PatternAt(file, e[m]) = f[e[m]]
    BY DEF PatternsAt
  <2>2. e[m] \in D
    BY <2>1
  <2> QED BY <2>2
<1> HIDE DEF D, T, f, places, d, x
<1>6. [m \in DOMAIN Append(d, x) |-> f[Append(d, x)[m]]]
        = Append([m \in DOMAIN d |-> f[d[m]]], f[x])
  BY <1>1, <1>2, <1>3, MappedAppend
<1>7. Append(d, x) \in Seq(D)
  BY <1>1, <1>3
<1>8. PatternsAt(file, Append(d, x)) = Append(PatternsAt(file, d), PatternAt(file, x))
  BY <1>2, <1>3, <1>5, <1>6, <1>7
<1> QED
  BY <1>3, <1>4, <1>8 DEF PatternsSoFar, d, x, places

\* The rules, the axiom and the tokens are those read so far, and there are no
\* other rules.
Written(file, op, g, patterns) ==
  /\ SaidSoFar(file, op, g)
  /\ AxiomSoFar(file, op, g)
  /\ OnlyNamed(file, g)
  /\ patterns = PatternsSoFar(file, op)

\* At the start there are none.
LEMMA WrittenFirst ==
  ASSUME NEW file, IsFile(file), NEW g, \A m : RulesAt(g, m) = <<>>
  PROVE  Written(file, 0, g, <<>>)
<1>1. SaidSoFar(file, 0, g)
  BY SeenFirst DEF SaidSoFar, RulesSoFar
<1>2. AxiomSoFar(file, 0, g)
  BY AxiomLinesAre, NoStartBeforeFirst DEF AxiomSoFar
<1>3. ReadPlaces(file, 0, TokenPlaces(file)) = <<>>
  BY TokenPlacesAre, ReadPlacesFirst
<1>4. PatternsSoFar(file, 0) = <<>>
  BY <1>3 DEF PatternsSoFar, PatternsAt
<1> QED
  BY <1>1, <1>2, <1>4 DEF Written, OnlyNamed

\* Matches outside right sides leave the rules.
LEMMA SaidOver ==
  ASSUME NEW file, IsFile(file), NEW op \in 0..Len(Starts(file)), op < Len(Starts(file)),
         Match(file, NextStart(file, op)) \notin {"OR", "RSIDE"},
         NEW g, NEW after, SaidSoFar(file, op, g),
         \A q \in LeftSides(file) : RulesAt(after, file[q].value) = RulesAt(g, file[q].value)
  PROVE  SaidSoFar(file, op + 1, after)
<1> SUFFICES ASSUME NEW q \in LeftSides(file)
             PROVE  RulesAt(after, file[q].value) = RulesSoFar(file, op + 1, q)
  BY DEF SaidSoFar
<1>1. NextStart(file, op) \notin Owned(file, q, BodyTypes)
  BY PlacesAre
<1>2. RulesSoFar(file, op + 1, q) = RulesSoFar(file, op, q)
  BY <1>1, RulesSame
<1> QED
  BY <1>2 DEF SaidSoFar

\* Matches other than the axiom line leave the axiom's rule.
LEMMA AxiomOver ==
  ASSUME NEW file, IsFile(file), NEW op \in 0..Len(Starts(file)), op < Len(Starts(file)),
         Match(file, NextStart(file, op)) # "AXIOM",
         NEW g, NEW after, AxiomSoFar(file, op, g),
         RulesAt(after, <<Axiom>>) = RulesAt(g, <<Axiom>>)
  PROVE  AxiomSoFar(file, op + 1, after)
<1> SUFFICES ASSUME NEW q \in AxiomLines(file), q < NextStart(file, op + 1)
             PROVE  RulesAt(after, <<Axiom>>) = <<<<AsOperand(file[q + 2])>>>>
  BY DEF AxiomSoFar
<1>1. q # NextStart(file, op)
  BY AxiomLinesAre
<1>2. q < NextStart(file, op)
  BY <1>1, AxiomLinesAre, StartBefore
<1> QED
  BY <1>2 DEF AxiomSoFar

\* A match that is neither a part of a rule nor an axiom line or a token.
LEMMA WrittenOver ==
  ASSUME NEW file, IsFile(file), NEW op \in 0..Len(Starts(file)), op < Len(Starts(file)),
         Match(file, NextStart(file, op)) \notin {"OR", "RSIDE", "AXIOM", "TOKEN"},
         NEW g, NEW after, NEW patterns, Written(file, op, g, patterns),
         \A m : RulesAt(after, m) = RulesAt(g, m)
  PROVE  Written(file, op + 1, after, patterns)
<1>1. OnlyNamed(file, after)
  BY DEF Written, OnlyNamed
<1> QED
  BY <1>1, SaidOver, AxiomOver, PatternsStep DEF Written

\* A token definition is one more token.
LEMMA WrittenToken ==
  ASSUME NEW file, IsFile(file), NEW op \in 0..Len(Starts(file)), op < Len(Starts(file)),
         Match(file, NextStart(file, op)) = "TOKEN",
         NEW g, NEW patterns, Written(file, op, g, patterns)
  PROVE  Written(file, op + 1, g, Append(patterns, PatternAt(file, NextStart(file, op))))
BY SaidOver, AxiomOver, PatternsStep DEF Written

\* The axiom's line sets the axiom's rule.
LEMMA WrittenAxiom ==
  ASSUME NEW file, IsFile(file), NEW op \in 0..Len(Starts(file)), op < Len(Starts(file)),
         Match(file, NextStart(file, op)) = "AXIOM", Tidy(file),
         NEW g, NEW patterns, Written(file, op, g, patterns)
  PROVE  Written(file, op + 1, AxiomRule(g, <<<<AsOperand(file[NextStart(file, op) + 2])>>>>),
                 patterns)
<1> DEFINE p == NextStart(file, op)
           rules == <<<<AsOperand(file[p + 2])>>>>
           after == AxiomRule(g, rules)
<1>1. p \in AxiomLines(file)
  <2>1. p \in 1..Len(file) /\ Match(file, p) # NoMatch /\ DOMAIN file = 1..Len(file)
    BY NextStartIs, PlacesAre
  <2>2. AxiomAt(file, p)
    BY <2>1, MatchKinds
  <2> QED BY <2>1, <2>2 DEF AxiomLines
<1>2. \A m : RulesAt(after, m) = IF m = <<Axiom>> THEN rules ELSE RulesAt(g, m)
  BY RulesAtAxiom
<1>3. \A q \in AxiomLines(file) : q = p
  <2>1. AxiomLines(file) \subseteq 1..Len(file) /\ IsFiniteSet(1..Len(file))
    <3>1. DOMAIN file = 1..Len(file) /\ Len(file) \in Nat
      BY PlacesAre
    <3> QED BY <3>1, FS_Interval DEF AxiomLines
  <2>2. IsFiniteSet(AxiomLines(file)) /\ Cardinality(AxiomLines(file)) <= 1
    BY <2>1, FS_Subset DEF Tidy
  <2>3. Cardinality(AxiomLines(file)) \in Nat /\ AxiomLines(file) # {}
    BY <1>1, <2>2, FS_CardinalityType
  <2>4. Cardinality(AxiomLines(file)) = 1
    BY <2>2, <2>3, FS_EmptySet
  <2>5. \E x : AxiomLines(file) = {x}
    BY <2>2, <2>4, FS_Singleton
  <2> QED BY <1>1, <2>5
<1> HIDE DEF rules, after
<1>4. AxiomSoFar(file, op + 1, after)
  BY <1>2, <1>3 DEF AxiomSoFar, rules
<1>5. SaidSoFar(file, op + 1, after)
  <2>1. \A q \in LeftSides(file) : RulesAt(after, file[q].value) = RulesAt(g, file[q].value)
    BY <1>2, LeftSideName
  <2> QED BY <2>1, SaidOver DEF Written
<1>6. OnlyNamed(file, after)
  BY <1>1, <1>2 DEF OnlyNamed, Written
<1> QED
  BY <1>4, <1>5, <1>6, PatternsStep DEF Written, after, rules

\* A bar, an operand or a list changes the rules of its own left side.
LEMMA WrittenBody ==
  ASSUME NEW file, IsFile(file), NEW op \in 0..Len(Starts(file)), op < Len(Starts(file)),
         Match(file, NextStart(file, op)) \in {"OR", "RSIDE"}, Plain(file),
         NEW rule, RuleIs(file, op, rule),
         NEW g, NEW after, NEW patterns, Written(file, op, g, patterns),
         \A m : m # rule => RulesAt(after, m) = RulesAt(g, m),
         \A q \in LeftSides(file) :
           (/\ Owner(file, NextStart(file, op)) = q /\ file[q].value = rule
            /\ RulesAt(g, rule) = RulesSoFar(file, op, q))
             => RulesAt(after, rule) = RulesSoFar(file, op + 1, q)
  PROVE  Written(file, op + 1, after, patterns)
<1> DEFINE p == NextStart(file, op)
           o == Owner(file, p)
<1>1. p \in 1..Len(file) /\ p \in DOMAIN file /\ p \in Int
  BY NextStartIs, PlacesAre
<1>2. o # 0
  BY <1>1 DEF Plain
<1>3. rule = file[o].value
  BY <1>2 DEF RuleIs
<1>4. o \in LeftSides(file)
  BY <1>1, <1>2, OwnerIs
<1>5. rule # <<Axiom>>
  BY <1>3, <1>4, LeftSideName
<1>6. ASSUME NEW q \in LeftSides(file)
      PROVE  RulesAt(after, file[q].value) = RulesSoFar(file, op + 1, q)
  <2>1. RulesAt(g, file[q].value) = RulesSoFar(file, op, q)
    BY DEF Written, SaidSoFar
  <2>2. CASE q = o
    BY <1>3, <2>1, <2>2
  <2>3. CASE q # o
    <3>1. file[q].value # rule
      BY <1>3, <1>4, <2>3 DEF Plain
    <3>2. p \notin Owned(file, q, BodyTypes)
      BY <2>3 DEF Owned
    <3>3. RulesSoFar(file, op + 1, q) = RulesSoFar(file, op, q)
      BY <3>2, RulesSame
    <3> QED BY <2>1, <3>1, <3>3
  <2> QED BY <2>2, <2>3
<1>7. SaidSoFar(file, op + 1, after)
  BY <1>6 DEF SaidSoFar
<1>8. AxiomSoFar(file, op + 1, after)
  BY <1>5, AxiomOver DEF Written
<1>9. OnlyNamed(file, after)
  <2>1. rule \in LeftNames(file)
    BY <1>3, <1>4 DEF LeftNames
  <2> QED BY <2>1 DEF OnlyNamed, Written
<1> QED
  BY <1>7, <1>8, <1>9, PatternsStep DEF Written

\* What the parser has of a plain file is what was read of it.
WrittenInv ==
  (Plain(parsedtokens) /\ at # "done") =>
    Written(parsedtokens, op_count, production_rules, tokens)

\* A step that reads nothing and changes no rule preserves it.
LEMMA WrittenSame ==
  ASSUME WrittenInv, at # "done", UNCHANGED <<parsedtokens, op_count, tokens>>,
         \A m : RulesAt(production_rules', m) = RulesAt(production_rules, m)
  PROVE  WrittenInv'
BY Zenon DEF WrittenInv, Written, SaidSoFar, AxiomSoFar, OnlyNamed

\* An operand, a list or an operator before an operand.
LEMMA WrittenRightSide ==
  ASSUME InPlace, MarksInv, WrittenInv, ReadRightSide
  PROVE  WrittenInv'
<1> DEFINE file  == parsedtokens
           op    == op_count
           rule  == current_rule
           g     == production_rules
           after == production_rules'
           patterns == tokens
           p     == Here
<1>1. /\ Op("RSIDE") /\ UNCHANGED <<parsedtokens, current_rule, tokens>> /\ op_count' = op_count + 1
      /\ at # "done"
  BY ReadRightSideIs DEF input
<1> SUFFICES ASSUME Plain(parsedtokens)
             PROVE  Written(file, op + 1, after, patterns)
  BY <1>1 DEF WrittenInv
<1>2. /\ IsFile(file) /\ op \in 0..Len(Starts(file)) /\ op < Len(Starts(file)) /\ Plain(file)
      /\ p = NextStart(file, op) /\ Match(file, p) = "RSIDE" /\ p \in 1..Len(file)
      /\ RuleIs(file, op, rule) /\ Written(file, op, g, patterns)
  BY <1>1, AtOp DEF MarksInv, WrittenInv
<1>3. Tok = file[p]
  BY <1>1, TidyTokens DEF Op
<1>4. file[p].type \in OperandTypes \cup Operators
  <2>1. Match(file, p) # NoMatch
    BY <1>2 DEF NoMatch
  <2> QED BY <1>2, <2>1, MatchKinds
<1>5. ASSUME NEW q \in LeftSides(file), Owner(file, p) = q
      PROVE  \A types : p \in Owned(file, q, types) <=> file[p].type \in types
  BY <1>2, <1>5, PlacesAre DEF Owned
<1>6. /\ \A m : m # rule => RulesAt(after, m) = RulesAt(g, m)
      /\ \A q \in LeftSides(file) :
           (/\ Owner(file, p) = q /\ file[q].value = rule
            /\ RulesAt(g, rule) = RulesSoFar(file, op, q))
             => RulesAt(after, rule) = RulesSoFar(file, op + 1, q)
  <2>1. CASE KeepAsText \/ Keep \/ MakeListOp
    <3>1. file[p].type \in {"STR", "EXCL", "LISTOP"} /\ after = g
      BY <1>3, <2>1 DEF KeepAsText, Keep, MakeListOp, RightSide
    <3>2. ASSUME NEW q \in LeftSides(file), Owner(file, p) = q
          PROVE  RulesSoFar(file, op + 1, q) = RulesSoFar(file, op, q)
      <4>1. p \notin Owned(file, q, BodyTypes)
        BY <1>5, <3>1, <3>2 DEF BodyTypes, OperandTypes
      <4> QED BY <1>2, <4>1, RulesSame
    <3> QED BY <3>1, <3>2
  <2>2. CASE MakeList
    <3> DEFINE list == NameOperand(rule)
    <3>1. /\ file[p].type = "LIST" /\ RulesAt(g, rule) # <<>>
          /\ after = ReplaceLast(g, rule, <<list, list>>)
      BY <1>3, <2>2 DEF MakeList, RightSide
    <3>2. rule \in DOMAIN g
      BY <3>1 DEF RulesAt
    <3>3. \A m : RulesAt(after, m) = IF m = rule THEN Append(Front(RulesAt(g, rule)), <<list, list>>)
                                     ELSE RulesAt(g, m)
      BY <3>1, <3>2, RulesAtReplace
    <3>4. ASSUME NEW q \in LeftSides(file), Owner(file, p) = q, file[q].value = rule,
                 RulesAt(g, rule) = RulesSoFar(file, op, q)
          PROVE  RulesAt(after, rule) = RulesSoFar(file, op + 1, q)
      <4>1. p \in Owned(file, q, {"LIST"}) /\ RulesSoFar(file, op, q) # <<>>
        BY <1>5, <3>1, <3>4
      <4>2. RulesSoFar(file, op + 1, q) = Append(Front(RulesSoFar(file, op, q)), <<list, list>>)
        BY <1>2, <3>4, <4>1, RulesList
      <4> QED BY <3>3, <3>4, <4>2
    <3> HIDE DEF list
    <3> QED BY <3>3, <3>4
  <2>3. CASE AddToRule
    <3>1. file[p].type \in OperandTypes /\ after = AddOperand(g, rule, AsOperand(file[p]))
      BY <1>3, <1>4, <2>3 DEF AddToRule, RightSide, OperandTypes, Operators, Separators
    <3>2. \A m : RulesAt(after, m) =
                   IF m # rule THEN RulesAt(g, m)
                   ELSE IF RulesAt(g, rule) = <<>> THEN Append(<<>>, <<AsOperand(file[p])>>)
                   ELSE Append(Front(RulesAt(g, rule)),
                               Append(Last(RulesAt(g, rule)), AsOperand(file[p])))
      <4> DEFINE operand == AsOperand(file[p])
      <4>1. after = AddOperand(g, rule, operand)
        BY <3>1
      <4> HIDE DEF operand, after, g, rule
      <4>2. ASSUME NEW m
            PROVE  RulesAt(AddOperand(g, rule, operand), m) =
                     IF m # rule THEN RulesAt(g, m)
                     ELSE IF RulesAt(g, rule) = <<>> THEN Append(<<>>, <<operand>>)
                     ELSE Append(Front(RulesAt(g, rule)),
                                 Append(Last(RulesAt(g, rule)), operand))
        BY RulesAtAdd
      <4> QED BY <4>1, <4>2 DEF operand
    <3>3. ASSUME NEW q \in LeftSides(file), Owner(file, p) = q, file[q].value = rule,
                 RulesAt(g, rule) = RulesSoFar(file, op, q)
          PROVE  RulesAt(after, rule) = RulesSoFar(file, op + 1, q)
      <4>1. p \in Owned(file, q, OperandTypes)
        BY <1>5, <3>1, <3>3
      <4>2. RulesSoFar(file, op + 1, q) =
              IF RulesSoFar(file, op, q) = <<>> THEN Append(<<>>, <<AsOperand(file[p])>>)
              ELSE Append(Front(RulesSoFar(file, op, q)),
                          Append(Last(RulesSoFar(file, op, q)), AsOperand(file[p])))
        BY <1>2, <4>1, RulesOperand
      <4> QED BY <3>2, <3>3, <4>2, Zenon
    <3> QED BY <3>2, <3>3
  <2> QED BY <2>1, <2>2, <2>3 DEF ReadRightSide
<1> HIDE DEF file, op, rule, g, after, patterns, p
<1> QED
  BY <1>2, <1>6, WrittenBody

\* The helper for operators writes what the list or the bar says.
LEMMA WrittenOperators ==
  ASSUME InPlace, MarksInv, WrittenInv, CheckOperators
  PROVE  WrittenInv'
<1> DEFINE file  == parsedtokens
           rule  == current_rule
           g     == production_rules
           after == production_rules'
           patterns == tokens
           read == IF ReadsOr THEN 1 ELSE 0
           op   == op_count + read
           note == /\ op < Len(grammar)
                   /\ grammar[op + 1] = "LINECOMMENT"
                   /\ parsedtokens[tok_count + read + 1].type = "LINECOMMENT"
<1>1. /\ UNCHANGED <<parsedtokens, tokens>> /\ at = "check_operators"
      /\ IF note THEN Advance(read + 1, read + 1) ELSE Advance(read, read)
      /\ after = IF ReadsOr THEN PushRule(g, rule, <<>>) ELSE g
  BY DEF CheckOperators, input
<1>2. SUFFICES ASSUME Plain(parsedtokens)
               PROVE  Written(file, op_count', after, patterns)
  BY <1>1 DEF WrittenInv
<1>3. Written(file, op_count, g, patterns) /\ RuleIs(file, op_count, rule)
  BY <1>1, <1>2 DEF WrittenInv, MarksInv
<1>4. IsFile(file) /\ op_count \in 0..Len(Starts(file)) /\ Len(grammar) = Len(Starts(file))
      /\ grammar = SecondLexer(file)
  BY StartsAre DEF InPlace, Placed
<1>5. op \in 0..Len(Starts(file)) /\ Written(file, op, after, patterns)
  <2>1. CASE ReadsOr
    <3>1. Op("OR") /\ Tok.type = "OR"
      BY <2>1 DEF ReadsOr
    <3>2. /\ op_count < Len(Starts(file)) /\ Match(file, NextStart(file, op_count)) = "OR"
          /\ op = op_count + 1 /\ Len(Starts(file)) \in Nat /\ Here = NextStart(file, op_count)
          /\ Here \in 1..Len(file)
      BY <2>1, <3>1, <1>4, AtOp, NextStartIs
    <3>3. file[Here].type = "OR" /\ Here \in DOMAIN file
      BY <1>2, <1>4, <3>1, <3>2, TidyTokens, PlacesAre DEF Op
    <3>4. after = PushRule(g, rule, <<>>)
      BY <1>1, <2>1
    <3> HIDE DEF file, rule, g, after, patterns, op
    <3>5. \A m : RulesAt(after, m) = IF m = rule THEN Append(RulesAt(g, rule), <<>>)
                                     ELSE RulesAt(g, m)
      BY <3>4, RulesAtPush
    <3>6. ASSUME NEW q \in LeftSides(file), Owner(file, Here) = q,
                 RulesAt(g, rule) = RulesSoFar(file, op_count, q)
          PROVE  RulesAt(after, rule) = RulesSoFar(file, op_count + 1, q)
      <4>1. Here \in Owned(file, q, {"OR"})
        BY <3>2, <3>3, <3>6 DEF Owned
      <4>2. RulesSoFar(file, op_count + 1, q) = Append(RulesSoFar(file, op_count, q), <<>>)
        BY <1>2, <1>4, <3>2, <4>1, RulesBar DEF file
      <4> QED BY <3>5, <3>6, <4>2
    <3>7. /\ Plain(file) /\ \A m : m # rule => RulesAt(after, m) = RulesAt(g, m)
          /\ \A q \in LeftSides(file) :
               (/\ Owner(file, NextStart(file, op_count)) = q /\ file[q].value = rule
                /\ RulesAt(g, rule) = RulesSoFar(file, op_count, q))
                 => RulesAt(after, rule) = RulesSoFar(file, op_count + 1, q)
      BY <1>2, <3>2, <3>5, <3>6 DEF file
    <3>8. Match(file, NextStart(file, op_count)) \in {"OR", "RSIDE"}
      BY <3>2
    <3>9. Written(file, op_count + 1, after, patterns)
      BY <1>3, <1>4, <3>2, <3>7, <3>8, WrittenBody
    <3> QED BY <1>4, <3>2, <3>9
  <2>2. CASE ~ ReadsOr
    <3>1. op = op_count /\ after = g
      BY <1>1, <1>4, <2>2
    <3> QED BY <1>3, <1>4, <3>1
  <2> QED BY <2>1, <2>2
<1>6. CASE note
  <2>1. /\ op < Len(Starts(file)) /\ SecondLexer(file)[op + 1] = "LINECOMMENT"
        /\ op_count' = op_count + (read + 1) /\ op_count \in Nat /\ read \in Nat
    BY <1>1, <1>4, <1>6 DEF Advance
  <2>2. op_count' = op + 1
    <3> HIDE DEF read
    <3> QED BY <2>1
  <2> HIDE DEF op, file, after, patterns
  <2>3. Match(file, NextStart(file, op)) = "LINECOMMENT"
    BY <1>4, <1>5, <2>1, NextStartIs
  <2>4. Written(file, op + 1, after, patterns)
    BY <1>4, <1>5, <2>1, <2>3, WrittenOver
  <2> QED BY <2>2, <2>4
<1>7. CASE ~ note
  BY <1>1, <1>5, <1>7 DEF Advance
<1> QED
  BY <1>6, <1>7

\* The other checks read a match that they take to be of its kind.
LEMMA WrittenChecks ==
  ASSUME InPlace, WrittenInv, CheckAxiom \/ CheckLeftSide \/ CheckForToken
  PROVE  WrittenInv'
<1> DEFINE file  == parsedtokens
           op    == op_count
           g     == production_rules
           p     == Here
<1>0. UNCHANGED parsedtokens /\ at # "done"
  BY DEF CheckAxiom, CheckLeftSide, CheckForToken, input
<1>1. ASSUME NEW type, Op(type)
      PROVE  /\ IsFile(file) /\ op \in 0..Len(Starts(file)) /\ op < Len(Starts(file))
             /\ p = NextStart(file, op) /\ Match(file, p) = type
             /\ Plain(file) => /\ Tok = file[p] /\ NextTok = file[p + 1] /\ tok_count + 1 = p
                               /\ Written(file, op, g, tokens) /\ Tidy(file)
  BY <1>0, <1>1, AtOp, TidyTokens DEF WrittenInv, Op, Plain
<1>2. CASE CheckAxiom /\ Op("AXIOM") /\ axiomflag
  <2> DEFINE rules == <<<<AsOperand(parsedtokens[tok_count + 3])>>>>
  <2>1. /\ production_rules' = AxiomRule(g, rules)
        /\ op_count' = op + 1 /\ UNCHANGED tokens
    BY <1>2, Zenon DEF CheckAxiom, Advance, AxiomRule
  <2> SUFFICES ASSUME Plain(file) PROVE Written(file, op + 1, AxiomRule(g, rules), tokens)
    BY <1>0, <2>1 DEF WrittenInv
  <2>2. /\ IsFile(file) /\ op \in 0..Len(Starts(file)) /\ op < Len(Starts(file)) /\ Tidy(file)
        /\ p = NextStart(file, op) /\ Match(file, p) = "AXIOM" /\ tok_count + 1 = p
        /\ Written(file, op, g, tokens)
    BY <1>1, <1>2
  <2>3. tok_count + 3 = p + 2
    <3>1. tok_count \in Int
      BY HereIs
    <3> QED BY <2>2, <3>1
  <2>4. rules = <<<<AsOperand(file[p + 2])>>>>
    BY <2>3
  <2> HIDE DEF file, op, g, p, rules
  <2> QED BY <2>2, <2>4, WrittenAxiom
<1>3. CASE CheckAxiom /\ ~ (Op("AXIOM") /\ axiomflag)
  <2>1. UNCHANGED <<op_count, production_rules, tokens>>
    BY <1>3 DEF CheckAxiom
  <2> QED BY <1>0, <2>1, WrittenSame
<1>4. CASE CheckLeftSide /\ Op("LSIDE")
  <2>1. /\ production_rules' = Declare(g, Tok.value) /\ op_count' = op + 1 /\ UNCHANGED tokens
    BY <1>4 DEF CheckLeftSide, Advance
  <2>2. \A m : RulesAt(production_rules', m) = RulesAt(g, m)
    BY <2>1, RulesAtDeclare
  <2> DEFINE after == production_rules'
  <2> SUFFICES ASSUME Plain(file) PROVE Written(file, op + 1, after, tokens)
    BY <1>0, <2>1 DEF WrittenInv
  <2>3. /\ IsFile(file) /\ op \in 0..Len(Starts(file)) /\ op < Len(Starts(file))
        /\ p = NextStart(file, op) /\ Match(file, p) = "LSIDE" /\ Written(file, op, g, tokens)
    BY <1>1, <1>4
  <2> HIDE DEF file, op, g, p, after
  <2> QED BY <2>2, <2>3, WrittenOver DEF after
<1>5. CASE CheckLeftSide /\ ~ Op("LSIDE")
  <2>1. UNCHANGED <<op_count, production_rules, tokens>>
    BY <1>5 DEF CheckLeftSide
  <2> QED BY <1>0, <2>1, WrittenSame
<1>6. CASE CheckForToken
  <2>1. /\ tokens' = Append(tokens, [type |-> Clean(Tok.value), value |-> NextTok.value])
        /\ op_count' = op + 1 /\ UNCHANGED production_rules /\ Op("TOKEN")
    BY <1>6 DEF CheckForToken, Advance
  <2> SUFFICES ASSUME Plain(file) PROVE Written(file, op + 1, g, tokens')
    BY <1>0, <2>1 DEF WrittenInv
  <2>2. /\ IsFile(file) /\ op \in 0..Len(Starts(file)) /\ op < Len(Starts(file))
        /\ p = NextStart(file, op) /\ Match(file, p) = "TOKEN" /\ Written(file, op, g, tokens)
        /\ Tok = file[p] /\ NextTok = file[p + 1]
    BY <1>1, <2>1
  <2>3. tokens' = Append(tokens, PatternAt(file, p))
    BY <2>1, <2>2 DEF PatternAt
  <2> HIDE DEF file, op, g, p
  <2> QED BY <2>2, <2>3, WrittenToken
<1> QED
  BY <1>2, <1>3, <1>4, <1>5, <1>6

\* Every step preserves it.
LEMMA WrittenStep ==
  ASSUME InPlace, MarksInv, WrittenInv, Next
  PROVE  WrittenInv'
<1>1. CASE RightSideUndefined \/ LeaveRightSide \/ NoToken \/ CleanRegexThrows
  <2>1. UNCHANGED <<parsedtokens, op_count, tokens, production_rules>> /\ at # "done"
    BY <1>1 DEF RightSideUndefined, LeaveRightSide, NoToken, CleanRegexThrows, input
  <2> QED BY <2>1, WrittenSame
<1>2. CASE Finish
  BY <1>2 DEF Finish, WrittenInv
<1> QED
  BY <1>1, <1>2, WrittenRightSide, WrittenOperators, WrittenChecks DEF Next, ReadRightSide

-----------------------------------------------------------------------------
(* The end of a parse.                                                      *)

\* Dropping repeats from nothing.
LEMMA NoDoublesInNone == WithoutDoubles(<<>>) = <<>>
BY PickEmpty DEF WithoutDoubles

\* One alternative is no repeat.
LEMMA NoDoublesInOne ==
  ASSUME NEW x
  PROVE  WithoutDoubles(<<x>>) = <<x>>
<1> DEFINE places == {n \in DOMAIN <<x>> : \A m \in 1..(n - 1) : <<x>>[m] # <<x>>[n]}
<1>1. 1 \in places
  OBVIOUS
<1> HIDE DEF places
<1> DEFINE e == <<>>
           T == {x}
<1>2. /\ e \in Seq(T) /\ x \in T /\ Len(e) + 1 = 1 /\ Append(e, x) = <<x>>
  OBVIOUS
<1>3. Pick(e, places) = e
  BY PickEmpty
<1> HIDE DEF e, T
<1>4. Pick(Append(e, x), places) = Append(Pick(e, places), x)
  <2>1. Pick(Append(e, x), places) =
          IF Len(e) + 1 \in places THEN Append(Pick(e, places), x) ELSE Pick(e, places)
    BY <1>2, PickAppend
  <2> QED BY <1>1, <1>2, <2>1
<1> QED
  BY <1>2, <1>3, <1>4 DEF WithoutDoubles, places

\* At the end an alternative is what the file writes.
LEMMA AlternativeAll ==
  ASSUME NEW file, IsFile(file), NEW q, NEW n
  PROVE  AlternativeSoFar(file, Len(Starts(file)), q, n) = WrittenAlternative(file, q, n)
<1>1. \A p \in ListPlaces(file, q, n) : p < NextStart(file, Len(Starts(file)))
  BY BodyPlaces, AllStartsBeforeEnd
<1>2. ReadPlaces(file, Len(Starts(file)), OperandPlaces(file, q, n))
        = Enumerate(OperandPlaces(file, q, n), Len(file))
  BY ReadPlacesAll
<1> QED
  BY <1>1, <1>2, WrittenIs DEF AlternativeSoFar

\* At the end the rules read so far are what the file writes, and no rule is
\* without an alternative.
LEMMA RulesAll ==
  ASSUME NEW file, IsFile(file), Plain(file), NEW q \in LeftSides(file)
  PROVE  /\ RulesSoFar(file, Len(Starts(file)), q) = WrittenRules(file, q)
         /\ RulesSoFar(file, Len(Starts(file)), q) # <<>>
<1> DEFINE op == Len(Starts(file))
           k == Cardinality(Owned(file, q, {"OR"})) + 1
<1>1. \A types : Seen(file, op, q, types) = Owned(file, q, types)
  BY SeenAll
<1>2. Bars(file, op, q) + 1 = k
  BY <1>1 DEF Bars
<1>3. Owned(file, q, BodyTypes) # {}
  BY PlainFirst, OwnedWider DEF OperandPlaces, BodyTypes
<1>4. Seen(file, op, q, BodyTypes) # {}
  BY <1>1, <1>3
<1> HIDE DEF op
<1>5. RulesSoFar(file, op, q) = [n \in 1..k |-> AlternativeSoFar(file, op, q, n)]
  BY <1>2, <1>4 DEF RulesSoFar
<1>6. RulesSoFar(file, op, q) = WrittenRules(file, q)
  BY <1>5, AlternativeAll, Zenon DEF WrittenRules, op
<1>7. k \in Nat \ {0}
  <2>1. Owned(file, q, {"OR"}) \subseteq 1..Len(file) /\ Len(file) \in Nat
    BY PlacesAre
  <2>2. IsFiniteSet(Owned(file, q, {"OR"}))
    <3>1. IsFiniteSet(1..Len(file))
      BY <2>1, FS_Interval
    <3> QED BY <2>1, <3>1, FS_Subset
  <2> QED BY <2>2, FS_CardinalityType
<1> HIDE DEF k
<1>8. RulesSoFar(file, op, q) # <<>>
  BY <1>5, <1>7
<1> QED
  BY <1>6, <1>8 DEF op

\* When the loop ends, the grammar says what the file says.
LEMMA FinishWrites ==
  ASSUME InPlace, WrittenInv, Finish
  PROVE  GrammarAsWritten'
<1> DEFINE file == parsedtokens
           op == Len(Starts(file))
           g == production_rules
           after == production_rules'
<1>1. /\ UNCHANGED <<parsedtokens, tokens>> /\ at # "done"
      /\ after = [m \in DOMAIN g |-> WithoutDoubles(g[m])]
      /\ ~ (op_count < Len(grammar))
  BY DEF Finish, input, StillParsing
<1>2. IsFile(file) /\ op_count = op
  <2>1. op_count \in 0..Len(grammar) /\ Len(grammar) = op /\ Len(grammar) \in Nat /\ IsFile(file)
    BY HereIs, StartsAre DEF InPlace
  <2> QED BY <1>1, <2>1
<1> SUFFICES ASSUME Plain(file)
             PROVE  /\ \A q \in LeftSides(file) :
                         RulesAt(after, file[q].value) = WithoutDoubles(WrittenRules(file, q))
                    /\ \A q \in AxiomLines(file) :
                         RulesAt(after, <<Axiom>>) = <<<<AsOperand(file[q + 2])>>>>
                    /\ \A m \in DOMAIN after :
                         after[m] # <<>> =>
                           m \in LeftNames(file) \/ (m = <<Axiom>> /\ AxiomLines(file) # {})
                    /\ tokens = WrittenTokens(file)
  BY <1>1 DEF GrammarAsWritten
<1>3. Written(file, op, g, tokens)
  BY <1>1, <1>2 DEF WrittenInv
<1>4. \A m : RulesAt(g, m) # <<>> => RulesAt(after, m) = WithoutDoubles(RulesAt(g, m))
  BY <1>1 DEF RulesAt
<1>8. ASSUME NEW m \in DOMAIN after, after[m] # <<>>
      PROVE  m \in LeftNames(file) \/ (m = <<Axiom>> /\ AxiomLines(file) # {})
  <2>1. RulesAt(g, m) # <<>>
    BY <1>1, <1>8, NoDoublesInNone DEF RulesAt
  <2> QED BY <1>3, <2>1 DEF Written, OnlyNamed
<1> HIDE DEF after, g, op
<1>5. ASSUME NEW q \in LeftSides(file)
      PROVE  RulesAt(after, file[q].value) = WithoutDoubles(WrittenRules(file, q))
  <2>1. RulesAt(g, file[q].value) = RulesSoFar(file, op, q)
    BY <1>3 DEF Written, SaidSoFar
  <2>2. /\ RulesSoFar(file, op, q) = WrittenRules(file, q)
        /\ RulesSoFar(file, op, q) # <<>>
    BY <1>2, RulesAll DEF op
  <2> QED BY <1>4, <2>1, <2>2
<1>6. ASSUME NEW q \in AxiomLines(file)
      PROVE  RulesAt(after, <<Axiom>>) = <<<<AsOperand(file[q + 2])>>>>
  <2>1. q < NextStart(file, op)
    BY <1>2, AxiomLinesAre, AllStartsBeforeEnd DEF op
  <2> DEFINE rule == <<AsOperand(file[q + 2])>>
  <2>2. RulesAt(g, <<Axiom>>) = <<rule>>
    BY <1>3, <2>1 DEF Written, AxiomSoFar
  <2> HIDE DEF rule
  <2>3. RulesAt(after, <<Axiom>>) = WithoutDoubles(<<rule>>)
    BY <1>4, <2>2
  <2> QED BY <2>3, NoDoublesInOne DEF rule
<1>7. tokens = WrittenTokens(file)
  <2>1. tokens = PatternsAt(file, Enumerate(TokenPlaces(file), Len(file)))
    BY <1>2, <1>3, ReadPlacesAll DEF Written, PatternsSoFar, op
  <2> QED BY <2>1, Zenon DEF PatternsAt, PatternAt, TokenPlaces, WrittenTokens
<1> QED
  BY <1>5, <1>6, <1>7, <1>8

-----------------------------------------------------------------------------

\* The inductive invariant of the parser.
ParserInv ==
  /\ InPlace
  /\ PartsTyped
  /\ BegunInv /\ UndefinedOnlyOnBrokenRules
  /\ MarksInv /\ EndInv
  /\ WrittenInv /\ GrammarAsWritten

\* A parser that was made for a file, or one that never was.
ParserBegins ==
  /\ IsFile(parsedtokens) /\ grammar = SecondLexer(parsedtokens)
  /\ op_count = 0 /\ tok_count = 0 /\ axiomflag = TRUE
  /\ production_rules = NoRules /\ labels = NoRules /\ strnodes = NoRules
  /\ \A name : SetAt(keeper, name) = {}
  /\ tokens = <<>>
  /\ at = "check_axiom" \/ (at = "done" /\ parsedtokens = <<>>)

\* It holds at the start.
LEMMA ParserStarts == ParserBegins => ParserInv
<1> SUFFICES ASSUME ParserBegins PROVE ParserInv
  OBVIOUS
<1> USE DEF ParserBegins
<1>1. InPlace
  BY PlacedAtFirst DEF InPlace
<1>2. \A name : RulesAt(production_rules, name) = <<>>
  BY DEF RulesAt, NoRules
<1>3. PartsTyped
  <2>1. \A name : <<>> \in Seq(Seq(OperandsOf(parsedtokens, name)))
    OBVIOUS
  <2>2. RulesTyped(production_rules, parsedtokens)
    BY <1>2, <2>1, Zenon DEF RulesTyped
  <2>3. LabelsAreKept(labels, keeper) /\ DOMAIN strnodes = {}
    BY DEF NoRules, LabelsAreKept
  <2> QED BY <2>2, <2>3 DEF PartsTyped, Stages
<1>4. BegunInv
  BY SeenFirst DEF BegunInv, RuleBegun, Begun
<1>5. UndefinedOnlyOnBrokenRules
  BY DEF UndefinedOnlyOnBrokenRules
<1>6. MarksInv
  <2>1. KeptSoFar(parsedtokens, 0, keeper)
    BY KeptFirst
  <2>2. Owner(parsedtokens, NextStart(parsedtokens, 0)) = 0
    <3>1. NextStart(parsedtokens, 0) \in Int
      <4>1. Here \in Int
        BY <1>1, HereIs
      <4> QED BY <4>1 DEF Here
    <3>2. \A q \in LeftSides(parsedtokens) : ~ (q < NextStart(parsedtokens, 0))
      BY PlacesAre, NoStartBeforeFirst DEF NoMatch
    <3> QED BY <3>1, <3>2, OwnerIs
  <2>3. OnlyKept(parsedtokens, keeper)
    BY DEF OnlyKept
  <2> QED BY <2>1, <2>2, <2>3 DEF MarksInv, RuleIs
<1>7. EndInv
  <2> SUFFICES ASSUME parsedtokens = <<>> PROVE Len(Starts(parsedtokens)) = 0
    BY DEF EndInv
  <2>1. Len(parsedtokens) = 0
    OBVIOUS
  <2> QED BY <2>1, EnumerateZero DEF Starts
<1>8. WrittenInv
  BY <1>2, WrittenFirst DEF WrittenInv
<1>9. GrammarAsWritten
  <2> SUFFICES ASSUME parsedtokens = <<>>
               PROVE  /\ LeftSides(parsedtokens) = {} /\ AxiomLines(parsedtokens) = {}
                      /\ DOMAIN production_rules = {}
                      /\ WrittenTokens(parsedtokens) = <<>>
    BY DEF GrammarAsWritten
  <2>1. Len(parsedtokens) = 0 /\ DOMAIN parsedtokens = {}
    OBVIOUS
  <2>2. WrittenTokens(parsedtokens) = PatternsAt(parsedtokens, <<>>)
    <3>1. Enumerate(TokenPlaces(parsedtokens), Len(parsedtokens)) = <<>>
      BY <2>1, EnumerateZero
    <3>2. WrittenTokens(parsedtokens) =
            PatternsAt(parsedtokens, Enumerate(TokenPlaces(parsedtokens), Len(parsedtokens)))
      BY Zenon DEF PatternsAt, PatternAt, TokenPlaces, WrittenTokens
    <3> QED BY <3>1, <3>2
  <2> QED BY <2>1, <2>2 DEF LeftSides, AxiomLines, PatternsAt, NoRules
<1> QED
  BY <1>1, <1>3, <1>4, <1>5, <1>6, <1>7, <1>8, <1>9 DEF ParserInv

\* The same of the next state, for the loader that makes a parser.
LEMMA ParserRestarts == ParserBegins' => ParserInv'
BY ParserStarts, PTL

\* Every step preserves it.
LEMMA ParserSteps ==
  ASSUME ParserInv, [Next]_vars
  PROVE  ParserInv'
<1>1. CASE Next
  <2>1. at # "done"
    BY <1>1 DEF Next, CheckAxiom, CheckLeftSide, KeepAsText, Keep, MakeList, MakeListOp,
                AddToRule, RightSide, LeaveRightSide, NoToken, CheckForToken, CleanRegexThrows,
                RightSideUndefined, CheckOperators, Finish
  <2>2. GrammarAsWritten'
    <3>1. CASE Finish
      BY <3>1, FinishWrites DEF ParserInv
    <3>2. CASE ~ Finish
      <4>1. at' # "done"
        BY <1>1, <2>1, <3>2
           DEF Next, CheckAxiom, CheckLeftSide, KeepAsText, Keep, MakeList, MakeListOp,
               AddToRule, RightSide, LeaveRightSide, NoToken, CheckForToken, CleanRegexThrows,
               NextRound, RightSideUndefined, CheckOperators
      <4> QED BY <4>1 DEF GrammarAsWritten
    <3> QED BY <3>1, <3>2
  <2>3. /\ InPlace' /\ PartsTyped' /\ BegunInv' /\ UndefinedOnlyOnBrokenRules'
        /\ MarksInv' /\ EndInv' /\ WrittenInv'
    BY <1>1, InPlaceStep, PartsTypedStep, BegunStep, BrokenStep, MarksStep, EndStep, WrittenStep
       DEF ParserInv
  <2> QED BY <2>2, <2>3 DEF ParserInv
<1>2. CASE UNCHANGED vars
  <2>1. InPlace' /\ PartsTyped'
    BY <1>2 DEF ParserInv, InPlace, PartsTyped, vars
  <2>2. BegunInv' /\ UndefinedOnlyOnBrokenRules'
    BY <1>2 DEF ParserInv, BegunInv, RuleBegun, RulesHere, UndefinedOnlyOnBrokenRules, vars
  <2>3. MarksInv' /\ EndInv' /\ WrittenInv' /\ GrammarAsWritten'
    BY <1>2 DEF ParserInv, MarksInv, EndInv, WrittenInv, GrammarAsWritten, vars
  <2> QED BY <2>1, <2>2, <2>3 DEF ParserInv
<1> QED
  BY <1>1, <1>2

\* It is stronger than what the runs check; the loader's proofs cite this.
LEMMA ParserPromises == ParserInv => TypeOK /\ GrammarAsWritten /\ KeepsWhatIsMarked
BY TypesHold, MarksKept DEF ParserInv

\* The rules that a file writes for a left side are a sequence.
LEMMA WrittenRulesAre ==
  ASSUME NEW file, IsFile(file), NEW q
  PROVE  WrittenRules(file, q) \in Seq({WrittenRules(file, q)[n] : n \in DOMAIN WrittenRules(file, q)})
<1> DEFINE bars == Owned(file, q, {"OR"})
           k == Cardinality(bars) + 1
           rules == WrittenRules(file, q)
<1>1. Len(file) \in Nat /\ DOMAIN file = 1..Len(file)
  BY FileIsSequence
<1>2. bars \subseteq 1..Len(file)
  BY <1>1 DEF Owned
<1>3. k \in Nat
  <2>1. IsFiniteSet(1..Len(file))
    BY <1>1, FS_Interval
  <2>2. IsFiniteSet(bars)
    BY <1>2, <2>1, FS_Subset
  <2> HIDE DEF bars
  <2>3. Cardinality(bars) \in Nat
    BY <2>2, FS_CardinalityType
  <2> QED BY <2>3
<1>4. rules = [n \in 1..k |-> WrittenAlternative(file, q, n)]
  BY Zenon DEF WrittenRules
<1> HIDE DEF k
<1>5. DOMAIN rules = 1..k /\ rules = [n \in 1..k |-> rules[n]]
  BY <1>4
<1> HIDE DEF rules
<1>6. rules \in Seq({rules[n] : n \in DOMAIN rules})
  BY <1>3, <1>5
<1> QED
  BY <1>6 DEF rules

\* The invariant that the properties follow from.
THEOREM ParserInvariant == Spec => []ParserInv
<1>1. Init => ParserInv
  <2> SUFFICES ASSUME Init PROVE ParserInv
    OBVIOUS
  <2>1. \A name : SetAt(keeper, name) = {}
    BY DEF Init, SetAt
  <2> QED BY <2>1, FilesAssumption, ParserStarts DEF Init, ParserBegins
<1>2. ParserInv /\ [Next]_vars => ParserInv'
  BY ParserSteps
<1> QED
  BY <1>1, <1>2, PTL DEF Spec

\* The state of the parser has its type: the cursors never leave their lists,
\* and a rule is made of the file's own operands, and of pairs of its name.
THEOREM ParserTypes == Spec => []TypeOK
<1>1. ParserInv => TypeOK
  BY TypesHold DEF ParserInv
<1> QED
  BY <1>1, ParserInvariant, PTL

\* The two cursors stay together, in files of any length: no branch of the five
\* checks advances one of them too far, or less than the other.
THEOREM CursorsStayInStep == Spec => []InStep
<1>1. ParserInv => InStep
  BY InPlaceInStep DEF ParserInv
<1> QED
  BY <1>1, ParserInvariant, PTL

\* In a file without stray tokens, the five checks read behind the end of a list
\* or take the last of no alternatives only where a rule is broken off or begins
\* with a list.
THEOREM UndefinedOnlyThere == Spec => []UndefinedOnlyOnBrokenRules
<1>1. ParserInv => UndefinedOnlyOnBrokenRules
  BY DEF ParserInv
<1> QED
  BY <1>1, ParserInvariant, PTL

\* The keeping lists of a plain file, when the parse is done: for every rule what
\* its operators mark, and no more.
THEOREM MarkedIsKept == Spec => []KeepsWhatIsMarked
<1>1. ParserInv => KeepsWhatIsMarked
  BY MarksKept DEF ParserInv
<1> QED
  BY <1>1, ParserInvariant, PTL

\* The grammar of a plain file, when the parse is done: its alternatives without
\* repetitions, its axiom and its token patterns, in its order.
THEOREM GrammarIsTheFiles == Spec => []GrammarAsWritten
<1>1. ParserInv => GrammarAsWritten
  BY DEF ParserInv
<1> QED
  BY <1>1, ParserInvariant, PTL

=============================================================================
