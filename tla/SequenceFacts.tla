---------------------------- MODULE SequenceFacts ----------------------------
(* Facts about naturals and sequences that the proofs of several modules     *)
(* cite: induction in a form the provers can use, the least natural of a     *)
(* set, enumerations, sub-sequences and flattened sequences.                 *)
EXTENDS SubSequences, Integers, SequenceTheorems, WellFoundedInduction, TLAPS

\* A non-empty set of naturals has a least element.
LEMMA LeastNat ==
  ASSUME NEW T \in SUBSET Nat, T # {}
  PROVE  \E x \in T : \A y \in T : x <= y
<1> DEFINE R == OpToRel(<, Nat)
<1>1. IsWellFoundedOn(R, Nat)
  BY NatLessThanWellFounded
<1>2. \A x, y \in Nat : x < y => <<x, y>> \in R
  BY DEF OpToRel
<1> HIDE DEF R
<1>3. PICK x \in T : \A y \in T : ~ (<<y, x>> \in R)
  BY <1>1, WFMin
<1>4. \A y \in T : ~ (y < x)
  BY <1>2, <1>3
<1>5. \A y \in T : x <= y
  BY <1>4, SMT
<1> QED
  BY <1>5

\* Induction over the naturals, with a set in the place of a predicate.
LEMMA AllNat ==
  ASSUME NEW S, 0 \in S, \A n \in Nat : n \in S => n + 1 \in S
  PROVE  Nat \subseteq S
<1>1. SUFFICES ASSUME Nat \ S # {} PROVE FALSE
  OBVIOUS
<1>2. PICK x \in Nat \ S : \A y \in Nat \ S : x <= y
  BY <1>1, LeastNat
<1>3. x # 0 /\ x - 1 \in Nat /\ x - 1 \in S
  BY <1>2
<1> QED
  BY <1>2, <1>3

-----------------------------------------------------------------------------

\* The recursive function that FlattenSeq is defined with: what is joined up to
\* a place.
Joined(f, ss) ==
  /\ f = [i \in 1..Len(ss) |-> IF i = 1 THEN ss[i] ELSE f[i - 1] \o ss[i]]

\* It exists, by induction on the length.
LEMMA JoinedExists ==
  ASSUME NEW T, NEW ss \in Seq(Seq(T))
  PROVE  \E f : Joined(f, ss)
<1> DEFINE Upto(n, f) == f = [i \in 1..n |-> IF i = 1 THEN ss[i] ELSE f[i - 1] \o ss[i]]
           S == {n \in Nat : \E f : Upto(n, f)}
<1>1. 0 \in S
  <2>1. Upto(0, [i \in {} |-> 0])
    OBVIOUS
  <2> QED BY <2>1
<1>2. ASSUME NEW n \in Nat, n \in S
      PROVE  n + 1 \in S
  <2>1. PICK f : Upto(n, f)
    BY <1>2
  <2> DEFINE g == [i \in 1..(n + 1) |->
                     IF i \in 1..n THEN f[i] ELSE IF i = 1 THEN ss[i] ELSE f[n] \o ss[i]]
  <2>2. ASSUME NEW i \in 1..(n + 1)
        PROVE  g[i] = IF i = 1 THEN ss[i] ELSE g[i - 1] \o ss[i]
    <3>1. CASE i \in 1..n
      <4>1. f[i] = IF i = 1 THEN ss[i] ELSE f[i - 1] \o ss[i]
        BY <2>1, <3>1
      <4>2. i # 1 => i - 1 \in 1..n
        BY <3>1
      <4> QED BY <4>1, <4>2, <3>1
    <3>2. CASE i = n + 1
      <4>1. i \notin 1..n
        BY <3>2
      <4>2. i # 1 => n \in 1..n /\ i - 1 = n
        BY <3>2
      <4> QED BY <4>1, <4>2
    <3> QED BY <3>1, <3>2
  <2>3. Upto(n + 1, g)
    BY <2>2
  <2>4. \E h : Upto(n + 1, h)
    BY <2>3
  <2> HIDE DEF Upto
  <2> QED BY <2>4
<1> HIDE DEF S
<1>3. Len(ss) \in S
  BY <1>1, <1>2, AllNat
<1> QED
  BY <1>3 DEF S, Joined

\* Two of them agree as far as their sequences do.
LEMMA JoinedUnique ==
  ASSUME NEW T, NEW ss \in Seq(Seq(T)), NEW tt \in Seq(Seq(T)), NEW f, NEW g,
         Joined(f, ss), Joined(g, tt), NEW k \in Nat, k <= Len(ss), k <= Len(tt),
         \A i \in 1..k : ss[i] = tt[i]
  PROVE  \A i \in 1..k : f[i] = g[i] /\ f[i] \in Seq(T)
<1> DEFINE S == {n \in Nat : n \in 1..k => f[n] = g[n] /\ f[n] \in Seq(T)}
<1>1. 0 \in S
  OBVIOUS
<1>2. ASSUME NEW n \in Nat, n \in S
      PROVE  n + 1 \in S
  <2>1. SUFFICES ASSUME n + 1 \in 1..k
                 PROVE  f[n + 1] = g[n + 1] /\ f[n + 1] \in Seq(T)
    OBVIOUS
  <2>2. /\ f[n + 1] = IF n + 1 = 1 THEN ss[n + 1] ELSE f[n] \o ss[n + 1]
        /\ g[n + 1] = IF n + 1 = 1 THEN tt[n + 1] ELSE g[n] \o tt[n + 1]
    <3>1. n + 1 \in 1..Len(ss) /\ n + 1 \in 1..Len(tt) /\ (n + 1) - 1 = n
      BY <2>1
    <3>2. \A i \in 1..Len(ss) : f[i] = IF i = 1 THEN ss[i] ELSE f[i - 1] \o ss[i]
      BY Zenon DEF Joined
    <3>3. \A i \in 1..Len(tt) : g[i] = IF i = 1 THEN tt[i] ELSE g[i - 1] \o tt[i]
      BY Zenon DEF Joined
    <3>4. f[n + 1] = IF n + 1 = 1 THEN ss[n + 1] ELSE f[(n + 1) - 1] \o ss[n + 1]
      BY <3>1, <3>2, Zenon
    <3>5. g[n + 1] = IF n + 1 = 1 THEN tt[n + 1] ELSE g[(n + 1) - 1] \o tt[n + 1]
      BY <3>1, <3>3, Zenon
    <3> QED BY <3>1, <3>4, <3>5, Zenon
  <2>3. ss[n + 1] \in Seq(T) /\ tt[n + 1] = ss[n + 1]
    BY <2>1
  <2>4. n + 1 # 1 => f[n] = g[n] /\ f[n] \in Seq(T)
    BY <1>2, <2>1
  <2> QED BY <2>2, <2>3, <2>4
<1> HIDE DEF S
<1>3. Nat \subseteq S
  BY <1>1, <1>2, AllNat
<1> QED
  BY <1>3 DEF S

\* FlattenSeq is its last value.
LEMMA FlattenJoined ==
  ASSUME NEW T, NEW ss \in Seq(Seq(T)), Len(ss) # 0
  PROVE  \E f : Joined(f, ss) /\ FlattenSeq(ss) = f[Len(ss)]
<1> DEFINE f == CHOOSE flatten : flatten = [i \in 1..Len(ss) |->
                    IF i = 1 THEN ss[i] ELSE flatten[i - 1] \o ss[i]]
<1>1. FlattenSeq(ss) = f[Len(ss)]
  BY DEF FlattenSeq
<1>2. Joined(f, ss)
  BY JoinedExists DEF Joined
<1> QED
  BY <1>1, <1>2

\* Nothing joined is nothing.
LEMMA FlattenEmpty ==
  ASSUME NEW ss, Len(ss) = 0
  PROVE  FlattenSeq(ss) = ss
BY DEF FlattenSeq

\* Joined sequences keep the type of their elements.
LEMMA FlattenType ==
  ASSUME NEW T, NEW ss \in Seq(Seq(T))
  PROVE  FlattenSeq(ss) \in Seq(T)
<1>1. CASE Len(ss) = 0
  <2>1. ss = <<>>
    BY <1>1
  <2>2. FlattenSeq(ss) = <<>>
    BY <1>1, <2>1, FlattenEmpty
  <2> QED BY <2>2
<1>2. CASE Len(ss) # 0
  <2>1. PICK f : Joined(f, ss) /\ FlattenSeq(ss) = f[Len(ss)]
    BY <1>2, FlattenJoined
  <2>2. Len(ss) \in 1..Len(ss)
    BY <1>2
  <2>3. f[Len(ss)] \in Seq(T)
    BY <2>1, <2>2, JoinedUnique
  <2> QED BY <2>1, <2>3
<1> QED
  BY <1>1, <1>2

\* One more sequence is joined at the end.
LEMMA FlattenAppend ==
  ASSUME NEW T, NEW ss \in Seq(Seq(T)), NEW s \in Seq(T)
  PROVE  FlattenSeq(Append(ss, s)) = FlattenSeq(ss) \o s
<1> DEFINE tt == Append(ss, s)
<1>1. /\ tt \in Seq(Seq(T)) /\ Len(tt) = Len(ss) + 1 /\ Len(ss) \in Nat
      /\ tt[Len(ss) + 1] = s /\ \A i \in 1..Len(ss) : ss[i] = tt[i]
  OBVIOUS
<1> HIDE DEF tt
<1>2. PICK g : Joined(g, tt) /\ FlattenSeq(tt) = g[Len(tt)]
  <2>1. Len(tt) # 0
    BY <1>1
  <2> QED BY <2>1, <1>1, FlattenJoined
<1>3. \A i \in 1..Len(tt) : g[i] = IF i = 1 THEN tt[i] ELSE g[i - 1] \o tt[i]
  BY <1>2, Zenon DEF Joined
<1>4. g[Len(ss) + 1] = IF Len(ss) + 1 = 1 THEN tt[Len(ss) + 1]
                       ELSE g[(Len(ss) + 1) - 1] \o tt[Len(ss) + 1]
  <2>1. Len(ss) + 1 \in 1..Len(tt)
    BY <1>1
  <2> QED BY <2>1, <1>3, Zenon
<1>5. CASE Len(ss) = 0
  <2>1. ss = <<>> /\ FlattenSeq(ss) = ss
    BY <1>5, FlattenEmpty
  <2>2. FlattenSeq(tt) = s
    BY <1>5, <1>1, <1>2, <1>4
  <2> QED BY <2>1, <2>2 DEF tt
<1>6. CASE Len(ss) # 0
  <2>1. PICK f : Joined(f, ss) /\ FlattenSeq(ss) = f[Len(ss)]
    BY <1>6, FlattenJoined
  <2>2. f[Len(ss)] = g[Len(ss)]
    <3>1. Len(ss) \in 1..Len(ss) /\ Len(ss) <= Len(ss) /\ Len(ss) <= Len(tt)
      BY <1>1, <1>6
    <3>2. \A i \in 1..Len(ss) : f[i] = g[i] /\ f[i] \in Seq(T)
      <4>1. Joined(f, ss) /\ Joined(g, tt) /\ \A i \in 1..Len(ss) : ss[i] = tt[i]
        BY <2>1, <1>1, <1>2
      <4> QED BY <4>1, <3>1, <1>1, JoinedUnique
    <3> QED BY <3>1, <3>2
  <2>3. FlattenSeq(tt) = g[Len(ss)] \o s
    BY <1>6, <1>1, <1>2, <1>4
  <2> QED BY <2>1, <2>2, <2>3 DEF tt
<1> QED
  BY <1>5, <1>6

\* Induction over sequences, by appending.
LEMMA SeqInduction ==
  ASSUME NEW T, NEW S, <<>> \in S,
         \A s \in Seq(T) : \A x \in T : s \in S => Append(s, x) \in S
  PROVE  Seq(T) \subseteq S
<1> DEFINE N == {n \in Nat : \A s \in Seq(T) : Len(s) = n => s \in S}
<1>1. 0 \in N
  OBVIOUS
<1>2. ASSUME NEW n \in Nat, n \in N PROVE n + 1 \in N
  <2>1. SUFFICES ASSUME NEW s \in Seq(T), Len(s) = n + 1 PROVE s \in S
    OBVIOUS
  <2> DEFINE r == SubSeq(s, 1, n)
  <2>2. r \in Seq(T) /\ Len(r) = n /\ s[n + 1] \in T /\ s = Append(r, s[n + 1])
    BY <2>1
  <2>3. r \in S
    BY <1>2, <2>2
  <2> HIDE DEF r
  <2> QED BY <2>2, <2>3
<1> HIDE DEF N
<1>3. Nat \subseteq N
  BY <1>1, <1>2, AllNat
<1> QED
  BY <1>3 DEF N

\* The elements of two sequences one after the other.
LEMMA RangeOfConcat ==
  ASSUME NEW T, NEW s \in Seq(T), NEW t \in Seq(T), NEW x
  PROVE  x \in Range(s \o t) <=> x \in Range(s) \/ x \in Range(t)
<1>1. ASSUME NEW n \in 1..Len(s)
      PROVE  n \in 1..Len(s \o t) /\ (s \o t)[n] = s[n]
  OBVIOUS
<1>2. ASSUME NEW n \in 1..Len(t)
      PROVE  n + Len(s) \in 1..Len(s \o t) /\ (s \o t)[n + Len(s)] = t[n]
  OBVIOUS
<1>3. ASSUME NEW n \in 1..Len(s \o t)
      PROVE  \/ n \in 1..Len(s) /\ (s \o t)[n] = s[n]
             \/ n - Len(s) \in 1..Len(t) /\ (s \o t)[n] = t[n - Len(s)]
  OBVIOUS
<1>4. DOMAIN s = 1..Len(s) /\ DOMAIN t = 1..Len(t) /\ DOMAIN (s \o t) = 1..Len(s \o t)
  OBVIOUS
<1>5. x \in Range(s) => x \in Range(s \o t)
  BY <1>1, <1>4, Zenon DEF Range
<1>6. x \in Range(t) => x \in Range(s \o t)
  <2>1. SUFFICES ASSUME NEW n \in 1..Len(t), x = t[n] PROVE x \in Range(s \o t)
    BY <1>4, Zenon DEF Range
  <2>2. n + Len(s) \in 1..Len(s \o t) /\ (s \o t)[n + Len(s)] = t[n]
    BY <1>2
  <2> QED BY <2>1, <2>2, <1>4, Zenon DEF Range
<1>7. x \in Range(s \o t) => x \in Range(s) \/ x \in Range(t)
  BY <1>3, <1>4, Zenon DEF Range
<1> QED
  BY <1>5, <1>6, <1>7

\* The elements of joined sequences are those of each.
LEMMA FlattenRange ==
  ASSUME NEW T, NEW ss \in Seq(Seq(T)), NEW x
  PROVE  x \in Range(FlattenSeq(ss)) <=> \E m \in DOMAIN ss : x \in Range(ss[m])
<1> DEFINE S == {r \in Seq(Seq(T)) :
                  x \in Range(FlattenSeq(r)) <=> \E m \in DOMAIN r : x \in Range(r[m])}
<1>1. <<>> \in S
  <2>1. FlattenSeq(<<>>) = <<>> /\ <<>> \in Seq(Seq(T))
    BY FlattenEmpty
  <2>2. DOMAIN <<>> = {}
    OBVIOUS
  <2> QED BY <2>1, <2>2 DEF Range
<1>2. ASSUME NEW r \in Seq(Seq(T)), NEW s \in Seq(T), r \in S
      PROVE  Append(r, s) \in S
  <2>1. FlattenSeq(Append(r, s)) = FlattenSeq(r) \o s /\ FlattenSeq(r) \in Seq(T)
    BY FlattenAppend, FlattenType
  <2>2. x \in Range(FlattenSeq(Append(r, s))) <=> x \in Range(FlattenSeq(r)) \/ x \in Range(s)
    BY <2>1, RangeOfConcat
  <2>3. /\ Append(r, s) \in Seq(Seq(T))
        /\ DOMAIN Append(r, s) = (DOMAIN r) \cup {Len(r) + 1}
        /\ \A m \in DOMAIN r : Append(r, s)[m] = r[m]
        /\ Append(r, s)[Len(r) + 1] = s
    OBVIOUS
  <2>4. (\E m \in DOMAIN Append(r, s) : x \in Range(Append(r, s)[m]))
          <=> (\E m \in DOMAIN r : x \in Range(r[m])) \/ x \in Range(s)
    BY <2>3, Zenon
  <2> QED BY <1>2, <2>2, <2>3, <2>4
<1> HIDE DEF S
<1>3. Seq(Seq(T)) \subseteq S
  BY <1>1, <1>2, SeqInduction
<1> QED
  BY <1>3 DEF S

\* No element stands twice.
Distinct(s) == \A m, n \in DOMAIN s : s[m] = s[n] => m = n

\* Two sequences without doubles that share nothing have none together.
LEMMA DistinctConcat ==
  ASSUME NEW T, NEW s \in Seq(T), NEW t \in Seq(T), Distinct(s), Distinct(t),
         \A x \in Range(s) : x \notin Range(t)
  PROVE  Distinct(s \o t)
<1>1. ASSUME NEW n \in 1..Len(s \o t)
      PROVE  \/ n \in 1..Len(s) /\ (s \o t)[n] = s[n] /\ (s \o t)[n] \in Range(s)
             \/ n - Len(s) \in 1..Len(t) /\ (s \o t)[n] = t[n - Len(s)]
                 /\ (s \o t)[n] \in Range(t)
  BY DEF Range
<1>2. DOMAIN s = 1..Len(s) /\ DOMAIN t = 1..Len(t) /\ DOMAIN (s \o t) = 1..Len(s \o t)
      /\ Len(s) \in Nat
  OBVIOUS
<1>3. ASSUME NEW m \in 1..Len(s \o t), NEW n \in 1..Len(s \o t), (s \o t)[m] = (s \o t)[n]
      PROVE  m = n
  <2>1. \/ m \in 1..Len(s) /\ n \in 1..Len(s) /\ s[m] = s[n]
        \/ m - Len(s) \in 1..Len(t) /\ n - Len(s) \in 1..Len(t) /\ t[m - Len(s)] = t[n - Len(s)]
    BY <1>1, <1>3, Zenon
  <2>2. m = n \/ m - Len(s) = n - Len(s)
    BY <2>1, <1>2, Zenon DEF Distinct
  <2> QED BY <2>2, <1>2
<1> QED
  BY <1>2, <1>3 DEF Distinct

\* Nor have many such sequences.
LEMMA FlattenDistinct ==
  ASSUME NEW T, NEW ss \in Seq(Seq(T)),
         \A m \in DOMAIN ss : Distinct(ss[m]),
         \A m, n \in DOMAIN ss : \A x \in Range(ss[m]) : x \in Range(ss[n]) => m = n
  PROVE  Distinct(FlattenSeq(ss))
<1> DEFINE Apart(r) == /\ \A m \in DOMAIN r : Distinct(r[m])
                       /\ \A m, n \in DOMAIN r :
                            \A x \in Range(r[m]) : x \in Range(r[n]) => m = n
           S == {r \in Seq(Seq(T)) : Apart(r) => Distinct(FlattenSeq(r))}
<1>1. <<>> \in S
  <2>1. FlattenSeq(<<>>) = <<>> /\ <<>> \in Seq(Seq(T))
    BY FlattenEmpty
  <2> QED BY <2>1 DEF Distinct
<1>2. ASSUME NEW r \in Seq(Seq(T)), NEW s \in Seq(T), r \in S
      PROVE  Append(r, s) \in S
  <2>1. FlattenSeq(Append(r, s)) = FlattenSeq(r) \o s /\ FlattenSeq(r) \in Seq(T)
    BY FlattenAppend, FlattenType
  <2>3. /\ Append(r, s) \in Seq(Seq(T))
        /\ DOMAIN Append(r, s) = (DOMAIN r) \cup {Len(r) + 1}
        /\ Len(r) + 1 \notin DOMAIN r
        /\ \A m \in DOMAIN r : Append(r, s)[m] = r[m]
        /\ Append(r, s)[Len(r) + 1] = s
    OBVIOUS
  <2>4. SUFFICES ASSUME Apart(Append(r, s)) PROVE Distinct(FlattenSeq(r) \o s)
    BY <2>1, <2>3
  <2>5. Apart(r) /\ Distinct(s)
    BY <2>3, <2>4, Zenon
  <2>6. Distinct(FlattenSeq(r))
    BY <1>2, <2>5
  <2>7. ASSUME NEW x \in Range(FlattenSeq(r)), x \in Range(s) PROVE FALSE
    <3>1. PICK m \in DOMAIN r : x \in Range(r[m])
      BY <2>7, FlattenRange
    <3> QED BY <3>1, <2>3, <2>4, <2>7, Zenon
  <2> QED BY <2>1, <2>5, <2>6, <2>7, DistinctConcat
<1> HIDE DEF S
<1>3. Seq(Seq(T)) \subseteq S
  BY <1>1, <1>2, SeqInduction
<1> QED
  BY <1>3 DEF S

-----------------------------------------------------------------------------

\* The pieces that Pick joins are sequences.
LEMMA PickPieces ==
  ASSUME NEW T, NEW s \in Seq(T), NEW places
  PROVE  Singled(s, places) \in Seq(Seq(T)) /\ Len(Singled(s, places)) = Len(s)
<1>1. DOMAIN s = 1..Len(s) /\ Len(s) \in Nat
  OBVIOUS
<1>2. \A p \in 1..Len(s) : (IF p \in places THEN <<s[p]>> ELSE <<>>) \in Seq(T)
  OBVIOUS
<1> QED
  BY <1>1, <1>2 DEF Singled

\* Picked elements have the type of the sequence.
LEMMA PickType ==
  ASSUME NEW T, NEW s \in Seq(T), NEW places
  PROVE  Pick(s, places) \in Seq(T)
BY PickPieces, FlattenType DEF Pick

\* Nothing can be picked from nothing.
LEMMA PickEmpty ==
  ASSUME NEW places
  PROVE  Pick(<<>>, places) = <<>>
<1>1. Singled(<<>>, places) = <<>>
  BY DEF Singled
<1> QED
  BY <1>1, FlattenEmpty DEF Pick

\* A sequence over a set is one over any larger set.
LEMMA SeqWider ==
  ASSUME NEW T, NEW U, T \subseteq U, NEW s \in Seq(T)
  PROVE  s \in Seq(U)
<1>1. Len(s) \in Nat /\ s = [n \in 1..Len(s) |-> s[n]] /\ \A n \in 1..Len(s) : s[n] \in U
  OBVIOUS
<1> QED
  BY <1>1

\* A last element is picked if its place is.
LEMMA PickAppend ==
  ASSUME NEW T, NEW s \in Seq(T), NEW x \in T, NEW places
  PROVE  Pick(Append(s, x), places) =
           IF Len(s) + 1 \in places THEN Append(Pick(s, places), x) ELSE Pick(s, places)
<1> DEFINE r == Append(s, x)
           piece == IF Len(s) + 1 \in places THEN <<x>> ELSE <<>>
<1>1. r \in Seq(T) /\ piece \in Seq(T) /\ Len(r) = Len(s) + 1 /\ Len(s) \in Nat
  OBVIOUS
<1>2. /\ Singled(s, places) \in Seq(Seq(T)) /\ Len(Singled(s, places)) = Len(s)
      /\ Singled(r, places) \in Seq(Seq(T)) /\ Len(Singled(r, places)) = Len(s) + 1
  <2> HIDE DEF r
  <2> QED BY <1>1, PickPieces
<1>3. /\ Append(Singled(s, places), piece) \in Seq(Seq(T))
      /\ Len(Append(Singled(s, places), piece)) = Len(s) + 1
      /\ \A p \in 1..Len(s) : Append(Singled(s, places), piece)[p] = Singled(s, places)[p]
      /\ Append(Singled(s, places), piece)[Len(s) + 1] = piece
  <2> HIDE DEF piece
  <2> QED BY <1>1, <1>2
<1>4. \A p \in 1..(Len(s) + 1) :
        Singled(r, places)[p] = Append(Singled(s, places), piece)[p]
  <2>1. \A p \in 1..Len(s) : Singled(r, places)[p] = Singled(s, places)[p]
    BY DEF Singled
  <2>2. Singled(r, places)[Len(s) + 1] = piece
    BY DEF Singled
  <2> QED BY <2>1, <2>2, <1>1, <1>3
<1>5. Singled(r, places) = Append(Singled(s, places), piece)
  <2> HIDE DEF piece, r
  <2> QED BY <1>2, <1>3, <1>4, SeqEqual
<1>6. Pick(r, places) = Pick(s, places) \o piece
  <2> HIDE DEF piece, r
  <2> QED BY <1>1, <1>2, <1>5, FlattenAppend DEF Pick
<1>7. Pick(s, places) \in Seq(T)
  BY PickType
<1> HIDE DEF Pick
<1>8. CASE Len(s) + 1 \in places
  <2>1. Pick(s, places) \o <<x>> = Append(Pick(s, places), x)
    BY <1>7
  <2> QED BY <1>6, <1>8, <2>1
<1>9. CASE Len(s) + 1 \notin places
  <2>1. Pick(s, places) \o <<>> = Pick(s, places)
    BY <1>7
  <2> QED BY <1>6, <1>9, <2>1
<1> QED
  BY <1>8, <1>9

\* The picked elements are those at the places.
LEMMA PickRange ==
  ASSUME NEW T, NEW s \in Seq(T), NEW places, NEW x
  PROVE  x \in Range(Pick(s, places)) <=> \E p \in DOMAIN s : p \in places /\ x = s[p]
<1> DEFINE ss == Singled(s, places)
<1>1. ss \in Seq(Seq(T)) /\ DOMAIN ss = DOMAIN s
  BY PickPieces DEF Singled
<1>2. ASSUME NEW p \in DOMAIN s
      PROVE  x \in Range(ss[p]) <=> p \in places /\ x = s[p]
  BY DEF Range, Singled
<1>3. x \in Range(FlattenSeq(ss)) <=> \E p \in DOMAIN ss : x \in Range(ss[p])
  <2> HIDE DEF ss
  <2> QED BY <1>1, FlattenRange
<1> QED
  BY <1>1, <1>2, <1>3 DEF Pick

\* The elements grow.
Ascending(s) == \A m, n \in DOMAIN s : m < n => s[m] < s[n]

\* Enumerated numbers lie between 1 and n.
LEMMA EnumerateType ==
  ASSUME NEW n \in Nat, NEW places
  PROVE  Enumerate(places, n) \in Seq(1..n)
<1>1. [p \in 1..n |-> p] \in Seq(1..n)
  OBVIOUS
<1> QED
  BY <1>1, PickType DEF Enumerate

\* One more number is at the end, if it is chosen.
LEMMA EnumerateStep ==
  ASSUME NEW n \in Nat, NEW places
  PROVE  Enumerate(places, n + 1) =
           IF n + 1 \in places THEN Append(Enumerate(places, n), n + 1)
           ELSE Enumerate(places, n)
<1> DEFINE s == [p \in 1..n |-> p]
<1>1. s \in Seq(Nat) /\ Len(s) = n
  OBVIOUS
<1>2. [p \in 1..(n + 1) |-> p] = Append(s, n + 1)
  OBVIOUS
<1> HIDE DEF s
<1>3. Pick(Append(s, n + 1), places) =
        IF Len(s) + 1 \in places THEN Append(Pick(s, places), n + 1) ELSE Pick(s, places)
  <2> DEFINE y == n + 1
  <2>1. y \in Nat
    OBVIOUS
  <2> HIDE DEF y
  <2>2. Pick(Append(s, y), places) =
          IF Len(s) + 1 \in places THEN Append(Pick(s, places), y) ELSE Pick(s, places)
    BY <1>1, <2>1, PickAppend
  <2> QED BY <2>2 DEF y
<1> QED
  BY <1>1, <1>2, <1>3 DEF Enumerate, s

\* There is nothing to enumerate up to 0.
LEMMA EnumerateZero ==
  ASSUME NEW places
  PROVE  Enumerate(places, 0) = <<>>
<1>1. [p \in 1..0 |-> p] = <<>>
  OBVIOUS
<1> QED
  BY <1>1, PickEmpty DEF Enumerate

\* The numbers enumerated are the chosen ones.
LEMMA EnumerateRange ==
  ASSUME NEW n \in Nat, NEW places, NEW x
  PROVE  x \in Range(Enumerate(places, n)) <=> x \in 1..n /\ x \in places
<1>1. [p \in 1..n |-> p] \in Seq(Nat) /\ DOMAIN [p \in 1..n |-> p] = 1..n
  OBVIOUS
<1>2. x \in Range(Enumerate(places, n)) <=>
        \E p \in DOMAIN [q \in 1..n |-> q] : p \in places /\ x = [q \in 1..n |-> q][p]
  BY <1>1, PickRange DEF Enumerate
<1> QED
  BY <1>1, <1>2

\* They are enumerated from the least on.
LEMMA EnumerateAscending ==
  ASSUME NEW n \in Nat, NEW places
  PROVE  Ascending(Enumerate(places, n))
<1> DEFINE S == {k \in Nat : Ascending(Enumerate(places, k))}
<1>1. 0 \in S
  BY EnumerateZero DEF Ascending
<1>2. ASSUME NEW k \in Nat, k \in S PROVE k + 1 \in S
  <2>1. CASE k + 1 \notin places
    BY <1>2, <2>1, EnumerateStep
  <2>2. CASE k + 1 \in places
    <3> DEFINE e == Enumerate(places, k)
    <3>1. e \in Seq(1..k) /\ Ascending(e) /\ Enumerate(places, k + 1) = Append(e, k + 1)
      BY <1>2, <2>2, EnumerateType, EnumerateStep
    <3> HIDE DEF e
    <3>2. Ascending(Append(e, k + 1))
      <4>1. /\ DOMAIN e = 1..Len(e) /\ Len(e) \in Nat
            /\ DOMAIN Append(e, k + 1) = 1..(Len(e) + 1)
            /\ \A m \in 1..Len(e) : Append(e, k + 1)[m] = e[m] /\ e[m] \in 1..k
            /\ Append(e, k + 1)[Len(e) + 1] = k + 1
        BY <3>1
      <4> SUFFICES ASSUME NEW m \in 1..(Len(e) + 1), NEW o \in 1..(Len(e) + 1), m < o
                   PROVE  Append(e, k + 1)[m] < Append(e, k + 1)[o]
        BY <4>1 DEF Ascending
      <4>2. m \in 1..Len(e)
        BY <4>1
      <4>3. CASE o \in 1..Len(e)
        BY <3>1, <4>1, <4>2, <4>3 DEF Ascending
      <4>4. CASE o = Len(e) + 1
        BY <4>1, <4>2, <4>4
      <4> QED BY <4>1, <4>3, <4>4
    <3>3. Ascending(Enumerate(places, k + 1))
      BY <3>1, <3>2
    <3> QED BY <3>3
  <2> QED BY <2>1, <2>2
<1> HIDE DEF S
<1>3. Nat \subseteq S
  BY <1>1, <1>2, AllNat
<1> QED
  BY <1>3 DEF S

\* Picking elements is enumerating their places and reading them.
LEMMA PickPlaces ==
  ASSUME NEW T, NEW s \in Seq(T), NEW places
  PROVE  /\ Len(Pick(s, places)) = Len(Enumerate(places, Len(s)))
         /\ \A m \in 1..Len(Pick(s, places)) :
              Pick(s, places)[m] = s[Enumerate(places, Len(s))[m]]
<1> DEFINE Good(r) == /\ Len(Pick(r, places)) = Len(Enumerate(places, Len(r)))
                      /\ \A m \in 1..Len(Pick(r, places)) :
                           Pick(r, places)[m] = r[Enumerate(places, Len(r))[m]]
           S == {r \in Seq(T) : Good(r)}
<1>1. <<>> \in S
  BY PickEmpty, EnumerateZero
<1>2. ASSUME NEW r \in Seq(T), NEW x \in T, r \in S
      PROVE  Append(r, x) \in S
  <2> DEFINE e == Enumerate(places, Len(r))
             p == Pick(r, places)
             n == Len(r) + 1
  <2>1. /\ p \in Seq(T) /\ e \in Seq(1..Len(r)) /\ Len(p) = Len(e)
        /\ \A m \in 1..Len(p) : p[m] = r[e[m]] /\ e[m] \in 1..Len(r)
    <3>1. Len(r) \in Nat
      OBVIOUS
    <3>2. p \in Seq(T) /\ e \in Seq(1..Len(r))
      BY <3>1, PickType, EnumerateType
    <3>3. Len(p) = Len(e) /\ \A m \in 1..Len(p) : p[m] = r[e[m]]
      BY <1>2
    <3> HIDE DEF e, p
    <3> QED BY <3>2, <3>3
  <2>2. /\ Append(r, x) \in Seq(T) /\ Len(Append(r, x)) = n
        /\ Append(r, x)[n] = x /\ \A q \in 1..Len(r) : Append(r, x)[q] = r[q]
    OBVIOUS
  <2>3. Pick(Append(r, x), places) = IF n \in places THEN Append(p, x) ELSE p
    BY PickAppend
  <2>4. Enumerate(places, Len(Append(r, x))) = IF n \in places THEN Append(e, n) ELSE e
    <3>1. Len(r) \in Nat
      OBVIOUS
    <3>2. Enumerate(places, Len(r) + 1) =
            IF Len(r) + 1 \in places THEN Append(Enumerate(places, Len(r)), Len(r) + 1)
            ELSE Enumerate(places, Len(r))
      BY <3>1, EnumerateStep
    <3> QED BY <2>2, <3>2
  <2> HIDE DEF e, p
  <2>5. CASE n \notin places
    <3>1. Good(Append(r, x))
      BY <2>1, <2>2, <2>3, <2>4, <2>5
    <3> QED BY <2>2, <3>1
  <2>6. CASE n \in places
    <3>1. /\ Pick(Append(r, x), places) = Append(p, x)
          /\ Enumerate(places, Len(Append(r, x))) = Append(e, n)
      BY <2>3, <2>4, <2>6
    <3>2. /\ Len(Append(p, x)) = Len(p) + 1 /\ Len(Append(e, n)) = Len(p) + 1
          /\ \A m \in 1..Len(p) : Append(p, x)[m] = p[m] /\ Append(e, n)[m] = e[m]
          /\ Append(p, x)[Len(p) + 1] = x /\ Append(e, n)[Len(p) + 1] = n
      BY <2>1
    <3>3. \A m \in 1..Len(Append(p, x)) : Append(p, x)[m] = Append(r, x)[Append(e, n)[m]]
      BY <2>1, <2>2, <3>2
    <3>4. Good(Append(r, x))
      BY <3>1, <3>2, <3>3
    <3> QED BY <2>2, <3>4
  <2> QED BY <2>5, <2>6
<1> HIDE DEF S
<1>3. Seq(T) \subseteq S
  BY <1>1, <1>2, SeqInduction
<1> QED
  BY <1>3 DEF S
\* Numbers that are not chosen make no difference.
LEMMA EnumerateSkip ==
  ASSUME NEW places, NEW n \in Nat, NEW m \in Nat, n <= m,
         \A p \in (n + 1)..m : p \notin places
  PROVE  Enumerate(places, m) = Enumerate(places, n)
<1> DEFINE S == {k \in Nat : n <= k /\ k <= m => Enumerate(places, k) = Enumerate(places, n)}
<1>1. 0 \in S
  <2>1. SUFFICES ASSUME n <= 0 PROVE Enumerate(places, 0) = Enumerate(places, n)
    OBVIOUS
  <2> QED BY <2>1
<1>2. ASSUME NEW k \in Nat, k \in S PROVE k + 1 \in S
  <2>1. SUFFICES ASSUME n <= k + 1, k + 1 <= m
                 PROVE  Enumerate(places, k + 1) = Enumerate(places, n)
    OBVIOUS
  <2>2. CASE n <= k
    <3>1. k + 1 \notin places
      BY <2>1, <2>2
    <3>2. Enumerate(places, k + 1) = Enumerate(places, k)
      BY <3>1, EnumerateStep
    <3> QED BY <1>2, <2>1, <2>2, <3>2
  <2>3. CASE ~ (n <= k)
    <3>1. n = k + 1
      BY <2>1, <2>3
    <3> QED BY <3>1
  <2> QED BY <2>2, <2>3
<1> HIDE DEF S
<1>3. Nat \subseteq S
  BY <1>1, <1>2, AllNat
<1>4. m \in S
  BY <1>3
<1> QED
  BY <1>4 DEF S

\* Nothing is enumerated when nothing is chosen.
LEMMA EnumerateNone ==
  ASSUME NEW places, NEW n \in Nat, \A p \in 1..n : p \notin places
  PROVE  Enumerate(places, n) = <<>>
<1>1. Enumerate(places, n) = Enumerate(places, 0)
  <2>1. \A p \in (0 + 1)..n : p \notin places
    OBVIOUS
  <2>2. 0 <= n /\ 0 \in Nat
    OBVIOUS
  <2> QED BY <2>1, <2>2, EnumerateSkip
<1> QED
  BY <1>1, EnumerateZero

\* A sequence of the values that a function has for the elements of another.
LEMMA MappedAppend ==
  ASSUME NEW D, NEW d \in Seq(D), NEW x \in D, NEW T, NEW f \in [D -> T]
  PROVE  /\ [n \in DOMAIN d |-> f[d[n]]] \in Seq(T)
         /\ [n \in DOMAIN Append(d, x) |-> f[Append(d, x)[n]]]
              = Append([n \in DOMAIN d |-> f[d[n]]], f[x])
<1> DEFINE s == [n \in DOMAIN d |-> f[d[n]]]
           r == [n \in DOMAIN Append(d, x) |-> f[Append(d, x)[n]]]
<1>1. /\ DOMAIN d = 1..Len(d) /\ Len(d) \in Nat /\ DOMAIN Append(d, x) = 1..(Len(d) + 1)
      /\ \A n \in 1..Len(d) : d[n] \in D /\ Append(d, x)[n] = d[n]
      /\ Append(d, x)[Len(d) + 1] = x
  OBVIOUS
<1>2. s \in Seq(T) /\ Len(s) = Len(d) /\ \A n \in 1..Len(d) : s[n] = f[d[n]]
  BY <1>1
<1>3. f[x] \in T
  OBVIOUS
<1>4. r \in Seq(T) /\ Len(r) = Len(d) + 1
      /\ \A n \in 1..(Len(d) + 1) : r[n] = f[Append(d, x)[n]]
  <2>1. \A n \in 1..(Len(d) + 1) : Append(d, x)[n] \in D
    BY <1>1
  <2> QED BY <1>1, <2>1
<1> DEFINE y == f[x]
<1> HIDE DEF s, r, y
<1>5. /\ Append(s, y) \in Seq(T) /\ Len(Append(s, y)) = Len(d) + 1
      /\ \A n \in 1..Len(d) : Append(s, y)[n] = s[n]
      /\ Append(s, y)[Len(d) + 1] = y
  BY <1>1, <1>2, <1>3 DEF y
<1>6. \A n \in 1..(Len(d) + 1) : r[n] = Append(s, y)[n]
  <2>1. \A n \in 1..Len(d) : r[n] = Append(s, y)[n]
    BY <1>1, <1>2, <1>4, <1>5
  <2>2. r[Len(d) + 1] = Append(s, y)[Len(d) + 1]
    BY <1>1, <1>4, <1>5 DEF y
  <2>3. \A n \in 1..(Len(d) + 1) : n \in 1..Len(d) \/ n = Len(d) + 1
    BY <1>1
  <2> QED BY <2>1, <2>2, <2>3, Zenon
<1>7. r = Append(s, y)
  BY <1>4, <1>5, <1>6, SeqEqual
<1> QED
  BY <1>2, <1>7 DEF s, r, y

\* Choosing places of a sequence without repetition gives one without.
LEMMA PickDistinct ==
  ASSUME NEW T, NEW s \in Seq(T), NEW places, Distinct(s)
  PROVE  Distinct(Pick(s, places))
<1> DEFINE ss == Singled(s, places)
<1>1. ss \in Seq(Seq(T)) /\ DOMAIN ss = DOMAIN s
  BY PickPieces DEF Singled
<1>2. \A m \in DOMAIN ss : Distinct(ss[m])
  BY <1>1 DEF Singled, Distinct
<1>3. \A m, n \in DOMAIN ss : \A x \in Range(ss[m]) : x \in Range(ss[n]) => m = n
  BY <1>1 DEF Singled, Range, Distinct
<1> HIDE DEF ss
<1>4. Distinct(FlattenSeq(ss))
  BY <1>1, <1>2, <1>3, FlattenDistinct
<1> QED
  BY <1>4 DEF ss, Pick

\* Two sequences that have no double together share nothing.
LEMMA DistinctApart ==
  ASSUME NEW T, NEW s \in Seq(T), NEW t \in Seq(T), Distinct(s \o t)
  PROVE  /\ Range(s) \cap Range(t) = {}
         /\ Distinct(s) /\ Distinct(t)
<1>1. ASSUME NEW n \in 1..Len(s)
      PROVE  n \in 1..Len(s \o t) /\ (s \o t)[n] = s[n]
  OBVIOUS
<1>2. ASSUME NEW n \in 1..Len(t)
      PROVE  n + Len(s) \in 1..Len(s \o t) /\ (s \o t)[n + Len(s)] = t[n]
  OBVIOUS
<1>3. DOMAIN s = 1..Len(s) /\ DOMAIN t = 1..Len(t) /\ DOMAIN (s \o t) = 1..Len(s \o t)
      /\ Len(s) \in Nat /\ Len(t) \in Nat
  OBVIOUS
<1>4. ASSUME NEW m \in 1..Len(s), NEW n \in 1..Len(t), s[m] = t[n] PROVE FALSE
  <2>1. m = n + Len(s)
    BY <1>1, <1>2, <1>3, <1>4 DEF Distinct
  <2> QED BY <1>3, <2>1
<1>5. ASSUME NEW m \in 1..Len(t), NEW n \in 1..Len(t), t[m] = t[n] PROVE m = n
  <2>1. m + Len(s) = n + Len(s)
    BY <1>2, <1>3, <1>5 DEF Distinct
  <2> QED BY <1>3, <2>1
<1>6. ASSUME NEW m \in 1..Len(s), NEW n \in 1..Len(s), s[m] = s[n] PROVE m = n
  BY <1>1, <1>3, <1>6 DEF Distinct
<1> QED BY <1>3, <1>4, <1>5, <1>6 DEF Range, Distinct

-----------------------------------------------------------------------------
(* Functions that are defined by recursion.                                 *)

\* What holds of everything whose inferiors it holds of holds throughout.
LEMMA RankInduction ==
  ASSUME NEW S, NEW rank \in [S -> Nat], NEW I,
         \A x \in S : (\A y \in S : rank[y] < rank[x] => y \in I) => x \in I
  PROVE  S \subseteq I
<1> DEFINE N == {n \in Nat : \A x \in S : rank[x] < n => x \in I}
<1>1. 0 \in N
  OBVIOUS
<1>2. ASSUME NEW n \in Nat, n \in N PROVE n + 1 \in N
  <2> SUFFICES ASSUME NEW x \in S, rank[x] < n + 1 PROVE x \in I
    OBVIOUS
  <2>1. \A y \in S : rank[y] < rank[x] => rank[y] < n
    OBVIOUS
  <2> QED BY <1>2, <2>1
<1>3. Nat \subseteq N
  <2> HIDE DEF N
  <2> QED BY <1>1, <1>2, AllNat
<1> SUFFICES ASSUME NEW x \in S PROVE x \in I
  OBVIOUS
<1>4. rank[x] + 1 \in N /\ rank[x] < rank[x] + 1
  BY <1>3
<1> QED BY <1>4

\* The function solves the equation below n.
SolvesBelow(f, G, S, rank, n) == \A x \in S : rank[x] < n => G[f][x] = f[x]

\* An equation for a function from S to T: what it says of an element depends on
\* lower ranks only.
LooksBelow(G, S, T, rank) ==
  /\ rank \in [S -> Nat]
  /\ G \in [[S -> T] -> [S -> T]]
  /\ \A f, h \in [S -> T] : \A x \in S :
       (\A y \in S : rank[y] < rank[x] => f[y] = h[y]) => G[f][x] = G[h][x]

\* Such an equation for a function from S to T has a solution.
LEMMA RecursionExists ==
  ASSUME NEW S, NEW T, NEW rank, NEW G, NEW first \in T, LooksBelow(G, S, T, rank)
  PROVE  \E f \in [S -> T] : f = G[f]
<1>0. rank \in [S -> Nat] /\ G \in [[S -> T] -> [S -> T]]
  BY DEF LooksBelow
<1> DEFINE F == [S -> T]
           N == {n \in Nat : \E f \in F : SolvesBelow(f, G, S, rank, n)}
<1>1. 0 \in N
  <2>1. [x \in S |-> first] \in F
    OBVIOUS
  <2>2. SolvesBelow([x \in S |-> first], G, S, rank, 0)
    BY <1>0 DEF SolvesBelow
  <2> QED BY <2>1, <2>2
<1>2. ASSUME NEW n \in Nat, n \in N PROVE n + 1 \in N
  <2>1. PICK f \in F : SolvesBelow(f, G, S, rank, n)
    BY <1>2
  <2>2. G[f] \in F
    BY <1>0
  <2>3. ASSUME NEW x \in S, rank[x] < n + 1 PROVE G[G[f]][x] = G[f][x]
    <3>1. \A y \in S : rank[y] < rank[x] => G[f][y] = f[y]
      BY <1>0, <2>1, <2>3 DEF SolvesBelow
    <3> QED BY <2>2, <3>1 DEF LooksBelow
  <2> QED BY <2>2, <2>3 DEF SolvesBelow
<1>3. Nat \subseteq N
  <2> HIDE DEF N
  <2> QED BY <1>1, <1>2, AllNat
<1>4. ASSUME NEW n \in Nat, NEW m \in Nat, n <= m, NEW f \in F, NEW h \in F,
             SolvesBelow(f, G, S, rank, n), SolvesBelow(h, G, S, rank, m)
      PROVE  \A x \in S : rank[x] < n => f[x] = h[x]
  <2> DEFINE I == {x \in S : rank[x] < n => f[x] = h[x]}
  <2>1. ASSUME NEW x \in S, \A y \in S : rank[y] < rank[x] => y \in I, rank[x] < n
        PROVE  f[x] = h[x]
    <3>1. \A y \in S : rank[y] < rank[x] => f[y] = h[y]
      BY <1>0, <2>1
    <3>2. G[f][x] = f[x] /\ G[h][x] = h[x]
      BY <1>0, <1>4, <2>1 DEF SolvesBelow
    <3> QED BY <3>1, <3>2 DEF LooksBelow
  <2>2. S \subseteq I
    <3>1. \A x \in S : (\A y \in S : rank[y] < rank[x] => y \in I) => x \in I
      BY <2>1
    <3> HIDE DEF I
    <3> QED BY <1>0, <3>1, RankInduction
  <2> QED BY <2>2
<1> DEFINE Best(x) == CHOOSE f \in F : SolvesBelow(f, G, S, rank, rank[x] + 1)
           f == [x \in S |-> Best(x)[x]]
<1>5. ASSUME NEW x \in S
      PROVE  Best(x) \in F /\ SolvesBelow(Best(x), G, S, rank, rank[x] + 1)
  <2>1. rank[x] + 1 \in N
    BY <1>0, <1>3
  <2> QED BY <2>1
<1> HIDE DEF Best
<1>6. f \in F
  BY <1>5
<1>7. ASSUME NEW x \in S PROVE G[f][x] = f[x]
  <2>1. ASSUME NEW y \in S, rank[y] < rank[x] PROVE f[y] = Best(x)[y]
    <3>1. rank[y] + 1 \in Nat /\ rank[x] + 1 \in Nat /\ rank[y] + 1 <= rank[x] + 1
          /\ rank[y] < rank[y] + 1
      BY <1>0, <2>1
    <3>2. \A z \in S : rank[z] < rank[y] + 1 => Best(y)[z] = Best(x)[z]
      BY <1>4, <1>5, <3>1
    <3> QED BY <3>1, <3>2
  <2>2. G[f][x] = G[Best(x)][x]
    <3> HIDE DEF f
    <3> QED BY <1>5, <1>6, <2>1 DEF LooksBelow
  <2>3. G[Best(x)][x] = Best(x)[x]
    BY <1>0, <1>5 DEF SolvesBelow
  <2> QED BY <2>2, <2>3
<1>8. f = G[f]
  <2>1. G[f] \in [S -> T]
    BY <1>0, <1>6
  <2> HIDE DEF f
  <2> QED BY <1>6, <1>7, <2>1
<1> QED BY <1>6, <1>8

=============================================================================
