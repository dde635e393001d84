----------------------------- MODULE SequenceLemmas -----------------------------
(***************************************************************************)
(* Lemmas about natural numbers, sequences and the operators of Lists that *)
(* the proofs of the components share.                                     *)
(*                                                                         *)
(* The induction theorems of the library take a predicate as a parameter.  *)
(* Here induction runs over a set: LeastNumber comes from the least        *)
(* elements of a well-founded relation, UpTo is induction up to a bound,   *)
(* and Recursion says that what a definition by recursion up to a bound    *)
(* chooses exists.                                                         *)
(***************************************************************************)
EXTENDS Lists, SequencesExt, SequenceTheorems, WellFoundedInduction, TLAPS

\* A set of natural numbers has a least element.
LEMMA LeastNumber ==
  ASSUME NEW S \in SUBSET Nat, S # {}
  PROVE  \E n \in S : \A m \in S : n <= m
<1> DEFINE R == OpToRel(<, Nat)
<1>1. IsWellFoundedOn(R, Nat)
  BY NatLessThanWellFounded
<1>2. \E n \in S : \A m \in S : <<m, n>> \notin R
  <2> HIDE DEF R
  <2>1. QED
    BY <1>1, WFMin
<1>3. PICK n \in S : \A m \in S : <<m, n>> \notin R
  BY <1>2
<1>4. \A m \in S : ~(m < n)
  BY <1>3 DEF OpToRel
<1>5. QED
  BY <1>4

\* Induction from 0 to N.
LEMMA UpTo ==
  ASSUME NEW N \in Nat, NEW S, 0 \in S,
         \A n \in 1..N : n - 1 \in S => n \in S
  PROVE  \A n \in 0..N : n \in S
<1> DEFINE bad == (0..N) \ S
<1>1. SUFFICES ASSUME bad # {} PROVE FALSE
  OBVIOUS
<1>2. PICK n \in bad : \A m \in bad : n <= m
  <2>1. bad \in SUBSET Nat
    OBVIOUS
  <2> HIDE DEF bad
  <2>2. QED
    BY <1>1, <2>1, LeastNumber
<1>3. n \in 1..N /\ n - 1 \in S
  BY <1>2
<1>4. QED
  BY <1>2, <1>3

\* g is defined by recursion from 0 to N, from s0 and by the steps of a function
Maps(step, N, S) == step \in [1..N -> [S -> S]]
Solves(g, N, S, s0, step) ==
  /\ g \in [0..N -> S] /\ g[0] = s0
  /\ \A n \in 1..N : g[n] = step[n][g[n - 1]]

\* Such a function exists.
LEMMA Recursion ==
  ASSUME NEW N \in Nat, NEW S, NEW s0 \in S, NEW step, Maps(step, N, S)
  PROVE  \E g : Solves(g, N, S, s0, step)
<1> USE DEF Maps, Solves
<1> DEFINE Part(g, m) == /\ g \in [0..m -> S] /\ g[0] = s0
                         /\ \A n \in 1..m : g[n] = step[n][g[n - 1]]
           Good == {m \in 0..N : \E g : Part(g, m)}
<1>1. 0 \in Good
  <2>1. Part([i \in 0..0 |-> s0], 0)
    OBVIOUS
  <2>2. \E g : Part(g, 0)
    <3> HIDE DEF Part
    <3>1. QED
      BY <2>1
  <2>3. QED
    BY <2>2
<1>2. ASSUME NEW n \in 1..N, n - 1 \in Good PROVE n \in Good
  <2>1. PICK g : Part(g, n - 1)
    BY <1>2
  <2> DEFINE h == [i \in 0..n |-> IF i = n THEN step[n][g[n - 1]] ELSE g[i]]
  <2>2. g[n - 1] \in S
    BY <2>1
  <2>3. step[n][g[n - 1]] \in S
    BY <2>2
  <2>4. h \in [0..n -> S] /\ h[0] = s0
    BY <2>1, <2>3
  <2>5. ASSUME NEW i \in 1..n PROVE h[i] = step[i][h[i - 1]]
    <3>1. CASE i = n
      BY <3>1
    <3>2. CASE i # n
      BY <2>1, <3>2
    <3>3. QED
      BY <3>1, <3>2
  <2>6. Part(h, n)
    BY <2>4, <2>5
  <2>7. \E f : Part(f, n)
    <3> HIDE DEF Part, h
    <3>1. QED
      BY <2>6
  <2>8. QED
    BY <2>7
<1>3. N \in Good
  <2> HIDE DEF Good
  <2>1. \A m \in 0..N : m \in Good
    BY <1>1, <1>2, UpTo
  <2>2. QED
    BY <2>1
<1>4. QED
  BY <1>3

------------------------------------------------------------------------------
(* Ranges                                                                  *)

\* Appending an element adds it to the range.
LEMMA RangeOfAppend ==
  ASSUME NEW S, NEW s \in Seq(S), NEW e \in S
  PROVE  Range(Append(s, e)) = Range(s) \cup {e}
<1>1. DOMAIN s = 1..Len(s) /\ DOMAIN Append(s, e) = 1..(Len(s) + 1) /\ Len(s) \in Nat
  BY LenProperties, AppendProperties
<1>2. \A i \in 1..Len(s) : Append(s, e)[i] = s[i]
  BY AppendProperties
<1>3. Append(s, e)[Len(s) + 1] = e
  BY AppendProperties
<1>4. 1..(Len(s) + 1) = 1..Len(s) \cup {Len(s) + 1}
  BY <1>1
<1>5. QED
  BY <1>1, <1>2, <1>3, <1>4 DEF Range

\* Appending a new element keeps a sequence free of repetitions.
LEMMA InjectiveAppend ==
  ASSUME NEW S, NEW s \in Seq(S), NEW e \in S,
         IsInjective(s), e \notin Range(s)
  PROVE  IsInjective(Append(s, e))
<1>1. DOMAIN s = 1..Len(s) /\ DOMAIN Append(s, e) = 1..(Len(s) + 1) /\ Len(s) \in Nat
  BY LenProperties, AppendProperties
<1>2. \A i \in 1..Len(s) : Append(s, e)[i] = s[i] /\ s[i] # e
  BY <1>1, AppendProperties DEF Range
<1>3. Append(s, e)[Len(s) + 1] = e
  BY AppendProperties
<1>4. \A i \in 1..(Len(s) + 1) : i \in 1..Len(s) \/ i = Len(s) + 1
  BY <1>1
<1>5. QED
  BY <1>1, <1>2, <1>3, <1>4 DEF IsInjective

\* The head and the tail of a sequence have its elements between them.
LEMMA RangeOfTail ==
  ASSUME NEW S, NEW s \in Seq(S), s # <<>>
  PROVE  Range(s) = {Head(s)} \cup Range(Tail(s))
<1>1. DOMAIN s = 1..Len(s) /\ DOMAIN Tail(s) = 1..(Len(s) - 1) /\ Len(s) \in Nat \ {0}
  BY LenProperties, HeadTailProperties, EmptySeq
<1>2. \A i \in 1..(Len(s) - 1) : Tail(s)[i] = s[i + 1]
  BY HeadTailProperties
<1>3. Head(s) = s[1]
  OBVIOUS
<1>4. ASSUME NEW i \in 1..Len(s)
      PROVE  i = 1 \/ (i - 1 \in 1..(Len(s) - 1) /\ s[i] = Tail(s)[i - 1])
  <2>1. CASE i = 1
    BY <2>1
  <2>2. CASE i # 1
    <3>1. i - 1 \in 1..(Len(s) - 1) /\ (i - 1) + 1 = i
      BY <1>1, <2>2
    <3>2. QED
      BY <1>2, <3>1
  <2>3. QED
    BY <2>1, <2>2
<1>5. \A i \in 1..(Len(s) - 1) : i + 1 \in 1..Len(s)
  BY <1>1
<1>6. 1 \in 1..Len(s)
  BY <1>1
<1>7. Range(s) \subseteq {Head(s)} \cup Range(Tail(s))
  <2>1. SUFFICES ASSUME NEW i \in 1..Len(s)
                 PROVE  s[i] \in {Head(s)} \cup Range(Tail(s))
    BY <1>1 DEF Range
  <2>2. CASE i = 1
    BY <1>3, <2>2
  <2>3. CASE i - 1 \in 1..(Len(s) - 1) /\ s[i] = Tail(s)[i - 1]
    BY <1>1, <2>3 DEF Range
  <2>4. QED
    BY <1>4, <2>2, <2>3
<1>8. {Head(s)} \cup Range(Tail(s)) \subseteq Range(s)
  BY <1>1, <1>2, <1>3, <1>5, <1>6 DEF Range
<1>9. QED
  BY <1>7, <1>8

\* A sequence without repetitions: nor has its tail, and the head is not in it.
LEMMA InjectiveTail ==
  ASSUME NEW S, NEW s \in Seq(S), s # <<>>, IsInjective(s)
  PROVE  IsInjective(Tail(s)) /\ Head(s) \notin Range(Tail(s))
<1>1. DOMAIN s = 1..Len(s) /\ DOMAIN Tail(s) = 1..(Len(s) - 1) /\ Len(s) \in Nat \ {0}
  BY LenProperties, HeadTailProperties, EmptySeq
<1>2. \A i \in 1..(Len(s) - 1) : Tail(s)[i] = s[i + 1] /\ i + 1 \in 1..Len(s) /\ i + 1 # 1
  BY <1>1, HeadTailProperties
<1>3. Head(s) = s[1] /\ 1 \in 1..Len(s)
  BY <1>1
<1>4. Head(s) \notin Range(Tail(s))
  BY <1>1, <1>2, <1>3 DEF Range, IsInjective
<1>5. ASSUME NEW i \in 1..(Len(s) - 1), NEW j \in 1..(Len(s) - 1), Tail(s)[i] = Tail(s)[j]
      PROVE  i = j
  <2>1. i + 1 = j + 1
    BY <1>1, <1>2, <1>5 DEF IsInjective
  <2>2. QED
    BY <2>1
<1>6. QED
  BY <1>1, <1>4, <1>5 DEF IsInjective

\* The parts of a concatenation without repetitions have none, and share nothing.
LEMMA InjectiveConcat ==
  ASSUME NEW S, NEW s \in Seq(S), NEW t \in Seq(S),
         IsInjective(s), IsInjective(t), Range(s) \cap Range(t) = {}
  PROVE  IsInjective(s \o t)
<1>1. /\ Len(s) \in Nat /\ Len(t) \in Nat
      /\ DOMAIN s = 1..Len(s) /\ DOMAIN t = 1..Len(t)
      /\ DOMAIN (s \o t) = 1..(Len(s) + Len(t))
  BY LenProperties, ConcatProperties
<1>2. ASSUME NEW i \in 1..(Len(s) + Len(t))
      PROVE  \/ i \in 1..Len(s) /\ (s \o t)[i] = s[i]
             \/ i - Len(s) \in 1..Len(t) /\ (s \o t)[i] = t[i - Len(s)]
  BY <1>1, ConcatProperties
<1>3. ASSUME NEW i \in 1..Len(s), NEW j \in 1..Len(t) PROVE s[i] # t[j]
  BY <1>1 DEF Range
<1>4. ASSUME NEW i \in 1..(Len(s) + Len(t)), NEW j \in 1..(Len(s) + Len(t)),
             (s \o t)[i] = (s \o t)[j]
      PROVE  i = j
  <2>1. CASE i \in 1..Len(s) /\ (s \o t)[i] = s[i]
    <3>1. j \in 1..Len(s) /\ (s \o t)[j] = s[j]
      BY <1>2, <1>3, <1>4, <2>1
    <3>2. QED
      BY <1>1, <1>4, <2>1, <3>1 DEF IsInjective
  <2>2. CASE i - Len(s) \in 1..Len(t) /\ (s \o t)[i] = t[i - Len(s)]
    <3>1. j - Len(s) \in 1..Len(t) /\ (s \o t)[j] = t[j - Len(s)]
      BY <1>2, <1>3, <1>4, <2>2
    <3>2. i - Len(s) = j - Len(s)
      BY <1>1, <1>4, <2>2, <3>1 DEF IsInjective
    <3>3. QED
      BY <1>1, <3>2
  <2>3. QED
    BY <1>2, <2>1, <2>2
<1>5. QED
  BY <1>1, <1>4 DEF IsInjective

\* Where the elements of a concatenation come from.
LEMMA ConcatParts ==
  ASSUME NEW S, NEW s \in Seq(S), NEW t \in Seq(S)
  PROVE  /\ s \o t \in Seq(S) /\ Len(s) \in Nat /\ Len(t) \in Nat
         /\ DOMAIN s = 1..Len(s) /\ DOMAIN t = 1..Len(t)
         /\ DOMAIN (s \o t) = 1..(Len(s) + Len(t)) /\ Len(s \o t) = Len(s) + Len(t)
         /\ \A i \in 1..Len(s) : i \in DOMAIN (s \o t) /\ (s \o t)[i] = s[i]
         /\ \A j \in 1..Len(t) :
              Len(s) + j \in DOMAIN (s \o t) /\ (s \o t)[Len(s) + j] = t[j]
         /\ \A i \in DOMAIN (s \o t) :
              \/ i \in 1..Len(s) /\ (s \o t)[i] = s[i]
              \/ i - Len(s) \in 1..Len(t) /\ (s \o t)[i] = t[i - Len(s)]
<1>1. /\ s \o t \in Seq(S) /\ Len(s) \in Nat /\ Len(t) \in Nat
      /\ DOMAIN s = 1..Len(s) /\ DOMAIN t = 1..Len(t)
      /\ DOMAIN (s \o t) = 1..(Len(s) + Len(t)) /\ Len(s \o t) = Len(s) + Len(t)
  BY LenProperties, ConcatProperties
<1>2. ASSUME NEW i \in 1..Len(s)
      PROVE  i \in 1..(Len(s) + Len(t)) /\ (s \o t)[i] = s[i]
  BY <1>1, ConcatProperties
<1>3. ASSUME NEW j \in 1..Len(t)
      PROVE  Len(s) + j \in 1..(Len(s) + Len(t)) /\ (s \o t)[Len(s) + j] = t[j]
  BY <1>1, ConcatProperties
<1>4. ASSUME NEW i \in 1..(Len(s) + Len(t))
      PROVE  \/ i \in 1..Len(s) /\ (s \o t)[i] = s[i]
             \/ i - Len(s) \in 1..Len(t) /\ (s \o t)[i] = t[i - Len(s)]
  BY <1>1, ConcatProperties
<1>5. QED
  BY <1>1, <1>2, <1>3, <1>4

\* A concatenation has the elements of both its parts.
LEMMA RangeOfConcat ==
  ASSUME NEW S, NEW s \in Seq(S), NEW t \in Seq(S)
  PROVE  Range(s \o t) = Range(s) \cup Range(t)
<1>1. Range(s \o t) \subseteq Range(s) \cup Range(t)
  <2>1. SUFFICES ASSUME NEW i \in DOMAIN (s \o t)
                 PROVE  (s \o t)[i] \in Range(s) \cup Range(t)
    BY DEF Range
  <2>2. \/ i \in DOMAIN s /\ (s \o t)[i] = s[i]
        \/ i - Len(s) \in DOMAIN t /\ (s \o t)[i] = t[i - Len(s)]
    BY ConcatParts
  <2>3. QED
    BY <2>2 DEF Range
<1>2. Range(s) \subseteq Range(s \o t)
  BY ConcatParts DEF Range
<1>3. Range(t) \subseteq Range(s \o t)
  <2>1. SUFFICES ASSUME NEW j \in DOMAIN t PROVE t[j] \in Range(s \o t)
    BY DEF Range
  <2>2. Len(s) + j \in DOMAIN (s \o t) /\ (s \o t)[Len(s) + j] = t[j]
    BY ConcatParts
  <2>3. QED
    BY <2>2 DEF Range
<1>4. QED
  BY <1>1, <1>2, <1>3

------------------------------------------------------------------------------
(* Filter                                                                  *)

\* What Filter computes, one element after the other.
LEMMA FilterSteps ==
  ASSUME NEW T, NEW s \in Seq(T), NEW S
  PROVE  \E g \in [0..Len(s) -> Seq(T)] :
           /\ g[0] = <<>> /\ Filter(s, S) = g[Len(s)]
           /\ \A n \in 1..Len(s) :
                g[n] = IF s[n] \in S THEN Append(g[n - 1], s[n]) ELSE g[n - 1]
<1> DEFINE N == Len(s)
           step == [n \in 1..N |-> [l \in Seq(T) |->
                      IF s[n] \in S THEN Append(l, s[n]) ELSE l]]
<1>1. N \in Nat /\ \A n \in 1..N : s[n] \in T
  BY LenProperties, ElementOfSeq
<1>2. step \in [1..N -> [Seq(T) -> Seq(T)]]
  BY <1>1, AppendProperties
<1>3. <<>> \in Seq(T)
  BY EmptySeq
<1>4. PICK g \in [0..N -> Seq(T)] :
        g[0] = <<>> /\ \A n \in 1..N : g[n] = step[n][g[n - 1]]
  <2> DEFINE L == Seq(T)
             empty == <<>>
  <2>1. N \in Nat /\ empty \in L /\ Maps(step, N, L)
    BY <1>1, <1>2, <1>3 DEF Maps
  <2>2. \E g : Solves(g, N, L, empty, step)
    <3> HIDE DEF step, N, L, empty
    <3>1. QED
      BY <2>1, Recursion
  <2>3. QED
    BY <2>2 DEF Solves
<1>5. ASSUME NEW n \in 1..N
      PROVE  g[n] = IF s[n] \in S THEN Append(g[n - 1], s[n]) ELSE g[n - 1]
  <2>1. g[n - 1] \in Seq(T)
    BY <1>1
  <2>2. QED
    BY <1>4, <2>1
<1>6. g = [n \in 0..N |-> IF n = 0 THEN <<>>
                          ELSE IF s[n] \in S THEN Append(g[n - 1], s[n]) ELSE g[n - 1]]
  <2>1. \A n \in 0..N : n = 0 \/ n \in 1..N
    BY <1>1
  <2>2. QED
    BY <1>4, <1>5, <2>1
<1> DEFINE kept == CHOOSE f : f = [n \in 0..N |-> IF n = 0 THEN <<>>
                          ELSE IF s[n] \in S THEN Append(f[n - 1], s[n]) ELSE f[n - 1]]
<1>7. kept = [n \in 0..N |-> IF n = 0 THEN <<>>
                          ELSE IF s[n] \in S THEN Append(kept[n - 1], s[n]) ELSE kept[n - 1]]
  BY <1>6
<1>8. Filter(s, S) = kept[N]
  BY DEF Filter
<1> HIDE DEF kept
<1> DEFINE same == {n \in 0..N : kept[n] = g[n]}
<1>9. \A n \in 0..N : n \in same
  <2>1. 0 \in same
    <3>1. 0 \in 0..N
      BY <1>1
    <3>2. kept[0] = <<>>
      BY <1>7, <3>1
    <3>3. QED
      BY <1>4, <3>1, <3>2
  <2>2. ASSUME NEW n \in 1..N, n - 1 \in same PROVE n \in same
    <3>1. n \in 0..N /\ n # 0 /\ kept[n - 1] = g[n - 1]
      BY <1>1, <2>2
    <3>2. QED
      BY <1>5, <1>7, <3>1
  <2> HIDE DEF same
  <2>3. QED
    BY <1>1, <2>1, <2>2, UpTo
<1>10. QED
  BY <1>1, <1>4, <1>5, <1>8, <1>9

\* Filter keeps just the elements in S, and brings in no repetition.
LEMMA FilterProperties ==
  ASSUME NEW T, NEW s \in Seq(T), NEW S
  PROVE  /\ Filter(s, S) \in Seq(T)
         /\ Range(Filter(s, S)) = Range(s) \cap S
         /\ IsInjective(s) => IsInjective(Filter(s, S))
<1> DEFINE N == Len(s)
           first(n) == {s[i] : i \in 1..n}
<1>1. N \in Nat /\ DOMAIN s = 1..N /\ \A n \in 1..N : s[n] \in T
  BY LenProperties, ElementOfSeq
<1>2. PICK g \in [0..N -> Seq(T)] :
        /\ g[0] = <<>> /\ Filter(s, S) = g[N]
        /\ \A n \in 1..N : g[n] = IF s[n] \in S THEN Append(g[n - 1], s[n]) ELSE g[n - 1]
  BY FilterSteps, SMTT(30)
<1> DEFINE good == {n \in 0..N : /\ Range(g[n]) = first(n) \cap S
                                 /\ IsInjective(s) => IsInjective(g[n])}
<1>3. 0 \in good
  BY <1>1, <1>2 DEF Range, IsInjective
<1>4. ASSUME NEW n \in 1..N, n - 1 \in good PROVE n \in good
  <2>1. first(n) = first(n - 1) \cup {s[n]}
    BY <1>1
  <2>2. g[n - 1] \in Seq(T) /\ s[n] \in T /\ n \in 0..N
    BY <1>1, <1>2
  <2>3. CASE s[n] \notin S
    BY <1>2, <1>4, <2>1, <2>3
  <2>4. CASE s[n] \in S
    <3>1. g[n] = Append(g[n - 1], s[n])
      BY <1>2, <2>4
    <3>2. Range(g[n]) = first(n) \cap S
      BY <1>4, <2>1, <2>2, <2>4, <3>1, RangeOfAppend
    <3>3. ASSUME IsInjective(s) PROVE IsInjective(g[n])
      <4>1. s[n] \notin first(n - 1)
        BY <1>1, <3>3 DEF IsInjective
      <4>2. s[n] \notin Range(g[n - 1]) /\ IsInjective(g[n - 1])
        BY <1>4, <3>3, <4>1
      <4>3. QED
        BY <2>2, <3>1, <4>2, InjectiveAppend
    <3>4. QED
      BY <2>2, <3>2, <3>3
  <2>5. QED
    BY <2>3, <2>4
<1>5. N \in good
  <2> HIDE DEF good
  <2>1. \A n \in 0..N : n \in good
    BY <1>1, <1>3, <1>4, UpTo
  <2>2. QED
    BY <1>1, <2>1
<1>6. first(N) = Range(s)
  BY <1>1 DEF Range
<1>7. QED
  BY <1>1, <1>2, <1>5, <1>6

------------------------------------------------------------------------------
(* Sequences whose elements follow each other as a relation L says         *)

Sorted(q, L) == \A i, j \in DOMAIN q : i < j => <<q[i], q[j]>> \in L

\* Appending behind a concatenation is appending to its second part.
LEMMA AppendConcat ==
  ASSUME NEW S, NEW s \in Seq(S), NEW t \in Seq(S), NEW e \in S
  PROVE  s \o Append(t, e) = Append(s \o t, e)
<1>1. /\ s \o t \in Seq(S) /\ <<e>> \in Seq(S)
  <2>1. /\ <<>> \in Seq(S)
    BY EmptySeq
  <2>2. Append(<<>>, e) \in Seq(S) /\ Append(<<>>, e) = <<e>>
    BY <2>1, AppendProperties
  <2>3. QED
    BY <2>2, ConcatProperties
<1>2. Append(t, e) = t \o <<e>> /\ Append(s \o t, e) = (s \o t) \o <<e>>
  BY <1>1, AppendIsConcat
<1>3. QED
  BY <1>1, <1>2, ConcatAssociative

\* The first n elements of a sequence.
LEMMA FirstElements ==
  ASSUME NEW S, NEW s \in Seq(S), NEW n \in 0..Len(s)
  PROVE  /\ SubSeq(s, 1, n) \in Seq(S) /\ Len(SubSeq(s, 1, n)) = n
         /\ DOMAIN SubSeq(s, 1, n) = 1..n
         /\ \A i \in 1..n : i \in DOMAIN s /\ SubSeq(s, 1, n)[i] = s[i]
         /\ Range(SubSeq(s, 1, n)) \subseteq Range(s)
<1>1. /\ Len(s) \in Nat /\ DOMAIN s = 1..Len(s) /\ n \in Nat
      /\ \A i \in 1..n : s[i] \in S /\ i \in 1..Len(s)
  BY LenProperties, ElementOfSeq
<1>2. SubSeq(s, 1, n) = [i \in 1..n |-> s[i]]
  BY <1>1
<1>3. [i \in 1..n |-> s[i]] \in [1..n -> S]
  BY <1>1
<1>4. [i \in 1..n |-> s[i]] \in Seq(S)
  BY <1>1, <1>3, SeqDef
<1>5. Len([i \in 1..n |-> s[i]]) = n
  BY <1>1, <1>4, LenProperties
<1>6. Range([i \in 1..n |-> s[i]]) \subseteq Range(s)
  BY <1>1 DEF Range
<1>7. QED
  BY <1>1, <1>2, <1>4, <1>5, <1>6

\* A sorted sequence stays sorted when an element is appended that follows all others.
LEMMA SortedAppend ==
  ASSUME NEW S, NEW s \in Seq(S), NEW e \in S, NEW L, Sorted(s, L),
         \A x \in Range(s) : <<x, e>> \in L
  PROVE  Sorted(Append(s, e), L)
<1>1. /\ Len(s) \in Nat /\ DOMAIN s = 1..Len(s) /\ DOMAIN Append(s, e) = 1..(Len(s) + 1)
      /\ \A i \in 1..Len(s) : Append(s, e)[i] = s[i]
      /\ Append(s, e)[Len(s) + 1] = e
  BY LenProperties, AppendProperties
<1>2. ASSUME NEW i \in 1..(Len(s) + 1), NEW j \in 1..(Len(s) + 1), i < j
      PROVE  <<Append(s, e)[i], Append(s, e)[j]>> \in L
  <2>1. i \in 1..Len(s) /\ s[i] \in Range(s)
    BY <1>1, <1>2 DEF Range
  <2>2. CASE j = Len(s) + 1
    BY <1>1, <2>1, <2>2
  <2>3. CASE j \in 1..Len(s)
    BY <1>1, <1>2, <2>1, <2>3 DEF Sorted
  <2>4. QED
    BY <1>1, <2>2, <2>3
<1>3. QED
  BY <1>1, <1>2 DEF Sorted

\* A concatenation is sorted when its parts are and the second follows the first.
LEMMA SortedConcat ==
  ASSUME NEW S, NEW s \in Seq(S), NEW t \in Seq(S), NEW L, Sorted(s, L), Sorted(t, L),
         \A x \in Range(s), y \in Range(t) : <<x, y>> \in L
  PROVE  Sorted(s \o t, L)
<1>1. /\ Len(s) \in Nat /\ Len(t) \in Nat
      /\ DOMAIN s = 1..Len(s) /\ DOMAIN t = 1..Len(t)
      /\ DOMAIN (s \o t) = 1..(Len(s) + Len(t))
      /\ \A i \in DOMAIN (s \o t) :
           \/ i \in 1..Len(s) /\ (s \o t)[i] = s[i]
           \/ i - Len(s) \in 1..Len(t) /\ (s \o t)[i] = t[i - Len(s)]
  BY ConcatParts
<1>2. ASSUME NEW i \in DOMAIN (s \o t), NEW j \in DOMAIN (s \o t), i < j
      PROVE  <<(s \o t)[i], (s \o t)[j]>> \in L
  <2>1. CASE i \in 1..Len(s) /\ (s \o t)[i] = s[i] /\ j \in 1..Len(s) /\ (s \o t)[j] = s[j]
    BY <1>1, <1>2, <2>1 DEF Sorted
  <2>2. CASE /\ i \in 1..Len(s) /\ (s \o t)[i] = s[i]
             /\ j - Len(s) \in 1..Len(t) /\ (s \o t)[j] = t[j - Len(s)]
    <3>1. s[i] \in Range(s) /\ t[j - Len(s)] \in Range(t)
      BY <1>1, <2>2 DEF Range
    <3>2. QED
      BY <2>2, <3>1
  <2>3. CASE /\ i - Len(s) \in 1..Len(t) /\ (s \o t)[i] = t[i - Len(s)]
             /\ j - Len(s) \in 1..Len(t) /\ (s \o t)[j] = t[j - Len(s)]
    <3>1. i - Len(s) < j - Len(s)
      BY <1>1, <1>2, <2>3
    <3>2. QED
      BY <1>1, <2>3, <3>1 DEF Sorted
  <2>4. CASE i - Len(s) \in 1..Len(t) /\ j \in 1..Len(s)
    BY <1>1, <1>2, <2>4
  <2>5. QED
    BY <1>1, <2>1, <2>2, <2>3, <2>4
<1>3. QED
  BY <1>2 DEF Sorted

\* What is left of a sorted concatenation when its second part is cut off after n elements.
LEMMA SortedPart ==
  ASSUME NEW S, NEW s \in Seq(S), NEW t \in Seq(S), NEW n \in 0..Len(t), NEW L,
         Sorted(s \o t, L)
  PROVE  /\ s \o SubSeq(t, 1, n) \in Seq(S)
         /\ Sorted(s \o SubSeq(t, 1, n), L)
         /\ Range(s \o SubSeq(t, 1, n)) \subseteq Range(s \o t)
<1>0. PICK u : u = SubSeq(t, 1, n)
  OBVIOUS
<1>1. /\ u \in Seq(S) /\ Len(u) = n /\ Range(u) \subseteq Range(t)
      /\ \A i \in 1..n : u[i] = t[i]
  BY <1>0, FirstElements
<1>2. /\ s \o u \in Seq(S) /\ Len(s) \in Nat /\ Len(t) \in Nat /\ n \in Nat
      /\ DOMAIN (s \o t) = 1..(Len(s) + Len(t))
      /\ \A i \in 1..Len(s) : (s \o t)[i] = s[i]
      /\ \A j \in 1..Len(t) : (s \o t)[Len(s) + j] = t[j]
  BY <1>1, ConcatParts
<1>3. /\ DOMAIN (s \o u) = 1..(Len(s) + n)
      /\ \A i \in DOMAIN (s \o u) :
           \/ i \in 1..Len(s) /\ (s \o u)[i] = s[i]
           \/ i - Len(s) \in 1..n /\ (s \o u)[i] = u[i - Len(s)]
  <2>1. /\ DOMAIN (s \o u) = 1..(Len(s) + Len(u))
        /\ \A i \in DOMAIN (s \o u) :
             \/ i \in 1..Len(s) /\ (s \o u)[i] = s[i]
             \/ i - Len(s) \in 1..Len(u) /\ (s \o u)[i] = u[i - Len(s)]
    <3>1. u \in Seq(S)
      BY <1>1
    <3>2. QED
      BY <3>1, ConcatParts
  <2>2. Len(u) = n
    BY <1>1
  <2>3. QED
    BY <2>1, <2>2
<1>4. \A i \in DOMAIN (s \o u) : i \in DOMAIN (s \o t) /\ (s \o u)[i] = (s \o t)[i]
  <2>1. SUFFICES ASSUME NEW i \in DOMAIN (s \o u)
                 PROVE  i \in DOMAIN (s \o t) /\ (s \o u)[i] = (s \o t)[i]
    OBVIOUS
  <2>2. i \in 1..(Len(s) + Len(t))
    BY <1>2, <1>3
  <2>3. CASE i \in 1..Len(s) /\ (s \o u)[i] = s[i]
    BY <1>2, <2>2, <2>3
  <2>4. CASE i - Len(s) \in 1..n /\ (s \o u)[i] = u[i - Len(s)]
    <3>1. i - Len(s) \in 1..Len(t) /\ Len(s) + (i - Len(s)) = i
      BY <1>2, <2>2, <2>4
    <3>2. u[i - Len(s)] = t[i - Len(s)]
      BY <1>1, <2>4
    <3>3. QED
      BY <1>2, <2>2, <2>4, <3>1, <3>2
  <2>5. QED
    BY <1>3, <2>3, <2>4
<1>5. Sorted(s \o u, L)
  BY <1>4 DEF Sorted
<1>6. Range(s \o u) \subseteq Range(s \o t)
  <2>1. Range(s \o u) = Range(s) \cup Range(u) /\ Range(s \o t) = Range(s) \cup Range(t)
    BY <1>1, RangeOfConcat
  <2>2. QED
    BY <1>1, <2>1
<1>7. QED
  BY <1>0, <1>2, <1>5, <1>6

------------------------------------------------------------------------------
(* Total                                                                   *)

\* What Total computes, one number after the other.
LEMMA TotalSteps ==
  ASSUME NEW s \in Seq(Int)
  PROVE  \E g \in [0..Len(s) -> Int] :
           /\ g[0] = 0 /\ Total(s) = g[Len(s)]
           /\ \A n \in 1..Len(s) : g[n] = g[n - 1] + s[n]
<1> DEFINE N == Len(s)
           step == [n \in 1..N |-> [x \in Int |-> x + s[n]]]
<1>1. N \in Nat /\ \A n \in 1..N : s[n] \in Int
  BY LenProperties, ElementOfSeq
<1>2. step \in [1..N -> [Int -> Int]]
  BY <1>1
<1>3. PICK g \in [0..N -> Int] :
        g[0] = 0 /\ \A n \in 1..N : g[n] = step[n][g[n - 1]]
  <2> DEFINE I == Int
  <2>1. N \in Nat /\ 0 \in I /\ Maps(step, N, I)
    BY <1>1, <1>2 DEF Maps
  <2>2. \E g : Solves(g, N, I, 0, step)
    <3> HIDE DEF step, N, I
    <3>1. QED
      BY <2>1, Recursion
  <2>3. QED
    BY <2>2 DEF Solves
<1>4. ASSUME NEW n \in 1..N
      PROVE  g[n] = g[n - 1] + s[n]
  <2>1. g[n - 1] \in Int
    BY <1>1
  <2>2. QED
    BY <1>3, <2>1
<1> DEFINE sum == CHOOSE f : f = [n \in 0..N |-> IF n = 0 THEN 0 ELSE f[n - 1] + s[n]]
<1>5. sum = [n \in 0..N |-> IF n = 0 THEN 0 ELSE sum[n - 1] + s[n]]
  <2>1. \A n \in 0..N : n = 0 \/ n \in 1..N
    BY <1>1
  <2>2. g = [n \in 0..N |-> IF n = 0 THEN 0 ELSE g[n - 1] + s[n]]
    BY <1>3, <1>4, <2>1
  <2>3. QED
    BY <2>2
<1>6. Total(s) = sum[N]
  BY DEF Total
<1> HIDE DEF sum
<1> DEFINE same == {n \in 0..N : sum[n] = g[n]}
<1>7. \A n \in 0..N : n \in same
  <2>1. 0 \in same
    <3>1. 0 \in 0..N
      BY <1>1
    <3>2. sum[0] = 0
      BY <1>5, <3>1
    <3>3. QED
      BY <1>3, <3>1, <3>2
  <2>2. ASSUME NEW n \in 1..N, n - 1 \in same PROVE n \in same
    <3>1. n \in 0..N /\ n # 0 /\ sum[n - 1] = g[n - 1]
      BY <1>1, <2>2
    <3>2. QED
      BY <1>4, <1>5, <3>1
  <2> HIDE DEF same
  <2>3. QED
    BY <1>1, <2>1, <2>2, UpTo
<1>8. QED
  BY <1>1, <1>3, <1>4, <1>6, <1>7

\* The sum of numbers is a number, none at all give 0, and one gives itself.
LEMMA TotalProperties ==
  /\ \A s \in Seq(Int) : Total(s) \in Int
  /\ Total(<<>>) = 0
  /\ \A e \in Int : Total(<<e>>) = e
<1>1. ASSUME NEW s \in Seq(Int) PROVE Total(s) \in Int
  <2>1. Len(s) \in 0..Len(s)
    BY LenProperties
  <2>2. QED
    BY <2>1, TotalSteps
<1>2. Total(<<>>) = 0
  <2>1. PICK s \in Seq(Int) : s = <<>>
    BY EmptySeq
  <2>2. PICK g \in [0..Len(s) -> Int] : g[0] = 0 /\ Total(s) = g[Len(s)]
    BY TotalSteps
  <2>3. Len(s) = 0 /\ Total(s) = 0
    BY <2>1, <2>2, EmptySeq
  <2>4. QED
    BY <2>1, <2>3
<1>3. ASSUME NEW e \in Int PROVE Total(<<e>>) = e
  <2>1. PICK s \in Seq(Int) : s = <<e>>
    <3>1. <<>> \in Seq(Int)
      BY EmptySeq
    <3>2. Append(<<>>, e) \in Seq(Int) /\ Append(<<>>, e) = <<e>>
      BY <3>1, AppendProperties
    <3>3. QED
      BY <3>2
  <2>2. Len(s) = 1 /\ s[1] = e /\ 1 - 1 = 0 /\ 1 \in 1..1
    BY <2>1
  <2>3. PICK g \in [0..Len(s) -> Int] :
          /\ g[0] = 0 /\ Total(s) = g[Len(s)]
          /\ \A n \in 1..Len(s) : g[n] = g[n - 1] + s[n]
    BY TotalSteps
  <2>4. Total(s) = 0 + e
    BY <2>2, <2>3
  <2>5. QED
    BY <2>1, <2>4
<1>4. QED
  BY <1>1, <1>2, <1>3

\* The sum of two lists behind each other.
LEMMA TotalConcat ==
  ASSUME NEW s \in Seq(Int), NEW t \in Seq(Int)
  PROVE  Total(s \o t) = Total(s) + Total(t)
<1> DEFINE M == Len(s)
           N == Len(t)
<1>1. /\ M \in Nat /\ N \in Nat /\ s \o t \in Seq(Int) /\ Len(s \o t) = M + N
      /\ \A n \in 1..M : (s \o t)[n] = s[n] /\ s[n] \in Int
      /\ \A n \in 1..N : (s \o t)[M + n] = t[n] /\ t[n] \in Int
  BY ConcatParts, ElementOfSeq, LenProperties
<1>2. PICK g \in [0..M + N -> Int] :
        /\ g[0] = 0 /\ Total(s \o t) = g[M + N]
        /\ \A n \in 1..M + N : g[n] = g[n - 1] + (s \o t)[n]
  <2>1. PICK u \in Seq(Int) : u = s \o t
    BY <1>1
  <2>2. PICK g \in [0..Len(u) -> Int] :
          /\ g[0] = 0 /\ Total(u) = g[Len(u)]
          /\ \A n \in 1..Len(u) : g[n] = g[n - 1] + u[n]
    BY TotalSteps
  <2>3. QED
    BY <1>1, <2>1, <2>2
<1>3. PICK h \in [0..M -> Int] :
        /\ h[0] = 0 /\ Total(s) = h[M]
        /\ \A n \in 1..M : h[n] = h[n - 1] + s[n]
  BY TotalSteps
<1>4. PICK k \in [0..N -> Int] :
        /\ k[0] = 0 /\ Total(t) = k[N]
        /\ \A n \in 1..N : k[n] = k[n - 1] + t[n]
  BY TotalSteps
<1>5. g[M] = h[M]
  <2> DEFINE same == {n \in 0..M : g[n] = h[n]}
  <2>1. 0 \in same
    BY <1>1, <1>2, <1>3
  <2>2. ASSUME NEW n \in 1..M, n - 1 \in same PROVE n \in same
    <3>1. g[n] = g[n - 1] + s[n] /\ h[n] = h[n - 1] + s[n] /\ g[n - 1] = h[n - 1] /\ n \in 0..M
      <4>1. n \in 1..M + N
        BY <1>1
      <4>2. QED
        BY <1>1, <1>2, <1>3, <2>2, <4>1
    <3>2. QED
      BY <3>1
  <2>3. M \in same
    <3> HIDE DEF same
    <3>1. \A n \in 0..M : n \in same
      BY <1>1, <2>1, <2>2, UpTo
    <3>2. QED
      BY <1>1, <3>1
  <2>4. QED
    BY <2>3
<1>6. g[M + N] = h[M] + k[N]
  <2> DEFINE same == {n \in 0..N : g[M + n] = h[M] + k[n]}
  <2>1. 0 \in same
    <3>1. h[M] \in Int /\ M + 0 = M
      BY <1>1, <1>3
    <3>2. QED
      BY <1>1, <1>4, <1>5, <3>1
  <2>2. ASSUME NEW n \in 1..N, n - 1 \in same PROVE n \in same
    <3>1. M + n \in 1..M + N /\ (M + n) - 1 = M + (n - 1) /\ n - 1 \in 0..N /\ n \in 0..N
      BY <1>1
    <3>2. /\ g[M + n] = g[M + (n - 1)] + t[n] /\ k[n] = k[n - 1] + t[n]
          /\ g[M + (n - 1)] = h[M] + k[n - 1]
      <4>1. g[M + n] = g[M + (n - 1)] + (s \o t)[M + n] /\ (s \o t)[M + n] = t[n]
        BY <1>1, <1>2, <3>1
      <4>2. k[n] = k[n - 1] + t[n]
        BY <1>4
      <4>3. g[M + (n - 1)] = h[M] + k[n - 1]
        BY <2>2
      <4>4. QED
        BY <4>1, <4>2, <4>3
    <3>3. h[M] \in Int /\ k[n - 1] \in Int /\ t[n] \in Int
      <4>1. M \in 0..M
        BY <1>1
      <4>2. QED
        BY <1>1, <1>3, <1>4, <3>1, <4>1
    <3>4. QED
      BY <3>1, <3>2, <3>3
  <2>3. N \in same
    <3> HIDE DEF same
    <3>1. \A n \in 0..N : n \in same
      BY <1>1, <2>1, <2>2, UpTo
    <3>2. QED
      BY <1>1, <3>1
  <2>4. QED
    BY <2>3
<1>7. QED
  BY <1>2, <1>3, <1>4, <1>6

------------------------------------------------------------------------------
(* Parts of a list                                                         *)

\* A function of the numbers up to n is a list of n elements.
LEMMA FunctionSeq ==
  ASSUME NEW S, NEW n \in Nat, NEW f \in [1..n -> S]
  PROVE  f \in Seq(S) /\ Len(f) = n
<1>1. f \in Seq(S)
  BY SeqDef
<1>2. DOMAIN f = 1..n
  OBVIOUS
<1>3. QED
  BY <1>1, <1>2, LenProperties

\* The part of a list behind its first a elements, up to b.
LEMMA PartOfSeq ==
  ASSUME NEW T, NEW s \in Seq(T), NEW a \in Nat, NEW b \in Nat, a <= b, b <= Len(s),
         NEW m \in Nat, m = a + 1
  PROVE  /\ SubSeq(s, m, b) \in Seq(T) /\ Len(SubSeq(s, m, b)) = b - a
         /\ DOMAIN SubSeq(s, m, b) = 1..(b - a)
         /\ \A i \in 1..(b - a) : SubSeq(s, m, b)[i] = s[a + i]
<1>1. \A i \in m..b : i \in 1..Len(s)
  BY LenProperties
<1>2. \A i \in m..b : s[i] \in T
  BY <1>1, ElementOfSeq
<1>3. /\ SubSeq(s, m, b) \in Seq(T)
      /\ Len(SubSeq(s, m, b)) = IF m <= b THEN b - m + 1 ELSE 0
      /\ \A i \in 1..b - m + 1 : SubSeq(s, m, b)[i] = s[m + i - 1]
  BY <1>2, SubSeqProperties
<1>4. PICK q : q = SubSeq(s, m, b)
  OBVIOUS
<1>5. q \in Seq(T) /\ Len(q) = b - a /\ \A i \in 1..(b - a) : q[i] = s[a + i]
  BY <1>3, <1>4
<1>6. DOMAIN q = 1..Len(q)
  BY <1>5, LenProperties
<1>7. QED
  BY <1>4, <1>5, <1>6

------------------------------------------------------------------------------
(* FlattenSeq                                                              *)

\* What FlattenSeq computes, one list after the other.
LEMMA FlattenSteps ==
  ASSUME NEW T, NEW s \in Seq(Seq(T))
  PROVE  \E g \in [0..Len(s) -> Seq(T)] :
           /\ g[0] = <<>> /\ FlattenSeq(s) = g[Len(s)]
           /\ \A n \in 1..Len(s) : g[n] = g[n - 1] \o s[n]
<1> DEFINE N == Len(s)
           step == [n \in 1..N |-> [l \in Seq(T) |-> l \o s[n]]]
<1>1. N \in Nat /\ \A n \in 1..N : s[n] \in Seq(T)
  BY LenProperties, ElementOfSeq
<1>2. step \in [1..N -> [Seq(T) -> Seq(T)]]
  BY <1>1, ConcatProperties
<1>3. PICK g \in [0..N -> Seq(T)] :
        g[0] = <<>> /\ \A n \in 1..N : g[n] = step[n][g[n - 1]]
  <2> DEFINE L == Seq(T)
             empty == <<>>
  <2>1. N \in Nat /\ empty \in L /\ Maps(step, N, L)
    BY <1>1, <1>2, EmptySeq DEF Maps
  <2>2. \E g : Solves(g, N, L, empty, step)
    <3> HIDE DEF step, N, L, empty
    <3>1. QED
      BY <2>1, Recursion
  <2>3. QED
    BY <2>2 DEF Solves
<1>4. ASSUME NEW n \in 1..N
      PROVE  /\ g[n] = g[n - 1] \o s[n] /\ n \in 0..N /\ n - 1 \in 0..N
             /\ s[n] \in Seq(T)
  <2>1. n - 1 \in 0..N /\ n \in 0..N /\ s[n] \in Seq(T)
    BY <1>1
  <2>2. g[n - 1] \in Seq(T)
    BY <1>3, <2>1
  <2>3. step[n][g[n - 1]] = g[n - 1] \o s[n]
    BY <2>2
  <2>4. QED
    BY <1>3, <2>1, <2>3
<1>5. CASE N = 0
  <2>1. s = <<>>
    BY <1>5, EmptySeq
  <2>2. FlattenSeq(s) = s
    BY <1>5 DEF FlattenSeq
  <2>3. QED
    BY <1>1, <1>3, <1>4, <1>5, <2>1, <2>2
<1>6. CASE N # 0
  <2> DEFINE flatten == CHOOSE f : f = [i \in 1..N |-> IF i = 1 THEN s[i] ELSE f[i - 1] \o s[i]]
             h == [i \in 1..N |-> g[i]]
  <2>1. h = [i \in 1..N |-> IF i = 1 THEN s[i] ELSE h[i - 1] \o s[i]]
    <3>1. ASSUME NEW i \in 1..N, i # 1 PROVE h[i] = h[i - 1] \o s[i]
      <4>1. i - 1 \in 1..N
        BY <1>1, <3>1
      <4>2. g[i] = g[i - 1] \o s[i]
        BY <1>4
      <4>3. QED
        BY <4>1, <4>2
    <3>2. ASSUME 1 \in 1..N PROVE h[1] = s[1]
      <4>1. g[1] = g[0] \o s[1] /\ s[1] \in Seq(T)
        <5>1. 1 - 1 = 0
          OBVIOUS
        <5>2. QED
          BY <1>1, <1>4, <3>2, <5>1
      <4>2. <<>> \o s[1] = s[1]
        BY <4>1, ConcatEmptySeq
      <4>3. QED
        BY <1>3, <3>2, <4>1, <4>2
    <3> HIDE DEF h
    <3>3. \A i \in 1..N : h[i] = IF i = 1 THEN s[i] ELSE h[i - 1] \o s[i]
      BY <3>1, <3>2
    <3>4. h = [i \in 1..N |-> h[i]]
      BY DEF h
    <3>5. QED
      BY <3>3, <3>4
  <2>2. flatten = [i \in 1..N |-> IF i = 1 THEN s[i] ELSE flatten[i - 1] \o s[i]]
    <3> HIDE DEF h
    <3>1. QED
      BY <2>1
  <2>3. FlattenSeq(s) = flatten[N]
    BY <1>6 DEF FlattenSeq
  <2> HIDE DEF flatten, h
  <2> DEFINE same == {n \in 0..N : n = 0 \/ flatten[n] = g[n]}
  <2>4. N \in same
    <3>1. 0 \in same
      BY <1>1
    <3>2. ASSUME NEW n \in 1..N, n - 1 \in same PROVE n \in same
      <4>1. g[n] = g[n - 1] \o s[n] /\ s[n] \in Seq(T) /\ n \in 0..N
        BY <1>4
      <4>2. CASE n = 1
        <5>1. flatten[n] = s[n]
          BY <2>2, <4>2
        <5>2. <<>> \o s[n] = s[n]
          BY <4>1, ConcatEmptySeq
        <5>3. n - 1 = 0
          BY <4>2
        <5>4. QED
          BY <1>3, <4>1, <5>1, <5>2, <5>3
      <4>3. CASE n # 1
        <5>1. flatten[n] = flatten[n - 1] \o s[n]
          BY <2>2, <4>3
        <5>2. flatten[n - 1] = g[n - 1]
          BY <3>2, <4>3
        <5>3. QED
          BY <4>1, <5>1, <5>2
      <4>4. QED
        BY <4>2, <4>3
    <3> HIDE DEF same
    <3>3. \A n \in 0..N : n \in same
      BY <1>1, <3>1, <3>2, UpTo
    <3>4. QED
      BY <1>1, <3>3
  <2>5. QED
    BY <1>1, <1>3, <1>4, <1>6, <2>3, <2>4
<1>7. QED
  BY <1>5, <1>6

\* Each list is in the flattened one, where those before it end.
LEMMA FlattenParts ==
  ASSUME NEW T, NEW s \in Seq(Seq(T))
  PROVE  /\ FlattenSeq(s) \in Seq(T)
         /\ \E end \in [0..Len(s) -> Nat] :
              /\ end[0] = 0 /\ end[Len(s)] = Len(FlattenSeq(s))
              /\ \A n \in 1..Len(s) :
                   /\ end[n] = end[n - 1] + Len(s[n])
                   /\ \A i \in 1..Len(s[n]) : FlattenSeq(s)[end[n - 1] + i] = s[n][i]
<1> DEFINE N == Len(s)
<1>1. N \in Nat /\ \A n \in 1..N : s[n] \in Seq(T) /\ Len(s[n]) \in Nat
  BY LenProperties, ElementOfSeq
<1>2. PICK g \in [0..N -> Seq(T)] :
        /\ g[0] = <<>> /\ FlattenSeq(s) = g[N]
        /\ \A n \in 1..N : g[n] = g[n - 1] \o s[n]
  BY FlattenSteps
<1> DEFINE end == [n \in 0..N |-> Len(g[n])]
           good == {n \in 0..N : \A m \in 0..n : /\ end[m] <= end[n]
                                                 /\ \A i \in 1..end[m] : g[n][i] = g[m][i]}
<1>3. end \in [0..N -> Nat] /\ end[0] = 0 /\ end[N] = Len(FlattenSeq(s))
  <2>1. \A n \in 0..N : Len(g[n]) \in Nat
    BY <1>2, LenProperties
  <2>2. Len(g[0]) = 0
    BY <1>2, EmptySeq
  <2>3. 0 \in 0..N /\ N \in 0..N
    BY <1>1
  <2>4. QED
    BY <1>2, <2>1, <2>2, <2>3
<1>4. ASSUME NEW n \in 1..N
      PROVE  /\ n \in 0..N /\ n - 1 \in 0..N
             /\ end[n] = end[n - 1] + Len(s[n])
             /\ \A i \in 1..end[n] : g[n][i] = IF i <= end[n - 1] THEN g[n - 1][i]
                                               ELSE s[n][i - end[n - 1]]
  <2>1. n \in 0..N /\ n - 1 \in 0..N
    BY <1>1
  <2>2. g[n - 1] \in Seq(T) /\ s[n] \in Seq(T) /\ g[n] = g[n - 1] \o s[n]
    BY <1>1, <1>2, <2>1
  <2>3. PICK a \in Seq(T) : a = g[n - 1]
    BY <2>2
  <2>4. PICK b \in Seq(T) : b = s[n]
    BY <2>2
  <2>5. /\ Len(a \o b) = Len(a) + Len(b)
        /\ \A i \in 1..Len(a) + Len(b) : (a \o b)[i] = IF i <= Len(a) THEN a[i] ELSE b[i - Len(a)]
    BY ConcatProperties
  <2>6. QED
    BY <2>1, <2>2, <2>3, <2>4, <2>5
<1> HIDE DEF end
<1>5. ASSUME NEW n \in 0..N PROVE n \in good
  <2>1. 0 \in good
    BY <1>1, <1>3
  <2>2. ASSUME NEW k \in 1..N, k - 1 \in good PROVE k \in good
    <3>1. k \in 0..N /\ end[k - 1] <= end[k]
      <4>1. end[k - 1] \in Nat /\ Len(s[k]) \in Nat /\ end[k] = end[k - 1] + Len(s[k])
        BY <1>1, <1>3, <1>4
      <4>2. QED
        BY <1>4, <4>1
    <3>2. ASSUME NEW m \in 0..k
          PROVE  end[m] <= end[k] /\ \A i \in 1..end[m] : g[k][i] = g[m][i]
      <4>1. CASE m = k
        <5>1. end[k] \in Nat
          BY <1>3, <3>1
        <5>2. QED
          BY <4>1, <5>1
      <4>2. CASE m # k
        <5>1. m \in 0..(k - 1)
          BY <4>2
        <5>2. end[m] <= end[k - 1] /\ \A i \in 1..end[m] : g[k - 1][i] = g[m][i]
          BY <2>2, <5>1
        <5>3. end[m] \in Nat /\ end[k - 1] \in Nat /\ end[k] \in Nat
          <6>1. m \in 0..N /\ k \in 0..N
            BY <1>1, <3>1, <5>1
          <6>2. k - 1 \in 0..N
            BY <1>4
          <6>3. QED
            BY <1>3, <6>1, <6>2
        <5>4. ASSUME NEW i \in 1..end[m] PROVE g[k][i] = g[m][i]
          <6>1. i \in 1..end[k] /\ i <= end[k - 1]
            BY <3>1, <5>2, <5>3, SMTT(30)
          <6>2. QED
            BY <1>4, <5>2, <6>1
        <5>5. QED
          BY <3>1, <5>2, <5>3, <5>4
      <4>3. QED
        BY <4>1, <4>2
    <3>3. QED
      BY <3>1, <3>2
  <2> HIDE DEF good
  <2>3. QED
    BY <1>1, <2>1, <2>2, UpTo
<1>6. ASSUME NEW n \in 1..N, NEW i \in 1..Len(s[n])
      PROVE  FlattenSeq(s)[end[n - 1] + i] = s[n][i]
  <2>1. /\ end[n - 1] \in Nat /\ end[n] = end[n - 1] + Len(s[n]) /\ Len(s[n]) \in Nat
        /\ end[n] \in Nat
    BY <1>1, <1>3, <1>4
  <2>2. end[n - 1] + i \in 1..end[n] /\ ~(end[n - 1] + i <= end[n - 1])
    BY <2>1, SMTT(30)
  <2>3. g[n][end[n - 1] + i] = s[n][(end[n - 1] + i) - end[n - 1]]
    BY <1>4, <2>2
  <2>4. (end[n - 1] + i) - end[n - 1] = i
    BY <2>1
  <2>5. N \in good /\ n \in 0..N
    <3>1. N \in 0..N /\ n \in 0..N
      BY <1>1
    <3> HIDE DEF good
    <3>2. QED
      BY <1>5, <3>1
  <2>6. g[N][end[n - 1] + i] = g[n][end[n - 1] + i]
    BY <2>2, <2>5
  <2>7. QED
    BY <1>2, <2>3, <2>4, <2>6
<1>7. FlattenSeq(s) \in Seq(T)
  BY <1>1, <1>2, SMTT(30)
<1>8. \A n \in 1..N : /\ end[n] = end[n - 1] + Len(s[n])
                      /\ \A i \in 1..Len(s[n]) : FlattenSeq(s)[end[n - 1] + i] = s[n][i]
  BY <1>4, <1>6
<1>9. QED
  BY <1>3, <1>7, <1>8

\* A list appended to the lists is appended to the flattened one.
LEMMA FlattenAppend ==
  ASSUME NEW T, NEW s \in Seq(Seq(T)), NEW e \in Seq(T)
  PROVE  FlattenSeq(Append(s, e)) = FlattenSeq(s) \o e
<1> DEFINE N == Len(s)
<1>1. PICK u \in Seq(Seq(T)) : u = Append(s, e)
  BY AppendProperties
<1>2. N \in Nat /\ Len(u) = N + 1 /\ u[N + 1] = e /\ \A i \in 1..N : u[i] = s[i]
  BY <1>1, AppendProperties, LenProperties
<1>3. PICK g \in [0..N -> Seq(T)] :
        /\ g[0] = <<>> /\ FlattenSeq(s) = g[N]
        /\ \A n \in 1..N : g[n] = g[n - 1] \o s[n]
  BY FlattenSteps
<1>4. PICK h \in [0..(N + 1) -> Seq(T)] :
        /\ h[0] = <<>> /\ FlattenSeq(u) = h[N + 1]
        /\ \A n \in 1..(N + 1) : h[n] = h[n - 1] \o u[n]
  <2>1. PICK h \in [0..Len(u) -> Seq(T)] :
          /\ h[0] = <<>> /\ FlattenSeq(u) = h[Len(u)]
          /\ \A n \in 1..Len(u) : h[n] = h[n - 1] \o u[n]
    BY FlattenSteps
  <2>2. QED
    BY <1>2, <2>1
<1> DEFINE same == {n \in 0..N : g[n] = h[n]}
<1>5. N \in same
  <2>1. 0 \in same
    BY <1>2, <1>3, <1>4
  <2>2. ASSUME NEW n \in 1..N, n - 1 \in same PROVE n \in same
    <3>1. n \in 1..(N + 1) /\ n \in 0..N
      BY <1>2
    <3>2. g[n] = g[n - 1] \o s[n] /\ h[n] = h[n - 1] \o u[n] /\ u[n] = s[n]
      BY <1>2, <1>3, <1>4, <3>1
    <3>3. QED
      BY <2>2, <3>1, <3>2
  <2> HIDE DEF same
  <2>3. \A n \in 0..N : n \in same
    BY <1>2, <2>1, <2>2, UpTo
  <2>4. QED
    BY <1>2, <2>3
<1>6. N + 1 \in 1..(N + 1) /\ (N + 1) - 1 = N
  BY <1>2
<1>7. h[N + 1] = h[N] \o e
  BY <1>2, <1>4, <1>6
<1>8. QED
  BY <1>1, <1>3, <1>4, <1>5, <1>7

===============================================================================
