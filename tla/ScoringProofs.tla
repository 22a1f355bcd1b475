---------------------------- MODULE ScoringProofs ----------------------------
(***************************************************************************)
(* What a guess is told, for every length of code and every alphabet of    *)
(* digits: the bluff, the score and what solves a board.                   *)
(***************************************************************************)
EXTENDS Scoring, FiniteSetTheorems, SequenceTheorems, TLAPS

LEMMA CodeLength ==
    ASSUME NEW n \in Nat, NEW c \in Codes(n)
    PROVE  Len(c) = n /\ DOMAIN c = 1 .. n /\ \A i \in 1 .. n : c[i] \in Digits
<1>1. c \in Seq(Digits)
  BY SeqDef DEF Codes
<1>2. DOMAIN c = 1 .. n /\ DOMAIN c = 1 .. Len(c) /\ Len(c) \in Nat
  BY <1>1, LenProperties DEF Codes
<1>3. QED BY <1>2 DEF Codes

\* Nobody scores more dead than the guess has digits.
LEMMA DeadBounded ==
    ASSUME NEW n \in Nat, NEW g \in Codes(n), NEW c \in Codes(n)
    PROVE  Dead(g, c) \in 0 .. n
<1> DEFINE hits == {i \in 1 .. Shorter(g, c) : g[i] = c[i]}
<1>1. Shorter(g, c) = n
  BY CodeLength DEF Shorter
<1>2. IsFiniteSet(1 .. n) /\ Cardinality(1 .. n) = n
  BY FS_Interval
<1>3. Cardinality(hits) \in Nat /\ Cardinality(hits) <= n
  BY <1>1, <1>2, FS_Subset, FS_CardinalityType
<1>4. QED BY <1>3 DEF Dead

LEMMA InjuredCounted ==
    ASSUME NEW n \in Nat, NEW g \in Codes(n), NEW c \in Codes(n)
    PROVE  Injured(g, c) \in Int
<1>1. IsFiniteSet(Digits) /\ IsFiniteSet(1 .. Len(g))
  BY CodeLength, FS_Interval, ScoringAssumption
<1>2. IsFiniteSet(Digits \X (1 .. Len(g)))
  BY <1>1, FS_Product
<1>3. Common(g, c) \subseteq Digits \X (1 .. Len(g))
  BY DEF Common
<1>4. Cardinality(Common(g, c)) \in Nat
  BY <1>2, <1>3, FS_Subset, FS_CardinalityType
<1>5. QED BY <1>4, DeadBounded DEF Injured

\* The arithmetic of submit_guess: the dead count moves on by one and wraps
\* around past the length, so it is another one within the length.
LEMMA FakeWithin ==
    ASSUME NEW n \in Nat \ {0}, NEW d \in 0 .. n, NEW i \in Int
    PROVE  /\ FakeDead(d, n) \in 0 .. n /\ FakeDead(d, n) # d
           /\ FakeDead(d, n) + FakeInjured(d, i, n) \in 0 .. n
<1>1. FakeDead(d, n) = IF d = n THEN 0 ELSE d + 1
  <2>1. CASE d = n
    BY <2>1 DEF FakeDead
  <2>2. CASE d # n
    BY <2>2 DEF FakeDead
  <2>3. QED BY <2>1, <2>2
<1>2. FakeDead(d, n) \in 0 .. n /\ FakeDead(d, n) # d
  BY <1>1
<1>3. QED BY <1>2 DEF FakeInjured

BluffInv == (board = "match" => secret \in ValidCodes) /\ BluffIsABluff

\* The counts of fake feedback (submit_guess) mislead, whatever the length of
\* the codes and the digits they are made of: the dead count is never the true
\* one, and the two counts stay within the length of the code.
THEOREM BluffsMislead == Spec => []BluffIsABluff
<1>1. Init => BluffInv
  BY DEF Init, BluffInv, BluffIsABluff, SecretsOf, None
<1>2. BluffInv /\ [Next]_vars => BluffInv'
  <2> SUFFICES ASSUME BluffInv, [Next]_vars PROVE BluffInv'
    OBVIOUS
  <2>1. CASE Guess
    BY <2>1 DEF Guess, Truth, BluffInv, BluffIsABluff
  <2>2. CASE FakeGuess
    <3>1. PICK g \in ValidCodes : guess' = g /\ answer' = Bluff(g)
      BY <2>2 DEF FakeGuess, GuessesOf
    <3>2. secret \in ValidCodes /\ secret' = secret /\ board' = board
      BY <2>2 DEF FakeGuess, BluffInv
    <3> DEFINE d == Dead(g, secret)
               i == Injured(g, secret)
    <3>3. g \in Codes(SecretLength) /\ secret \in Codes(SecretLength) /\ SecretLength \in Nat \ {0}
      BY <3>1, <3>2, ScoringAssumption DEF ValidCodes
    <3>4. Len(g) = SecretLength /\ d \in 0 .. SecretLength /\ i \in Int
      BY <3>3, CodeLength, DeadBounded, InjuredCounted
    <3> HIDE DEF d, i
    <3>5. /\ FakeDead(d, Len(g)) # d
          /\ FakeDead(d, Len(g)) + FakeInjured(d, i, Len(g)) \in 0 .. Len(g)
      BY <3>3, <3>4, FakeWithin
    <3>6. /\ answer'.dead = FakeDead(d, Len(g)) /\ answer'.injured = FakeInjured(d, i, Len(g))
      BY <3>1 DEF Bluff, d, i
    <3>7. QED BY <3>1, <3>2, <3>5, <3>6 DEF BluffInv, BluffIsABluff, d
  <2>3. CASE UNCHANGED vars
    BY <2>3 DEF vars, BluffInv, BluffIsABluff, Dead, Shorter
  <2>4. QED BY <2>1, <2>2, <2>3 DEF Next
<1>3. BluffInv => BluffIsABluff
  BY DEF BluffInv
<1>4. QED BY <1>1, <1>2, <1>3, PTL DEF Spec

(***************************************************************************)
(* Scoring by hand, for every pair of codes.                               *)
(***************************************************************************)
\* A pairing of equal digits that is as large as it can get: nothing is paired
\* twice, and of two equal digits one at least is paired.
Complete(A, g, c) ==
    /\ \A p \in A : p \in (DOMAIN g) \X (DOMAIN c) /\ g[p[1]] = c[p[2]]
    /\ \A p, q \in A : p # q => Apart(p, q)
    /\ \A i \in DOMAIN g, j \in DOMAIN c :
          g[i] = c[j] => \E p \in A : p[1] = i \/ p[2] = j

\* The pairs of one digit.
Of(A, g, d) == {p \in A : g[p[1]] = d}

LEMMA PairsFinite ==
    ASSUME NEW m \in Nat, NEW n \in Nat, NEW g \in Codes(m), NEW c \in Codes(n),
           NEW A, A \subseteq (DOMAIN g) \X (DOMAIN c)
    PROVE  IsFiniteSet(A)
<1>1. IsFiniteSet(DOMAIN g) /\ IsFiniteSet(DOMAIN c)
  BY CodeLength, FS_Interval
<1>2. IsFiniteSet((DOMAIN g) \X (DOMAIN c))
  BY <1>1, FS_Product
<1>3. QED BY <1>2, FS_Subset

\* Every digit is paired as often as it occurs in both codes.
LEMMA PairedPerDigit ==
    ASSUME NEW m \in Nat, NEW n \in Nat, NEW g \in Codes(m), NEW c \in Codes(n),
           NEW A, Complete(A, g, c), NEW d
    PROVE  /\ IsFiniteSet(Of(A, g, d)) /\ Cardinality(Of(A, g, d)) \in Nat
           /\ Count(g, d) \in 0 .. m /\ Count(c, d) \in 0 .. n
           /\ Cardinality(Of(A, g, d)) <= Count(g, d)
           /\ Cardinality(Of(A, g, d)) <= Count(c, d)
           /\ \/ Cardinality(Of(A, g, d)) = Count(g, d)
              \/ Cardinality(Of(A, g, d)) = Count(c, d)
<1> DEFINE G == {i \in DOMAIN g : g[i] = d}
           C == {j \in DOMAIN c : c[j] = d}
           B == Of(A, g, d)
           left  == [p \in B |-> p[1]]
           right == [p \in B |-> p[2]]
<1>1. DOMAIN g = 1 .. m /\ DOMAIN c = 1 .. n
  BY CodeLength
<1>2. /\ IsFiniteSet(G) /\ Cardinality(G) \in 0 .. m
      /\ IsFiniteSet(C) /\ Cardinality(C) \in 0 .. n
  <2>1. /\ IsFiniteSet(1 .. m) /\ Cardinality(1 .. m) = m
        /\ IsFiniteSet(1 .. n) /\ Cardinality(1 .. n) = n
    BY FS_Interval
  <2>2. G \in SUBSET (1 .. m) /\ C \in SUBSET (1 .. n)
    BY <1>1
  <2>3. /\ IsFiniteSet(G) /\ Cardinality(G) <= m
        /\ IsFiniteSet(C) /\ Cardinality(C) <= n
    BY <2>1, <2>2, FS_Subset
  <2>4. QED BY <2>3, FS_CardinalityType
<1>3. \A p \in B : p[1] \in G /\ p[2] \in C
  BY DEF Complete, Of
<1>4. left \in Injection(B, G) /\ right \in Injection(B, C)
  BY <1>3 DEF Injection, IsInjective, Complete, Of, Apart
<1>5. left \in Surjection(B, G) \/ right \in Surjection(B, C)
  <2> SUFFICES ASSUME left \notin Surjection(B, G) PROVE right \in Surjection(B, C)
    OBVIOUS
  <2>1. PICK i \in G : \A p \in B : p[1] # i
    BY <1>3 DEF Surjection
  <2>2. ASSUME NEW j \in C PROVE \E p \in B : right[p] = j
    <3>1. PICK p \in A : p[1] = i \/ p[2] = j
      BY <2>1 DEF Complete
    <3>2. g[p[1]] = c[p[2]]
      BY DEF Complete
    <3>3. p \in B
      BY <2>1, <3>1, <3>2 DEF Of
    <3>4. QED BY <2>1, <3>1, <3>3
  <2>3. right \in [B -> C]
    BY <1>3
  <2>4. QED BY <2>2, <2>3 DEF Surjection
<1>6. /\ IsFiniteSet(B) /\ Cardinality(B) <= Cardinality(G)
      /\ Cardinality(B) = Cardinality(G) <=> left \in Surjection(B, G)
  <2> HIDE DEF G, C, B, left, right
  <2>1. QED BY <1>2, <1>4, FS_Injection
<1>7. /\ Cardinality(B) <= Cardinality(C)
      /\ Cardinality(B) = Cardinality(C) <=> right \in Surjection(B, C)
  <2> HIDE DEF G, C, B, left, right
  <2>1. QED BY <1>2, <1>4, FS_Injection
<1>8. Cardinality(B) \in Nat
  BY <1>6, FS_CardinalityType
<1>9. Count(g, d) = Cardinality(G) /\ Count(c, d) = Cardinality(C)
  BY DEF Count
<1>10. QED BY <1>2, <1>5, <1>6, <1>7, <1>8, <1>9

\* So it has as many pairs as the codes have digits in common: the k-th pair
\* of a digit stands for its k-th common copy.
LEMMA PairedAsCommon ==
    ASSUME NEW m \in Nat, NEW n \in Nat, NEW g \in Codes(m), NEW c \in Codes(n),
           NEW A, Complete(A, g, c)
    PROVE  IsFiniteSet(A) /\ Cardinality(Common(g, c)) = Cardinality(A)
<1> DEFINE size(d) == Cardinality(Of(A, g, d))
           T == Common(g, c)
           nth(d) == CHOOSE f : f \in Bijection(1 .. size(d), Of(A, g, d))
           h == [copy \in T |-> nth(copy[1])[copy[2]]]
<1>1. Len(g) = m /\ DOMAIN g = 1 .. m /\ \A i \in 1 .. m : g[i] \in Digits
  BY CodeLength
<1>2. \A d : /\ IsFiniteSet(Of(A, g, d)) /\ size(d) \in Nat
             /\ Count(g, d) \in 0 .. m /\ Count(c, d) \in Nat
             /\ size(d) <= Count(g, d) /\ size(d) <= Count(c, d)
             /\ (size(d) = Count(g, d) \/ size(d) = Count(c, d))
  BY PairedPerDigit
<1> HIDE DEF size
<1>3. ASSUME NEW copy
      PROVE  copy \in T <=> copy \in Digits \X Nat /\ copy[2] \in 1 .. size(copy[1])
  BY <1>1, <1>2 DEF Common
<1>4. \A d : nth(d) \in Bijection(1 .. size(d), Of(A, g, d))
  <2> SUFFICES ASSUME NEW d PROVE \E f : f \in Bijection(1 .. size(d), Of(A, g, d))
    OBVIOUS
  <2>1. ExistsBijection(1 .. size(d), Of(A, g, d))
    BY <1>2, FS_CardinalityType DEF size
  <2>2. QED BY <2>1 DEF ExistsBijection
<1> HIDE DEF nth, T
<1>5. ASSUME NEW d
      PROVE  /\ nth(d) \in [1 .. size(d) -> Of(A, g, d)]
             /\ \A k, l \in 1 .. size(d) : nth(d)[k] = nth(d)[l] => k = l
             /\ \A p \in Of(A, g, d) : \E k \in 1 .. size(d) : nth(d)[k] = p
  <2> DEFINE f == nth(d)
             N == 1 .. size(d)
             B == Of(A, g, d)
  <2> HIDE DEF f, N, B
  <2>1. f \in Bijection(N, B)
    BY <1>4 DEF f, N, B
  <2>2. /\ f \in [N -> B]
        /\ \A k, l \in N : f[k] = f[l] => k = l
        /\ \A p \in B : \E k \in N : f[k] = p
    BY <2>1 DEF Bijection, Injection, Surjection, IsInjective
  <2>3. QED BY <2>2 DEF f, N, B
<1>6. ASSUME NEW copy \in T
      PROVE  h[copy] \in A /\ g[h[copy][1]] = copy[1]
  <2> DEFINE d == copy[1]
  <2>1. copy[2] \in 1 .. size(d)
    BY <1>3
  <2>2. nth(d)[copy[2]] \in Of(A, g, d)
    BY <1>5, <2>1
  <2>3. h[copy] = nth(d)[copy[2]]
    OBVIOUS
  <2>4. QED BY <2>2, <2>3 DEF Of
<1>7. h \in Injection(T, A)
  <2>1. h \in [T -> A]
    BY <1>6
  <2>2. ASSUME NEW x \in T, NEW y \in T, h[x] = h[y] PROVE x = y
    <3>1. x[1] = y[1]
      BY <1>6, <2>2
    <3>2. nth(x[1])[x[2]] = nth(x[1])[y[2]]
      BY <2>2, <3>1
    <3>3. x[2] = y[2]
      BY <1>3, <1>5, <3>1, <3>2
    <3>4. QED BY <1>3, <3>1, <3>3
  <2>3. QED BY <2>1, <2>2 DEF Injection, IsInjective
<1>8. h \in Surjection(T, A)
  <2>1. ASSUME NEW p \in A PROVE \E copy \in T : h[copy] = p
    <3> DEFINE d == g[p[1]]
    <3>1. p[1] \in 1 .. m /\ d \in Digits
      BY <1>1 DEF Complete
    <3>2. p \in Of(A, g, d)
      BY DEF Of
    <3>3. PICK k \in 1 .. size(d) : nth(d)[k] = p
      BY <1>5, <3>2
    <3>4. <<d, k>> \in T
      BY <1>2, <1>3, <3>1
    <3>5. h[<<d, k>>] = p
      BY <3>3, <3>4
    <3>6. QED BY <3>4, <3>5
  <2>2. h \in [T -> A]
    BY <1>6
  <2>3. QED BY <2>1, <2>2 DEF Surjection
<1>9. IsFiniteSet(A)
  <2>1. A \subseteq (DOMAIN g) \X (DOMAIN c)
    BY DEF Complete
  <2>2. QED BY <2>1, PairsFinite
<1>10. Cardinality(T) = Cardinality(A)
  <2> HIDE DEF h
  <2>1. QED BY <1>7, <1>8, <1>9, FS_Injection
<1>11. QED BY <1>9, <1>10 DEF T

Hits(g, c) == DOMAIN g \ Misses(g, c)

\* The hits and what is crossed out after them make such a pairing.
LEMMA RoundsComplete ==
    ASSUME NEW g, NEW c, NEW P \in CrossedOut(g, c)
    PROVE  Complete(P \cup {<<i, i>> : i \in Hits(g, c)}, g, c)
<1> DEFINE A == P \cup {<<i, i>> : i \in Hits(g, c)}
<1>1. \A i \in Hits(g, c) : i \in DOMAIN g /\ i \in DOMAIN c /\ g[i] = c[i]
  BY DEF Hits, Misses
<1>2. \A p \in P : /\ p \in Misses(g, c) \X Misses(c, g)
                   /\ g[p[1]] = c[p[2]] /\ p[1] \notin Hits(g, c) /\ p[2] \notin Hits(g, c)
  BY DEF CrossedOut, Pairs, Hits, Misses
<1>3. \A p \in A : p \in (DOMAIN g) \X (DOMAIN c) /\ g[p[1]] = c[p[2]]
  BY <1>1, <1>2 DEF Misses
<1>4. ASSUME NEW p \in A, NEW q \in A, p # q PROVE Apart(p, q)
  <2>1. CASE p \in P /\ q \in P
    BY <1>4, <2>1 DEF CrossedOut
  <2>2. CASE p \in P /\ q \notin P
    BY <1>2, <2>2 DEF Apart
  <2>3. CASE p \notin P /\ q \in P
    BY <1>2, <2>3 DEF Apart
  <2>4. CASE p \notin P /\ q \notin P
    BY <1>4, <2>4 DEF Apart
  <2>5. QED BY <2>1, <2>2, <2>3, <2>4
<1>5. ASSUME NEW i \in DOMAIN g, NEW j \in DOMAIN c, g[i] = c[j]
      PROVE  \E p \in A : p[1] = i \/ p[2] = j
  <2>1. CASE i \in Hits(g, c)
    <3>1. <<i, i>> \in A
      BY <2>1
    <3>2. QED BY <3>1
  <2>2. CASE j \in Hits(g, c)
    <3>1. <<j, j>> \in A
      BY <2>2
    <3>2. QED BY <3>1
  <2>3. CASE i \notin Hits(g, c) /\ j \notin Hits(g, c)
    <3>1. i \in Misses(g, c) /\ j \in Misses(c, g)
      BY <2>3 DEF Hits, Misses
    <3>2. <<i, j>> \in Pairs(g, c)
      BY <1>5, <3>1 DEF Pairs
    <3>3. CASE <<i, j>> \in P
      BY <3>3
    <3>4. CASE <<i, j>> \notin P
      <4>1. PICK q \in P : ~Apart(<<i, j>>, q)
        BY <3>2, <3>4 DEF CrossedOut
      <4>2. QED BY <4>1 DEF Apart
    <3>5. QED BY <3>3, <3>4
  <2>4. QED BY <2>1, <2>2, <2>3
<1>6. QED BY <1>3, <1>4, <1>5 DEF Complete

\* dead counts the hits.
LEMMA DeadAreHits ==
    ASSUME NEW m \in Nat, NEW n \in Nat, NEW g \in Codes(m), NEW c \in Codes(n)
    PROVE  /\ IsFiniteSet(Hits(g, c)) /\ Cardinality(Hits(g, c)) \in Nat
           /\ Dead(g, c) = Cardinality(Hits(g, c))
<1>1. /\ DOMAIN g = 1 .. m /\ Len(g) = m
      /\ DOMAIN c = 1 .. n /\ Len(c) = n
  BY CodeLength
<1>2. Hits(g, c) = {i \in 1 .. Shorter(g, c) : g[i] = c[i]}
  BY <1>1 DEF Hits, Misses, Shorter
<1>3. IsFiniteSet(Hits(g, c))
  BY <1>1, FS_Interval, FS_Subset DEF Hits
<1>4. QED BY <1>2, <1>3, FS_CardinalityType DEF Dead

\* However the second round goes, it crosses out the injured.
LEMMA InjuredAreCrossedOut ==
    ASSUME NEW m \in Nat, NEW n \in Nat, NEW g \in Codes(m), NEW c \in Codes(n),
           NEW P \in CrossedOut(g, c)
    PROVE  Cardinality(P) = Injured(g, c)
<1> DEFINE H == {<<i, i>> : i \in Hits(g, c)}
           A == P \cup H
           f == [i \in Hits(g, c) |-> <<i, i>>]
<1>1. IsFiniteSet(A) /\ Cardinality(A) = Cardinality(Common(g, c))
  BY RoundsComplete, PairedAsCommon
<1>2. f \in Bijection(Hits(g, c), H)
  BY DEF Bijection, Injection, Surjection, IsInjective
<1>3. IsFiniteSet(H) /\ Cardinality(H) = Dead(g, c) /\ Dead(g, c) \in Nat
  BY <1>2, DeadAreHits, FS_Bijection DEF ExistsBijection
<1>4. P \cap H = {}
  BY DEF CrossedOut, Pairs, Hits, Misses
<1>5. IsFiniteSet(P) /\ Cardinality(P) \in Nat
  BY <1>1, FS_Subset, FS_CardinalityType
<1>6. Cardinality(A) = Cardinality(P) + Cardinality(H) - Cardinality(P \cap H)
  <2> HIDE DEF H
  <2>1. QED BY <1>3, <1>5, FS_Union
<1>7. Cardinality(P \cap H) = 0
  BY <1>4, FS_EmptySet
<1>8. QED BY <1>1, <1>3, <1>5, <1>6, <1>7 DEF Injured

\* The second round comes to an end: what is left open shrinks with every pair.
LEMMA RoundEnds ==
    ASSUME NEW m \in Nat, NEW n \in Nat, NEW g \in Codes(m), NEW c \in Codes(n)
    PROVE  CrossedOut(g, c) # {}
<1> DEFINE S == Pairs(g, c)
           fair(P) == \A p, q \in P : p # q => Apart(p, q)
           T == {U \in SUBSET S : fair(S \ U)}
<1>1. IsFiniteSet(S)
  BY PairsFinite DEF Pairs, Misses
<1>2. IsWellFoundedOn(StrictSubsetOrdering(S), SUBSET S)
  BY <1>1, FS_FiniteSubsetsOfFinite, FS_StrictSubsetOrderingWellFounded
<1>3. T \subseteq SUBSET S /\ S \in T
  OBVIOUS
<1>4. PICK U \in T : \A V \in T : ~(<<V, U>> \in StrictSubsetOrdering(S))
  <2> HIDE DEF T, S
  <2>1. QED BY <1>2, <1>3, WFMin
<1> DEFINE P == S \ U
<1>5. ASSUME NEW p \in U, \A q \in P : Apart(p, q) PROVE FALSE
  <2>1. S \ (U \ {p}) = P \cup {p}
    BY <1>3
  <2>2. fair(P \cup {p})
    BY <1>3, <1>5 DEF Apart
  <2>3. U \ {p} \in T
    BY <2>1, <2>2
  <2>4. <<U \ {p}, U>> \in StrictSubsetOrdering(S)
    BY <1>3, <1>5 DEF StrictSubsetOrdering
  <2>5. QED BY <1>4, <2>3, <2>4
<1>6. P \in SUBSET S /\ fair(P) /\ S \ P = U
  BY <1>3
<1>7. P \in CrossedOut(g, c)
  BY <1>5, <1>6 DEF CrossedOut
<1>8. QED BY <1>7

ScoreInv == (\E n \in Nat : secret \in Codes(n)) /\ ScoredByHand

LEMMA SecretsAreCodes == ASSUME Init PROVE \E n \in Nat : secret \in Codes(n)
<1>1. secret \in ValidCodes \/ secret \in PracticeSecrets
  BY ScoringAssumption DEF Init, SecretsOf
<1>2. CASE secret \in ValidCodes
  BY <1>2, ScoringAssumption DEF ValidCodes
<1>3. CASE secret \in PracticeSecrets
  BY <1>3, ScoringAssumption DEF PracticeSecrets
<1>4. QED BY <1>1, <1>2, <1>3

\* guess_result agrees with scoring by hand, in whatever order the digits are
\* crossed out, for every alphabet, every secret and every guess, whatever
\* their lengths.
THEOREM AlwaysScoredByHand == Spec => []ScoredByHand
<1>1. Init => ScoreInv
  BY SecretsAreCodes DEF ScoreInv, Init, ScoredByHand, None
<1>2. ScoreInv /\ [Next]_vars => ScoreInv'
  <2> SUFFICES ASSUME ScoreInv, [Next]_vars PROVE ScoreInv'
    OBVIOUS
  <2>1. CASE Guess
    <3>1. PICK g \in GuessesOf(board) : guess' = g /\ answer' = Truth(g)
      BY <2>1 DEF Guess
    <3>2. PICK n \in Nat : secret \in Codes(n)
      BY DEF ScoreInv
    <3>3. PICK m \in Nat : g \in Codes(m)
      BY <3>1, ScoringAssumption DEF GuessesOf, ValidCodes
    <3>4. secret' = secret
      BY <2>1 DEF Guess
    <3>5. Dead(g, secret) = Cardinality(DOMAIN g \ Misses(g, secret))
      BY <3>2, <3>3, DeadAreHits DEF Hits
    <3>6. {Cardinality(P) : P \in CrossedOut(g, secret)} = {Injured(g, secret)}
      <4>1. \A P \in CrossedOut(g, secret) : Cardinality(P) = Injured(g, secret)
        BY <3>2, <3>3, InjuredAreCrossedOut
      <4>2. CrossedOut(g, secret) # {}
        BY <3>2, <3>3, RoundEnds
      <4>3. QED BY <4>1, <4>2
    <3>7. answer'.dead = Dead(g, secret) /\ answer'.injured = Injured(g, secret)
      BY <3>1 DEF Truth
    <3>8. ScoredByHand'
      BY <3>1, <3>4, <3>5, <3>6, <3>7 DEF ScoredByHand
    <3>9. QED BY <3>4, <3>8 DEF ScoreInv
  <2>2. CASE FakeGuess
    BY <2>2 DEF FakeGuess, Bluff, ScoreInv, ScoredByHand
  <2>3. CASE UNCHANGED vars
    BY <2>3 DEF vars, ScoreInv, ScoredByHand
  <2>4. QED BY <2>1, <2>2, <2>3 DEF Next
<1>3. QED BY <1>1, <1>2, PTL DEF Spec, ScoreInv

(***************************************************************************)
(* What solves a board.                                                    *)
(***************************************************************************)
BeginsWith(g, c) == Len(c) <= Len(g) /\ \A i \in DOMAIN c : g[i] = c[i]

LEMMA OverIsFound ==
    ASSUME NEW m \in Nat, NEW n \in Nat, NEW g \in Codes(m), NEW c \in Codes(n)
    PROVE  GameOver(g, c) <=> BeginsWith(g, c)
<1>1. /\ DOMAIN g = 1 .. m /\ Len(g) = m
      /\ DOMAIN c = 1 .. n /\ Len(c) = n
  BY CodeLength
<1>2. Hits(g, c) \in SUBSET (1 .. n)
  BY <1>1 DEF Hits, Misses
<1>3. IsFiniteSet(1 .. n) /\ Cardinality(1 .. n) = n
  BY FS_Interval
<1>4. GameOver(g, c) <=> Hits(g, c) = 1 .. n
  BY <1>1, <1>2, <1>3, FS_Subset, DeadAreHits DEF GameOver
<1>5. Hits(g, c) = 1 .. n <=> BeginsWith(g, c)
  BY <1>1 DEF Hits, Misses, BeginsWith
<1>6. QED BY <1>4, <1>5

FoundInv ==
    /\ \E n \in Nat : secret \in Codes(n)
    /\ answer.kind = "true" => (answer.solved <=> BeginsWith(guess, secret))

\* A guess is told that it solves the board exactly if it begins with the
\* secret (guess_result): a match is solved by its secret and nothing else, a
\* board whose guesses may be longer by all that begin with it.
THEOREM SolvedIsFound ==
    Spec => [](answer.kind = "true" => (answer.solved <=> BeginsWith(guess, secret)))
<1>1. Init => FoundInv
  BY SecretsAreCodes DEF FoundInv, Init, None
<1>2. FoundInv /\ [Next]_vars => FoundInv'
  <2> SUFFICES ASSUME FoundInv, [Next]_vars PROVE FoundInv'
    OBVIOUS
  <2>1. CASE Guess
    <3>1. PICK g \in GuessesOf(board) : guess' = g /\ answer' = Truth(g)
      BY <2>1 DEF Guess
    <3>2. PICK n \in Nat : secret \in Codes(n)
      BY DEF FoundInv
    <3>3. PICK m \in Nat : g \in Codes(m)
      BY <3>1, ScoringAssumption DEF GuessesOf, ValidCodes
    <3>4. GameOver(g, secret) <=> BeginsWith(g, secret)
      BY <3>2, <3>3, OverIsFound
    <3>5. secret' = secret /\ answer'.solved = GameOver(g, secret)
      BY <2>1, <3>1 DEF Guess, Truth
    <3>6. BeginsWith(guess, secret)' = BeginsWith(g, secret)
      BY <3>1, <3>5 DEF BeginsWith
    <3>7. QED BY <3>2, <3>4, <3>5, <3>6 DEF FoundInv
  <2>2. CASE FakeGuess
    BY <2>2 DEF FakeGuess, Bluff, FoundInv
  <2>3. CASE UNCHANGED vars
    BY <2>3 DEF vars, FoundInv, BeginsWith
  <2>4. QED BY <2>1, <2>2, <2>3 DEF Next
<1>3. QED BY <1>1, <1>2, PTL DEF Spec, FoundInv

WonInv == (board \in {"match", "puzzle"} => secret \in ValidCodes)

\* A match can always be won, and so can a puzzle that is sent guesses as long
\* as its secret: only a practice session may draw a secret that no guess it
\* accepts solves (_generate_secret and CodeStr disagree).
THEOREM OtherBoardsCanBeWon ==
    Spec => [](board = "match" \/ (board = "puzzle" /\ SecretLength \in PuzzleLengths) => Solvable)
<1>1. Init => WonInv
  BY DEF WonInv, Init, SecretsOf
<1>2. WonInv /\ [Next]_vars => WonInv'
  BY DEF WonInv, Next, Guess, FakeGuess, vars
<1>3. WonInv => (board = "match" \/ (board = "puzzle" /\ SecretLength \in PuzzleLengths) => Solvable)
  <2> SUFFICES ASSUME WonInv, board = "match" \/ (board = "puzzle" /\ SecretLength \in PuzzleLengths)
               PROVE  Solvable
    OBVIOUS
  <2>1. secret \in ValidCodes /\ secret \in Codes(SecretLength) /\ SecretLength \in Nat
    BY ScoringAssumption DEF WonInv, ValidCodes
  <2>2. secret \in GuessesOf(board)
    BY <2>1 DEF GuessesOf
  <2>3. GameOver(secret, secret)
    <3>1. DOMAIN secret = 1 .. SecretLength /\ Len(secret) = SecretLength
      BY <2>1, CodeLength
    <3>2. BeginsWith(secret, secret)
      BY <2>1, <3>1 DEF BeginsWith
    <3>3. QED BY <2>1, <3>2, OverIsFound
  <2>4. QED BY <2>2, <2>3 DEF Solvable
<1>4. QED BY <1>1, <1>2, <1>3, PTL DEF Spec
=============================================================================
