--------------------------- MODULE AlgorithmsProof ---------------------------
(***************************************************************************)
(* Proofs about the pure algorithms, for every input: scripts without      *)
(* brackets mean what they say, globs find what they match but for the     *)
(* wildcards of LIKE, versions of one kind are ordered, and a version is   *)
(* affected exactly within the intervals of a range.                       *)
(*                                                                         *)
(* The algorithms are folds and one function over pairs of places.  That a *)
(* fold has a solution is FoldExists; from then on a fold is a row, of     *)
(* which each element comes from the one before it (RightFold, LeftFold),  *)
(* and what holds along a row comes by Upwards and Downwards.              *)
(***************************************************************************)
EXTENDS Algorithms, FiniteSetTheorems, SequenceTheorems, WellFoundedInduction, TLAPS

(* A set of numbers that is not empty has a least: of the parts that lie   *)
(* below one of its numbers, one contains no other.                        *)
LEMMA LeastNumber ==
    ASSUME NEW S \in SUBSET Nat, S # {}
    PROVE  \E x \in S : \A y \in S : x <= y
  <1>1. PICK n \in S : TRUE
    OBVIOUS
  <1> DEFINE U == 0..n
             T == {R \in SUBSET U : \E x \in S \cap U : R = {y \in S : y <= x}}
  <1>2. /\ n \in Nat /\ IsFiniteSet(U) /\ n \in U
        /\ \A y \in S : y <= n <=> y \in U
    <2>1. n \in Nat /\ \A y \in S : y \in Nat
      OBVIOUS
    <2>2. QED
      BY <2>1, FS_Interval
  <1>3. T \subseteq FiniteSubsetsOf(U) /\ T # {}
    <2>1. FiniteSubsetsOf(U) = SUBSET U
      BY <1>2, FS_FiniteSubsetsOfFinite
    <2> HIDE DEF U
    <2>2. {y \in S : y <= n} \in SUBSET U /\ n \in S \cap U
      BY <1>2
    <2>3. {y \in S : y <= n} \in T
      BY <2>2
    <2>4. QED
      BY <2>1, <2>3
  <1>4. PICK R \in T : \A Q \in T : ~(<<Q, R>> \in StrictSubsetOrdering(U))
    <2> HIDE DEF T, U
    <2> QED
      BY <1>2, <1>3, FS_StrictSubsetOrderingWellFounded, WFMin
  <1>5. PICK x \in S \cap U : R = {y \in S : y <= x}
    OBVIOUS
  <1>6. ASSUME NEW y \in S, y < x PROVE FALSE
    <2> DEFINE Q == {z \in S : z <= y}
    <2>1. x \in Nat /\ y \in Nat /\ y \in U
      <3>1. x \in Nat /\ y \in Nat /\ x <= n
        BY <1>2, <1>5
      <3>2. y <= n
        BY <1>2, <1>6, <3>1
      <3> HIDE DEF U
      <3>3. QED
        BY <1>2, <3>1, <3>2
    <2>2. Q \subseteq R /\ x \in R /\ x \notin Q /\ R \subseteq U
      <3>1. \A z \in S : z \in Nat
        OBVIOUS
      <3>2. x <= x /\ ~(x <= y) /\ \A z \in S : z <= y => z <= x
        BY <1>6, <2>1, <3>1
      <3> HIDE DEF U
      <3>3. QED
        BY <1>5, <3>2
    <2>3. Q \in T
      BY <2>1, <2>2
    <2> HIDE DEF Q, U
    <2>4. <<Q, R>> \in StrictSubsetOrdering(U)
      BY <2>2 DEF StrictSubsetOrdering
    <2>5. QED
      BY <1>4, <2>3, <2>4
  <1>7. QED
    <2>1. \A y \in S : x <= y
      <3>1. ASSUME NEW y \in S PROVE x <= y
        <4>1. x \in Nat /\ y \in Nat
          BY <1>5
        <4>2. QED
          BY <1>6, <4>1
      <3>2. QED
        BY <3>1
    <2>2. QED
      BY <2>1

-----------------------------------------------------------------------------
(* Versions.  A version as a list of numbers without end: that of a word   *)
(* is negative, that of a number positive, and 0 stands for its end.       *)
Positions == Nat \ {0}
Words == Len(Versions!Vocabulary)
Key(v, i) ==
    IF i > Len(v) THEN 0
    ELSE IF v[i].word THEN v[i].value - Words - 1 ELSE v[i].value + 1

PreRelease(v) == \A k \in DOMAIN v : ~Versions!IsPostRelease(v[k])
Same(a, b, i) == \A l \in 1..(i - 1) : Key(a, l) = Key(b, l)
Equal(a, b) == \A l \in Positions : Key(a, l) = Key(b, l)
Less(a, b) == \E i \in Positions : Same(a, b, i) /\ Key(a, i) < Key(b, i)

(* What compare gives, as an order of these lists.                         *)
Lexical(a, b, c) ==
    \/ Equal(a, b) /\ c = 0
    \/ Less(a, b) /\ c = -1
    \/ Less(b, a) /\ c = 1

(* What a segment is.                                                      *)
LEMMA VersionFacts ==
    ASSUME NEW v, Versions!IsVersion(v)
    PROVE  /\ Words \in Nat /\ Len(v) \in Nat /\ DOMAIN v = 1..Len(v) /\ Len(v) # 0
           /\ v = [k \in 1..Len(v) |-> v[k]]
           /\ \A k \in 1..Len(v) :
                /\ v[k] = [word |-> v[k].word, value |-> v[k].value]
                /\ v[k].word \in BOOLEAN /\ v[k].value \in Nat
                /\ v[k].word => v[k].value >= 1 /\ v[k].value <= Words
           /\ \A k \in Positions : Key(v, k) \in Int
  <1>1. v \in Seq(Versions!ToSet(v)) /\ v # <<>>
    BY DEF Versions!IsVersion
  <1>2. Len(v) \in Nat /\ DOMAIN v = 1..Len(v) /\ Len(v) # 0 /\ v = [k \in 1..Len(v) |-> v[k]]
    BY <1>1
  <1>3. Words \in Nat /\ DOMAIN Versions!Vocabulary = 1..Words
    BY DEF Words, Versions!Vocabulary
  <1>4. ASSUME NEW k \in 1..Len(v)
        PROVE  /\ v[k] = [word |-> v[k].word, value |-> v[k].value]
               /\ v[k].word \in BOOLEAN /\ v[k].value \in Nat
               /\ v[k].word => v[k].value >= 1 /\ v[k].value <= Words
    <2>1. v[k] \in Versions!ToSet(v)
      BY <1>2 DEF Versions!ToSet
    <2>2. CASE v[k] = Versions!Num(v[k].value) /\ v[k].value \in Nat
      <3>1. v[k] = [word |-> FALSE, value |-> v[k].value]
        BY <2>2 DEF Versions!Num
      <3>2. v[k].word = FALSE
        BY <3>1
      <3>3. QED
        BY <2>2, <3>1, <3>2
    <2>3. CASE v[k] = [word |-> TRUE, value |-> v[k].value] /\ v[k].value \in DOMAIN Versions!Vocabulary
      <3>1. v[k].word = TRUE
        BY <2>3
      <3>2. v[k].value \in Nat /\ v[k].value >= 1 /\ v[k].value <= Words
        BY <1>3, <2>3
      <3>3. QED
        BY <2>3, <3>1, <3>2
    <2>4. QED
      BY <2>1, <2>2, <2>3 DEF Versions!IsVersion
  <1>5. ASSUME NEW k \in Positions PROVE Key(v, k) \in Int
    <2>1. CASE k > Len(v)
      BY <2>1 DEF Key
    <2>2. CASE ~(k > Len(v))
      <3>1. k \in 1..Len(v)
        BY <1>2, <2>2 DEF Positions
      <3>2. QED
        <4>1. v[k].value \in Nat /\ v[k].word \in BOOLEAN
          BY <1>4, <3>1
        <4>2. Key(v, k) = IF v[k].word THEN v[k].value - Words - 1 ELSE v[k].value + 1
          BY <2>2 DEF Key
        <4>3. QED
          BY <1>3, <4>1, <4>2
    <2>3. QED
      BY <2>1, <2>2
  <1>6. QED
    BY <1>2, <1>3, <1>4, <1>5

(* The number of a segment says what it is.                                *)
LEMMA KeyFacts ==
    ASSUME NEW a, NEW b, Versions!IsVersion(a), Versions!IsVersion(b), NEW i \in Positions
    PROVE  /\ Key(a, i) = 0 <=> i > Len(a)
           /\ i <= Len(a) => (Key(a, i) < 0 <=> a[i].word)
           /\ i <= Len(a) /\ i <= Len(b) =>
                /\ Key(a, i) = Key(b, i) <=> a[i] = b[i]
                /\ a[i].word = b[i].word => (Key(a, i) < Key(b, i) <=> a[i].value < b[i].value)
                /\ a[i].word /\ ~b[i].word => Key(a, i) < Key(b, i)
  <1>1. /\ Words \in Nat /\ Len(a) \in Nat /\ Len(b) \in Nat /\ i \in Nat /\ i # 0
        /\ i <= Len(a) => i \in 1..Len(a)
        /\ i <= Len(b) => i \in 1..Len(b)
    BY VersionFacts DEF Positions
  <1>2. ASSUME i <= Len(a)
        PROVE  /\ Key(a, i) = IF a[i].word THEN a[i].value - Words - 1 ELSE a[i].value + 1
               /\ a[i].word \in BOOLEAN /\ a[i].value \in Nat
               /\ a[i].word => a[i].value >= 1 /\ a[i].value <= Words
               /\ a[i] = [word |-> a[i].word, value |-> a[i].value]
    BY <1>1, <1>2, VersionFacts DEF Key
  <1>3. ASSUME i <= Len(b)
        PROVE  /\ Key(b, i) = IF b[i].word THEN b[i].value - Words - 1 ELSE b[i].value + 1
               /\ b[i].word \in BOOLEAN /\ b[i].value \in Nat
               /\ b[i].word => b[i].value >= 1 /\ b[i].value <= Words
               /\ b[i] = [word |-> b[i].word, value |-> b[i].value]
    BY <1>1, <1>3, VersionFacts DEF Key
  <1>4. Key(a, i) = 0 <=> i > Len(a)
    <2>1. CASE i > Len(a)
      BY <2>1 DEF Key
    <2>2. CASE i <= Len(a)
      BY <1>1, <1>2, <2>2
    <2>3. QED
      BY <1>1, <2>1, <2>2
  <1>5. i <= Len(a) => (Key(a, i) < 0 <=> a[i].word)
    BY <1>1, <1>2
  <1>6. ASSUME i <= Len(a), i <= Len(b)
        PROVE  /\ Key(a, i) = Key(b, i) <=> a[i] = b[i]
               /\ a[i].word = b[i].word => (Key(a, i) < Key(b, i) <=> a[i].value < b[i].value)
               /\ a[i].word /\ ~b[i].word => Key(a, i) < Key(b, i)
    <2> DEFINE aw == a[i].word
               av == a[i].value
               bw == b[i].word
               bv == b[i].value
    <2>1. /\ Key(a, i) = IF aw THEN av - Words - 1 ELSE av + 1
          /\ aw \in BOOLEAN /\ av \in Nat /\ (aw => av >= 1 /\ av <= Words)
          /\ Key(b, i) = IF bw THEN bv - Words - 1 ELSE bv + 1
          /\ bw \in BOOLEAN /\ bv \in Nat /\ (bw => bv >= 1 /\ bv <= Words)
      BY <1>2, <1>3, <1>6
    <2>2. a[i] = b[i] <=> aw = bw /\ av = bv
      BY <1>2, <1>3, <1>6
    <2> HIDE DEF aw, av, bw, bv
    <2>3. Key(a, i) = Key(b, i) <=> aw = bw /\ av = bv
      BY <1>1, <2>1
    <2>4. aw = bw => (Key(a, i) < Key(b, i) <=> av < bv)
      BY <1>1, <2>1
    <2>5. aw /\ ~bw => Key(a, i) < Key(b, i)
      BY <1>1, <2>1
    <2>6. QED
      BY <2>2, <2>3, <2>4, <2>5 DEF aw, av, bw, bv
  <1>7. QED
    BY <1>4, <1>5, <1>6

(* Comparing segment by segment is comparing these lists.                  *)
LEMMA NaturalIsLexical ==
    ASSUME NEW a, NEW b, Versions!IsVersion(a), Versions!IsVersion(b), PreRelease(a), PreRelease(b)
    PROVE  Lexical(a, b, Versions!NaturalCompare(a, b))
  <1> DEFINE longer == IF Len(a) > Len(b) THEN a ELSE b
             shorter == IF Len(a) > Len(b) THEN Len(b) ELSE Len(a)
             differ == {k \in 1..shorter : a[k] # b[k]}
             i == CHOOSE k \in differ : \A l \in differ : k <= l
             last == longer[shorter + 1]
             endsAfter == last.word /\ ~Versions!IsPostRelease(last)
             nc == Versions!NaturalCompare(a, b)
  <1>1. /\ Len(a) \in Nat /\ DOMAIN a = 1..Len(a) /\ Len(b) \in Nat /\ DOMAIN b = 1..Len(b)
        /\ \A k \in 1..Len(a) : a[k].word \in BOOLEAN /\ a[k].value \in Nat
        /\ \A k \in 1..Len(b) : b[k].word \in BOOLEAN /\ b[k].value \in Nat
        /\ \A k \in Positions : Key(a, k) \in Int /\ Key(b, k) \in Int
    BY VersionFacts
  <1>2. /\ shorter \in Nat /\ shorter <= Len(a) /\ shorter <= Len(b)
        /\ shorter = Len(a) \/ shorter = Len(b)
    BY <1>1
  <1>3. nc = CASE differ # {} /\ a[i].word = b[i].word -> Versions!Sign(a[i].value > b[i].value)
               [] differ # {} /\ a[i].word /\ ~b[i].word -> Versions!Sign(~Versions!NumberAfterWord(a[i]))
               [] differ # {} /\ ~a[i].word /\ b[i].word -> Versions!Sign(Versions!NumberAfterWord(b[i]))
               [] differ = {} /\ Len(a) = Len(b) -> 0
               [] OTHER -> Versions!Sign((Len(a) < Len(b)) = endsAfter)
    BY DEF Versions!NaturalCompare
  <1>4. \A k \in 1..shorter : k \in Positions /\ k \in DOMAIN a /\ k \in DOMAIN b /\ k <= Len(a) /\ k <= Len(b)
    BY <1>1, <1>2 DEF Positions
  <1>5. CASE differ # {}
    <2>1. i \in differ /\ \A l \in differ : i <= l
      <3>1. differ \in SUBSET Nat
        BY <1>2
      <3> HIDE DEF differ
      <3>2. QED
        BY <1>5, <3>1, LeastNumber
    <2> HIDE DEF i
    <2>2. /\ i \in 1..shorter /\ a[i] # b[i] /\ i \in Positions /\ i \in Nat
          /\ i <= Len(a) /\ i <= Len(b) /\ i \in DOMAIN a /\ i \in DOMAIN b
      BY <1>4, <2>1
    <2>3. \A l \in 1..(i - 1) : Key(a, l) = Key(b, l)
      <3>1. ASSUME NEW l \in 1..(i - 1) PROVE Key(a, l) = Key(b, l)
        <4>1. l \in 1..shorter /\ ~(i <= l)
          BY <1>2, <2>2
        <4>2. a[l] = b[l]
          BY <2>1, <4>1
        <4>3. l \in Positions /\ l <= Len(a) /\ l <= Len(b)
          BY <1>4, <4>1
        <4>4. QED
          BY <4>2, <4>3, KeyFacts
      <3>2. QED
        BY <3>1
    <2>4. Same(a, b, i) /\ Same(b, a, i)
      BY <2>3 DEF Same
    <2>5. /\ Key(a, i) # Key(b, i)
          /\ a[i].word = b[i].word => (Key(a, i) < Key(b, i) <=> a[i].value < b[i].value)
          /\ a[i].word = b[i].word => (Key(b, i) < Key(a, i) <=> b[i].value < a[i].value)
          /\ a[i].word /\ ~b[i].word => Key(a, i) < Key(b, i)
          /\ b[i].word /\ ~a[i].word => Key(b, i) < Key(a, i)
      BY <2>2, KeyFacts
    <2>6. /\ Key(a, i) \in Int /\ Key(b, i) \in Int
          /\ a[i].word \in BOOLEAN /\ a[i].value \in Nat /\ b[i].word \in BOOLEAN /\ b[i].value \in Nat
      BY <1>1, <2>2
    <2>7. Versions!NumberAfterWord(a[i]) = TRUE /\ Versions!NumberAfterWord(b[i]) = TRUE
      BY <2>2 DEF PreRelease, Versions!NumberAfterWord
    <2>8. (Key(a, i) < Key(b, i) /\ nc = -1) \/ (Key(b, i) < Key(a, i) /\ nc = 1)
      <3> HIDE DEF differ
      <3>1. CASE a[i].word = b[i].word
        <4>1. nc = Versions!Sign(a[i].value > b[i].value)
          BY <1>3, <1>5, <3>1
        <4>2. nc = IF a[i].value > b[i].value THEN 1 ELSE -1
          BY <4>1 DEF Versions!Sign
        <4> HIDE DEF nc
        <4>3. QED
          BY <2>5, <2>6, <3>1, <4>2
      <3>2. CASE a[i].word /\ ~b[i].word
        <4>1. nc = Versions!Sign(~Versions!NumberAfterWord(a[i]))
          BY <1>3, <1>5, <3>2
        <4>2. nc = -1
          BY <2>7, <4>1 DEF Versions!Sign
        <4>3. QED
          BY <2>5, <3>2, <4>2
      <3>3. CASE ~a[i].word /\ b[i].word
        <4>1. nc = Versions!Sign(Versions!NumberAfterWord(b[i]))
          BY <1>3, <1>5, <3>3
        <4>2. nc = 1
          BY <2>7, <4>1 DEF Versions!Sign
        <4>3. QED
          BY <2>5, <3>3, <4>2
      <3>4. QED
        BY <2>6, <3>1, <3>2, <3>3
    <2> HIDE DEF nc
    <2>9. QED
      BY <2>2, <2>4, <2>8 DEF Lexical, Less, nc
  <1>6. CASE differ = {}
    <2>1. \A k \in 1..shorter : Key(a, k) = Key(b, k)
      <3>1. ASSUME NEW k \in 1..shorter PROVE Key(a, k) = Key(b, k)
        <4>1. a[k] = b[k] /\ k \in Positions /\ k <= Len(a) /\ k <= Len(b)
          BY <1>4, <1>6
        <4>2. QED
          BY <4>1, KeyFacts
      <3>2. QED
        BY <3>1
    <2>2. CASE Len(a) = Len(b)
      <3>1. nc = 0
        BY <1>3, <1>6, <2>2
      <3>2. ASSUME NEW k \in Positions PROVE Key(a, k) = Key(b, k)
        <4>1. CASE k > Len(a)
          BY <2>2, <4>1 DEF Key
        <4>2. CASE ~(k > Len(a))
          <5>1. k \in 1..shorter
            BY <1>1, <2>2, <4>2 DEF Positions
          <5>2. QED
            BY <2>1, <5>1
        <4>3. QED
          BY <4>1, <4>2
      <3> HIDE DEF nc
      <3>3. QED
        BY <3>1, <3>2 DEF Lexical, Equal, nc
    <2>3. CASE Len(a) # Len(b)
      <3> DEFINE n == shorter + 1
      <3>1. nc = Versions!Sign((Len(a) < Len(b)) = endsAfter)
        BY <1>3, <1>6, <2>3
      <3>2. n \in Positions /\ n - 1 = shorter /\ n \in Nat
        BY <1>2 DEF Positions
      <3>3. Same(a, b, n) /\ Same(b, a, n)
        <4> HIDE DEF n
        <4>1. QED
          BY <2>1, <3>2 DEF Same
      <3>4. CASE Len(a) < Len(b)
        <4>1. /\ shorter = Len(a) /\ n > Len(a) /\ n <= Len(b) /\ n \in 1..Len(b) /\ last = b[n]
          <5>1. Len(a) \in Nat /\ Len(b) \in Nat /\ ~(Len(a) > Len(b))
            BY <1>1, <3>4
          <5>2. shorter = Len(a) /\ longer = b
            BY <5>1
          <5>3. n > Len(a) /\ n <= Len(b) /\ n \in 1..Len(b)
            BY <3>4, <5>1, <5>2
          <5>4. QED
            BY <5>2, <5>3
        <4> HIDE DEF n, last, shorter, longer
        <4>2. last.word \in BOOLEAN /\ ~Versions!IsPostRelease(last)
          BY <1>1, <4>1 DEF PreRelease
        <4>3. Key(a, n) = 0 /\ Key(b, n) # 0 /\ (Key(b, n) < 0 <=> last.word) /\ Key(b, n) \in Int
          <5>1. n > Len(a) /\ n <= Len(b) /\ ~(n > Len(b))
            BY <1>1, <3>2, <4>1
          <5>2. QED
            BY <1>1, <3>2, <4>1, <5>1, KeyFacts
        <4>4. nc = IF last.word THEN 1 ELSE -1
          BY <3>1, <3>4, <4>2 DEF Versions!Sign
        <4> HIDE DEF nc
        <4>5. (Key(b, n) < Key(a, n) /\ nc = 1) \/ (Key(a, n) < Key(b, n) /\ nc = -1)
          BY <4>2, <4>3, <4>4
        <4>6. QED
          BY <3>2, <3>3, <4>5 DEF Lexical, Less, nc
      <3>5. CASE Len(b) < Len(a)
        <4>1. /\ shorter = Len(b) /\ n > Len(b) /\ n <= Len(a) /\ n \in 1..Len(a) /\ last = a[n]
              /\ ~(Len(a) < Len(b))
          <5>1. Len(a) \in Nat /\ Len(b) \in Nat /\ Len(a) > Len(b) /\ ~(Len(a) < Len(b))
            BY <1>1, <3>5
          <5>2. shorter = Len(b) /\ longer = a
            BY <5>1
          <5>3. n > Len(b) /\ n <= Len(a) /\ n \in 1..Len(a)
            BY <3>5, <5>1, <5>2
          <5>4. QED
            BY <5>1, <5>2, <5>3
        <4> HIDE DEF n, last, shorter, longer
        <4>2. last.word \in BOOLEAN /\ ~Versions!IsPostRelease(last)
          BY <1>1, <4>1 DEF PreRelease
        <4>3. Key(b, n) = 0 /\ Key(a, n) # 0 /\ (Key(a, n) < 0 <=> last.word) /\ Key(a, n) \in Int
          <5>1. n > Len(b) /\ n <= Len(a) /\ ~(n > Len(a))
            BY <1>1, <3>2, <4>1
          <5>2. QED
            BY <1>1, <3>2, <4>1, <5>1, KeyFacts
        <4>4. nc = IF last.word THEN -1 ELSE 1
          BY <3>1, <4>1, <4>2 DEF Versions!Sign
        <4> HIDE DEF nc
        <4>5. (Key(b, n) < Key(a, n) /\ nc = 1) \/ (Key(a, n) < Key(b, n) /\ nc = -1)
          BY <4>2, <4>3, <4>4
        <4>6. QED
          BY <3>2, <3>3, <4>5 DEF Lexical, Less, nc
      <3>6. QED
        <4>1. Len(a) \in Nat /\ Len(b) \in Nat
          BY <1>1
        <4>2. Len(a) < Len(b) \/ Len(b) < Len(a)
          BY <2>3, <4>1
        <4>3. QED
          BY <3>4, <3>5, <4>2
    <2>4. QED
      BY <2>2, <2>3
  <1>7. QED
    BY <1>5, <1>6

(* The order of these lists is one.                                        *)
LEMMA LexicalOrder ==
    ASSUME NEW a, NEW b, NEW c, \A v \in {a, b, c} : Versions!IsVersion(v)
    PROVE  /\ ~(Less(a, b) /\ Less(b, a)) /\ ~(Less(a, b) /\ Equal(a, b)) /\ ~(Less(a, b) /\ Equal(b, a))
           /\ Equal(a, b) => Equal(b, a)
           /\ Equal(a, b) /\ Equal(b, c) => Equal(a, c)
           /\ Less(a, b) /\ Equal(b, c) => Less(a, c)
           /\ Equal(a, b) /\ Less(b, c) => Less(a, c)
           /\ Less(a, b) /\ Less(b, c) => Less(a, c)
  <1>1. \A k \in Positions : Key(a, k) \in Int /\ Key(b, k) \in Int /\ Key(c, k) \in Int
    BY VersionFacts
  <1>2. \A i \in Positions : \A l \in 1..(i - 1) : l \in Positions /\ l < i
    BY DEF Positions
  <1>3. \A i, j \in Positions : i \in Nat /\ j \in Nat /\ (i < j \/ j < i \/ i = j)
                               /\ (i < j => i \in 1..(j - 1) /\ \A l \in 1..(i - 1) : l \in 1..(j - 1))
    BY DEF Positions
  <1>4. ASSUME Less(a, b), Less(b, a) PROVE FALSE
    <2>1. PICK i \in Positions : Same(a, b, i) /\ Key(a, i) < Key(b, i)
      BY <1>4 DEF Less
    <2>2. PICK j \in Positions : Same(b, a, j) /\ Key(b, j) < Key(a, j)
      BY <1>4 DEF Less
    <2>3. \A k \in Positions : ~(Key(a, k) < Key(b, k) /\ Key(a, k) = Key(b, k))
                              /\ ~(Key(b, k) < Key(a, k) /\ Key(a, k) = Key(b, k))
                              /\ ~(Key(a, k) < Key(b, k) /\ Key(b, k) < Key(a, k))
      BY <1>1
    <2>4. QED
      BY <1>3, <2>1, <2>2, <2>3 DEF Same
  <1>5. ASSUME Less(a, b), Equal(a, b) \/ Equal(b, a) PROVE FALSE
    <2>1. PICK i \in Positions : Key(a, i) < Key(b, i)
      BY <1>5 DEF Less
    <2>2. Key(a, i) = Key(b, i)
      BY <1>5 DEF Equal
    <2>3. QED
      BY <1>1, <2>1, <2>2
  <1>6. ASSUME Less(a, b), Equal(b, c) PROVE Less(a, c)
    <2>1. PICK i \in Positions : Same(a, b, i) /\ Key(a, i) < Key(b, i)
      BY <1>6 DEF Less
    <2>2. \A k \in Positions : Key(b, k) = Key(c, k)
      BY <1>6 DEF Equal
    <2>3. Same(a, c, i) /\ Key(a, i) < Key(c, i)
      BY <1>2, <2>1, <2>2 DEF Same
    <2>4. QED
      BY <2>3 DEF Less
  <1>7. ASSUME Equal(a, b), Less(b, c) PROVE Less(a, c)
    <2>1. PICK i \in Positions : Same(b, c, i) /\ Key(b, i) < Key(c, i)
      BY <1>7 DEF Less
    <2>2. \A k \in Positions : Key(a, k) = Key(b, k)
      BY <1>7 DEF Equal
    <2>3. Same(a, c, i) /\ Key(a, i) < Key(c, i)
      BY <1>2, <2>1, <2>2 DEF Same
    <2>4. QED
      BY <2>3 DEF Less
  <1>8. ASSUME Less(a, b), Less(b, c) PROVE Less(a, c)
    <2>1. PICK i \in Positions : Same(a, b, i) /\ Key(a, i) < Key(b, i)
      BY <1>8 DEF Less
    <2>2. PICK j \in Positions : Same(b, c, j) /\ Key(b, j) < Key(c, j)
      BY <1>8 DEF Less
    <2>3. CASE i < j
      <3>1. Key(a, i) < Key(c, i)
        BY <1>3, <2>1, <2>2, <2>3 DEF Same
      <3>2. Same(a, c, i)
        BY <1>3, <2>1, <2>2, <2>3 DEF Same
      <3>3. QED
        BY <3>1, <3>2 DEF Less
    <2>4. CASE j < i
      <3>1. Key(a, j) < Key(c, j)
        BY <1>3, <2>1, <2>2, <2>4 DEF Same
      <3>2. Same(a, c, j)
        BY <1>3, <2>1, <2>2, <2>4 DEF Same
      <3>3. QED
        BY <3>1, <3>2 DEF Less
    <2>5. CASE i = j
      <3>1. Key(a, i) < Key(c, i)
        BY <1>1, <2>1, <2>2, <2>5
      <3>2. Same(a, c, i)
        BY <2>1, <2>2, <2>5 DEF Same
      <3>3. QED
        BY <3>1, <3>2 DEF Less
    <2>6. QED
      BY <1>3, <2>3, <2>4, <2>5
  <1>9. /\ Equal(a, b) => Equal(b, a)
        /\ Equal(a, b) /\ Equal(b, c) => Equal(a, c)
    BY DEF Equal
  <1>10. QED
    BY <1>4, <1>5, <1>6, <1>7, <1>8, <1>9

(* A version of one to three numbers as three numbers.                     *)
LEMMA TripleFacts ==
    ASSUME NEW v, Versions!IsVersion(v), Versions!IsSemver(v)
    PROVE  /\ Versions!IsVersion(Versions!Triple(v)) /\ PreRelease(Versions!Triple(v))
           /\ Len(v) \in 1..3 /\ Versions!Leading(v) = Len(v)
           /\ \A k \in Positions :
                Key(Versions!Triple(v), k) = IF k <= Len(v) THEN Key(v, k) ELSE IF k <= 3 THEN 1 ELSE 0
           /\ \A k \in Positions : k <= Len(v) =>
                Key(v, k) >= 1 /\ (v[k] # Versions!Num(0) => Key(v, k) >= 2)
  <1> DEFINE t == Versions!Triple(v)
  <1>1. /\ Len(v) \in 1..3 /\ DOMAIN v = 1..Len(v) /\ \A k \in 1..Len(v) : ~v[k].word
    BY VersionFacts DEF Versions!IsSemver
  <1>2. t = [k \in 1..3 |-> IF k <= Len(v) THEN v[k] ELSE Versions!Num(0)]
    BY DEF Versions!Triple
  <1> HIDE DEF t
  <1>3. ASSUME NEW k \in 1..3
        PROVE  /\ t[k] = IF k <= Len(v) THEN v[k] ELSE Versions!Num(0)
               /\ t[k] = Versions!Num(t[k].value) /\ t[k].value \in Nat /\ ~t[k].word
    <2>1. t[k] = IF k <= Len(v) THEN v[k] ELSE Versions!Num(0)
      BY <1>2
    <2>2. CASE k <= Len(v)
      <3>1. k \in 1..Len(v)
        BY <1>1, <2>2
      <3>2. /\ v[k] = [word |-> v[k].word, value |-> v[k].value] /\ v[k].value \in Nat
            /\ v[k].word = FALSE
        BY <1>1, <3>1, VersionFacts
      <3>3. QED
        BY <2>1, <2>2, <3>2 DEF Versions!Num
    <2>3. CASE ~(k <= Len(v))
      BY <2>1, <2>3 DEF Versions!Num
    <2>4. QED
      BY <2>1, <2>2, <2>3
  <1>4. t \in Seq(Versions!ToSet(t)) /\ Len(t) = 3 /\ DOMAIN t = 1..3 /\ t # <<>>
    <2>1. DOMAIN t = 1..3
      BY <1>2
    <2> DEFINE X == Versions!ToSet(t)
    <2>2. \A k \in 1..3 : t[k] \in X
      BY <2>1 DEF Versions!ToSet
    <2>3. t = [k \in 1..3 |-> t[k]]
      BY <1>2, <2>1
    <2> HIDE DEF X
    <2>4. t \in [1..3 -> X]
      BY <2>2, <2>3
    <2>5. t \in Seq(X)
      <3>1. 3 \in Nat /\ Seq(X) = UNION {[1..n -> X] : n \in Nat}
        BY SeqDef
      <3>2. QED
        BY <2>4, <3>1
    <2>6. Len(t) = 3 /\ t # <<>>
      BY <2>1, <2>5
    <2>7. QED
      BY <2>1, <2>5, <2>6 DEF X
  <1>5. Versions!IsVersion(t)
    <2>1. \A s \in Versions!ToSet(t) : s = Versions!Num(s.value) /\ s.value \in Nat
      BY <1>3, <1>4 DEF Versions!ToSet
    <2>2. QED
      BY <1>4, <2>1 DEF Versions!IsVersion
  <1>6. PreRelease(t)
    BY <1>3, <1>4 DEF PreRelease, Versions!IsPostRelease
  <1>7. ASSUME NEW k \in Positions
        PROVE  Key(t, k) = IF k <= Len(v) THEN Key(v, k) ELSE IF k <= 3 THEN 1 ELSE 0
    <2>1. k \in Nat /\ k # 0 /\ Len(v) \in Nat /\ Len(v) <= 3
      BY <1>1 DEF Positions
    <2>2. CASE k <= Len(v)
      <3>1. k <= 3 /\ k \in 1..3 /\ ~(k > Len(v)) /\ ~(k > Len(t))
        BY <1>4, <2>1, <2>2
      <3>2. t[k] = v[k]
        BY <1>3, <2>2, <3>1
      <3>3. QED
        BY <2>2, <3>1, <3>2 DEF Key
    <2>3. CASE ~(k <= Len(v)) /\ k <= 3
      <3>1. k \in 1..3 /\ ~(k > Len(t))
        BY <1>4, <2>1, <2>3
      <3>2. t[k] = Versions!Num(0)
        BY <1>3, <2>3, <3>1
      <3>3. t[k].word = FALSE /\ t[k].value = 0
        BY <3>2 DEF Versions!Num
      <3>4. QED
        BY <2>3, <3>1, <3>3 DEF Key
    <2>4. CASE ~(k <= Len(v)) /\ ~(k <= 3)
      <3>1. k > Len(t)
        BY <1>4, <2>1, <2>4
      <3>2. QED
        BY <2>4, <3>1 DEF Key
    <2>5. QED
      BY <2>2, <2>3, <2>4
  <1>8. ASSUME NEW k \in Positions, k <= Len(v)
        PROVE  Key(v, k) >= 1 /\ (v[k] # Versions!Num(0) => Key(v, k) >= 2)
    <2>1. k \in 1..Len(v) /\ ~(k > Len(v))
      BY <1>1, <1>8 DEF Positions
    <2>2. v[k].value \in Nat /\ v[k].word = FALSE /\ v[k] = [word |-> v[k].word, value |-> v[k].value]
      BY <1>1, <2>1, VersionFacts
    <2>3. v[k].value = 0 => v[k] = Versions!Num(0)
      BY <2>2 DEF Versions!Num
    <2>4. Key(v, k) = v[k].value + 1
      BY <2>1, <2>2 DEF Key
    <2>5. QED
      BY <2>2, <2>3, <2>4
  <1>9. Versions!Leading(v) = Len(v)
    <2>1. {k \in DOMAIN v : \A l \in 1..k : ~v[l].word} = 1..Len(v)
      <3>1. \A k \in 1..Len(v) : \A l \in 1..k : l \in 1..Len(v)
        BY <1>1
      <3>2. QED
        BY <1>1, <3>1
    <2>2. Cardinality(1..Len(v)) = Len(v)
      <3>1. Len(v) \in Int /\ 1 \in Int /\ 1 <= Len(v)
        BY <1>1
      <3>2. Cardinality(1..Len(v)) = IF 1 > Len(v) THEN 0 ELSE Len(v) - 1 + 1
        BY <3>1, FS_Interval
      <3>3. QED
        BY <3>1, <3>2
    <2>3. Versions!Leading(v) = Cardinality({k \in DOMAIN v : \A l \in 1..k : ~v[l].word})
      BY DEF Versions!Leading, Versions!Cardinality, Cardinality
    <2>4. QED
      BY <2>1, <2>2, <2>3
  <1>10. QED
    BY <1>1, <1>5, <1>6, <1>7, <1>8, <1>9 DEF t

(* On comparable versions comparing is comparing these lists, also where   *)
(* versions are filled up with zeros.                                      *)
LEMMA CompareIsLexical ==
    ASSUME NEW V, Versions!Comparable(V), \A v \in V : Versions!IsVersion(v),
           NEW a \in V, NEW b \in V
    PROVE  Lexical(a, b, Versions!CompareVersions(a, b))
  <1>1. Versions!IsVersion(a) /\ Versions!IsVersion(b) /\ PreRelease(a) /\ PreRelease(b)
    BY DEF Versions!Comparable, PreRelease
  <1>2. CASE ~(Versions!IsSemver(a) /\ Versions!IsSemver(b))
    <2>1. Versions!CompareVersions(a, b) = Versions!NaturalCompare(a, b)
      BY <1>2 DEF Versions!CompareVersions
    <2>2. QED
      BY <1>1, <2>1, NaturalIsLexical
  <1>3. CASE Versions!IsSemver(a) /\ Versions!IsSemver(b)
    <2> DEFINE s == Versions!Triple(a)
               t == Versions!Triple(b)
               c == Versions!CompareVersions(a, b)
    <2>1. c = Versions!NaturalCompare(s, t)
      BY <1>3 DEF Versions!CompareVersions
    <2>2. Lexical(s, t, c)
      BY <1>1, <1>3, <2>1, TripleFacts, NaturalIsLexical
    <2>3. /\ Len(a) \in 1..3 /\ Len(b) \in 1..3
          /\ \A k \in Positions : /\ Key(s, k) = IF k <= Len(a) THEN Key(a, k) ELSE IF k <= 3 THEN 1 ELSE 0
                                  /\ Key(t, k) = IF k <= Len(b) THEN Key(b, k) ELSE IF k <= 3 THEN 1 ELSE 0
      BY <1>1, <1>3, TripleFacts
    <2>4. \A k \in Positions : \A v \in {a, b} :
             Key(v, k) \in Int /\ (k <= Len(v) => Key(v, k) >= 1) /\ (k > Len(v) => Key(v, k) = 0)
      <3>1. \A v \in {a, b} : Versions!IsVersion(v) /\ Versions!IsSemver(v)
        BY <1>1, <1>3
      <3>2. \A v \in {a, b} : \A k \in Positions : Key(v, k) \in Int
        BY <3>1, VersionFacts
      <3>3. \A v \in {a, b} : \A k \in Positions : k <= Len(v) => Key(v, k) >= 1
        BY <3>1, TripleFacts
      <3>4. \A v \in {a, b} : \A k \in Positions : k > Len(v) => Key(v, k) = 0
        BY DEF Key
      <3>5. QED
        BY <3>2, <3>3, <3>4
    <2>5. \/ Len(a) = Len(b)
          \/ \A k \in Positions : \A v \in {a, b} : k <= Len(v) => Key(v, k) >= 2
      <3>1. CASE \A v, w \in V : Versions!Leading(v) = Versions!Leading(w)
        BY <1>1, <1>3, <3>1, TripleFacts
      <3>2. CASE \A v \in V : \A k \in DOMAIN v : v[k] # Versions!Num(0)
        <4>1. ASSUME NEW v \in {a, b}, NEW k \in Positions, k <= Len(v) PROVE Key(v, k) >= 2
          <5>1. DOMAIN v = 1..Len(v) /\ Len(v) \in Nat
            BY <1>1, VersionFacts
          <5>2. k \in DOMAIN v
            BY <4>1, <5>1 DEF Positions
          <5>3. QED
            BY <1>1, <1>3, <3>2, <4>1, <5>2, TripleFacts
        <4>2. QED
          BY <4>1
      <3>3. QED
        BY <3>1, <3>2 DEF Versions!Comparable
    <2> HIDE DEF s, t, c
    <2>6. ASSUME NEW k \in Positions
          PROVE  /\ Key(s, k) = Key(t, k) <=> Key(a, k) = Key(b, k)
                 /\ Key(s, k) < Key(t, k) <=> Key(a, k) < Key(b, k)
                 /\ Key(t, k) < Key(s, k) <=> Key(b, k) < Key(a, k)
      <3> DEFINE ka == Key(a, k)
                 kb == Key(b, k)
                 ks == Key(s, k)
                 kt == Key(t, k)
                 la == Len(a)
                 lb == Len(b)
      <3>1. k \in Int /\ la \in Int /\ lb \in Int /\ la <= 3 /\ lb <= 3 /\ ka \in Int /\ kb \in Int
        <4>1. la \in 1..3 /\ lb \in 1..3
          BY <2>3
        <4>2. k \in Int
          BY DEF Positions
        <4>3. ka \in Int /\ kb \in Int
          BY <2>4
        <4> HIDE DEF la, lb, ka, kb
        <4>4. QED
          BY <4>1, <4>2, <4>3
      <3>2. /\ ks = IF k <= la THEN ka ELSE IF k <= 3 THEN 1 ELSE 0
            /\ kt = IF k <= lb THEN kb ELSE IF k <= 3 THEN 1 ELSE 0
        BY <2>3
      <3>3. /\ k > la => ka = 0
            /\ k > lb => kb = 0
            /\ k <= la => ka >= 1
            /\ k <= lb => kb >= 1
        BY <2>4
      <3>4. \/ la = lb
            \/ (k <= la => ka >= 2) /\ (k <= lb => kb >= 2)
        BY <2>5
      <3> HIDE DEF ka, kb, ks, kt, la, lb
      <3>5. /\ ks = kt <=> ka = kb
            /\ ks < kt <=> ka < kb
            /\ kt < ks <=> kb < ka
        <4>1. CASE k <= la /\ k <= lb
          BY <3>1, <3>2, <4>1
        <4>2. CASE k <= la /\ ~(k <= lb)
          BY <3>1, <3>2, <3>3, <3>4, <4>2
        <4>3. CASE ~(k <= la) /\ k <= lb
          BY <3>1, <3>2, <3>3, <3>4, <4>3
        <4>4. CASE ~(k <= la) /\ ~(k <= lb)
          BY <3>1, <3>2, <3>3, <4>4
        <4>5. QED
          BY <4>1, <4>2, <4>3, <4>4
      <3>6. QED
        BY <3>5 DEF ka, kb, ks, kt
    <2>7. \A k \in Positions : \A l \in 1..(k - 1) : l \in Positions
      BY DEF Positions
    <2>8. /\ Equal(s, t) => Equal(a, b)
          /\ Less(s, t) => Less(a, b)
          /\ Less(t, s) => Less(b, a)
      BY <2>6, <2>7 DEF Equal, Less, Same
    <2>9. QED
      BY <2>2, <2>8 DEF Lexical, c
  <1>4. QED
    BY <1>2, <1>3

(* On versions of one kind comparing is an order, for versions of any      *)
(* length: never both ways, and a chain of comparisons says what comparing *)
(* its ends says (compareEcosystemVersions, naturalCompare of vuln.go).    *)
THEOREM VersionsHaveAnOrder == AlgorithmsSpec => []VersionsAreOrdered
  <1>1. ASSUME NEW a, NEW b, NEW c, \A v \in {a, b, c} : Versions!IsVersion(v),
               Versions!Comparable({a, b, c})
        PROVE  Versions!Ordered(a, b, c)
    <2> DEFINE ab == Versions!CompareVersions(a, b)
               ba == Versions!CompareVersions(b, a)
               bc == Versions!CompareVersions(b, c)
               ac == Versions!CompareVersions(a, c)
    <2>1. Lexical(a, b, ab) /\ Lexical(b, a, ba) /\ Lexical(b, c, bc) /\ Lexical(a, c, ac)
      BY <1>1, CompareIsLexical
    <2> HIDE DEF ab, ba, bc, ac
    <2>2. ab = 0 - ba
      <3>1. ~(Less(a, b) /\ Less(b, a)) /\ ~(Less(a, b) /\ Equal(b, a)) /\ ~(Less(b, a) /\ Equal(a, b))
        BY <1>1, LexicalOrder
      <3>2. /\ Equal(a, b) => Equal(b, a)
            /\ Equal(b, a) => Equal(a, b)
        BY <1>1, LexicalOrder
      <3>3. CASE Equal(a, b) /\ ab = 0
        <4>1. ba = 0
          BY <2>1, <3>1, <3>2, <3>3 DEF Lexical
        <4>2. QED
          BY <3>3, <4>1
      <3>4. CASE Less(a, b) /\ ab = -1
        <4>1. ba = 1
          BY <2>1, <3>1, <3>4 DEF Lexical
        <4>2. QED
          BY <3>4, <4>1
      <3>5. CASE Less(b, a) /\ ab = 1
        <4>1. ba = -1
          BY <2>1, <3>1, <3>2, <3>5 DEF Lexical
        <4>2. QED
          BY <3>5, <4>1
      <3>6. QED
        BY <2>1, <3>3, <3>4, <3>5 DEF Lexical
    <2>3. ASSUME ab <= 0, bc <= 0
          PROVE  ac <= 0 /\ (ab < 0 \/ bc < 0 => ac < 0)
      <3>1. /\ ~(Less(a, c) /\ Less(c, a)) /\ ~(Less(a, c) /\ Equal(a, c)) /\ ~(Less(c, a) /\ Equal(a, c))
            /\ Equal(a, b) /\ Equal(b, c) => Equal(a, c)
            /\ Less(a, b) /\ Equal(b, c) => Less(a, c)
            /\ Equal(a, b) /\ Less(b, c) => Less(a, c)
            /\ Less(a, b) /\ Less(b, c) => Less(a, c)
        BY <1>1, LexicalOrder
      <3>2. (ab = 0 \/ ab = -1) /\ (bc = 0 \/ bc = -1)
        BY <2>1, <2>3 DEF Lexical
      <3>3. QED
        BY <2>1, <3>1, <3>2 DEF Lexical
    <2>4. QED
      BY <2>2, <2>3 DEF Versions!Ordered, ab, ba, bc, ac
  <1>2. AlgorithmsInit => VersionsAreOrdered
    <2> SUFFICES ASSUME AlgorithmsInit, part = "versions", NEW v \in SomeVersions,
                        Versions!Comparable({input[1], input[2], v})
                 PROVE  Versions!Ordered(input[1], input[2], v)
      BY DEF VersionsAreOrdered
    <2>1. input \in SomeVersions \X SomeVersions
      BY DEF AlgorithmsInit, InputsOf
    <2>2. QED
      BY <1>1, <2>1, VersionsAssumption
  <1>3. VersionsAreOrdered /\ [FALSE]_<<part, input>> => VersionsAreOrdered'
    BY DEF VersionsAreOrdered
  <1>4. QED
    BY <1>2, <1>3, PTL DEF AlgorithmsSpec

-----------------------------------------------------------------------------
(* Folds, and induction along a sequence.                                  *)

(* A set that holds 0 and, with a number below n, the next, holds 0 to n.  *)
LEMMA Upwards ==
    ASSUME NEW n \in Nat, NEW P, 0 \in P, \A k \in 0..(n - 1) : k \in P => k + 1 \in P
    PROVE  \A k \in 0..n : k \in P
  <1> SUFFICES ASSUME NEW j \in 0..n, j \notin P PROVE FALSE
    OBVIOUS
  <1> DEFINE S == {k \in 0..n : k \notin P}
  <1>1. S \in SUBSET Nat /\ S # {}
    OBVIOUS
  <1> HIDE DEF S
  <1>2. PICK x \in S : \A y \in S : x <= y
    BY <1>1, LeastNumber
  <1>3. x \in 0..n /\ x \notin P /\ x # 0
    BY DEF S
  <1>4. x - 1 \in 0..(n - 1) /\ x - 1 \in 0..n /\ ~(x <= x - 1) /\ (x - 1) + 1 = x
    BY <1>3
  <1>5. x - 1 \in P
    BY <1>2, <1>4 DEF S
  <1>6. QED
    BY <1>3, <1>4, <1>5

(* A set that holds n + 1 and, with a number above 1, the one before, holds*)
(* 1 to n + 1.                                                             *)
LEMMA Downwards ==
    ASSUME NEW n \in Nat, NEW P, n + 1 \in P, \A k \in 1..n : k + 1 \in P => k \in P
    PROVE  \A k \in 1..(n + 1) : k \in P
  <1> DEFINE Q == {k \in 0..n : (n + 1) - k \in P}
  <1>1. 0 \in Q
    <2>1. (n + 1) - 0 = n + 1 /\ 0 \in 0..n
      OBVIOUS
    <2>2. QED
      BY <2>1
  <1>2. ASSUME NEW k \in 0..(n - 1), k \in Q PROVE k + 1 \in Q
    <2> DEFINE j == (n + 1) - (k + 1)
    <2>1. j \in 1..n /\ j + 1 = (n + 1) - k /\ k + 1 \in 0..n
      OBVIOUS
    <2>2. (n + 1) - k \in P
      BY <1>2
    <2>3. j + 1 \in P
      BY <2>1, <2>2
    <2> HIDE DEF j
    <2>4. j \in P
      BY <2>1, <2>3
    <2>5. QED
      BY <2>1, <2>4 DEF j
  <1> HIDE DEF Q
  <1>3. \A k \in 0..n : k \in Q
    BY <1>1, <1>2, Upwards
  <1>4. ASSUME NEW k \in 1..(n + 1) PROVE k \in P
    <2>1. (n + 1) - k \in 0..n /\ (n + 1) - ((n + 1) - k) = k
      OBVIOUS
    <2>2. (n + 1) - ((n + 1) - k) \in P
      BY <1>3, <2>1 DEF Q
    <2>3. QED
      BY <2>1, <2>2
  <1>5. QED
    BY <1>4

(* The recursion of MapThenFoldSet has a solution: one on all sets of at   *)
(* most n elements gives one on all sets of at most n + 1.                 *)
Folds(g, W, base, pick, step) ==
    \A S \in W : g[S] = IF S = {} THEN base ELSE step[<<pick[S], g[S \ {pick[S]}]>>]

(* Every fold over the subsets of a finite set has a solution.             *)
LEMMA FoldExists ==
    ASSUME NEW U, IsFiniteSet(U), NEW V, NEW base \in V, NEW pick, NEW step \in [U \X V -> V],
           \A S \in SUBSET U : S # {} => pick[S] \in S
    PROVE  \E g \in [SUBSET U -> V] : Folds(g, SUBSET U, base, pick, step)
  <1> DEFINE Parts == SUBSET U
             UpTo(n) == {S \in Parts : Cardinality(S) <= n}
             P == {n \in Nat : \E g \in [UpTo(n) -> V] : Folds(g, UpTo(n), base, pick, step)}
             c == Cardinality(U)
  <1>1. \A S \in Parts : /\ IsFiniteSet(S) /\ Cardinality(S) \in Nat /\ Cardinality(S) <= c
                        /\ (Cardinality(S) = 0 <=> S = {})
    BY FS_Subset, FS_CardinalityType, FS_EmptySet
  <1>2. c \in Nat /\ {} \in Parts /\ \A S \in Parts : \A x : S \ {x} \in Parts
    BY FS_CardinalityType
  <1>0. \A S \in Parts : S # {} => pick[S] \in S /\ pick[S] \in U
    OBVIOUS
  <1> HIDE DEF Parts
  <1> HIDE DEF c
  <1>3. 0 \in P
    <2> DEFINE g == [S \in UpTo(0) |-> base]
    <2>1. \A S \in UpTo(0) : S = {}
      <3>1. ASSUME NEW S \in Parts, Cardinality(S) <= 0 PROVE S = {}
        <4>1. Cardinality(S) \in Nat
          BY <1>1
        <4>2. Cardinality(S) = 0
          BY <3>1, <4>1
        <4>3. QED
          BY <1>1, <4>2
      <3>2. QED
        BY <3>1
    <2> HIDE DEF UpTo
    <2>2. g \in [UpTo(0) -> V] /\ Folds(g, UpTo(0), base, pick, step)
      BY <2>1 DEF Folds
    <2>3. QED
      BY <2>2
  <1>4. ASSUME NEW n \in 0..(c - 1), n \in P PROVE n + 1 \in P
    <2>1. PICK g \in [UpTo(n) -> V] : Folds(g, UpTo(n), base, pick, step)
      BY <1>4
    <2> DEFINE h == [S \in UpTo(n + 1) |-> IF S \in UpTo(n) THEN g[S]
                                           ELSE step[<<pick[S], g[S \ {pick[S]}]>>]]
    <2>2. \A S \in UpTo(n + 1) : S \in Parts
      OBVIOUS
    <2>3. ASSUME NEW S \in UpTo(n + 1), S # {}
          PROVE  pick[S] \in S /\ pick[S] \in U /\ S \ {pick[S]} \in UpTo(n)
      <3>1. pick[S] \in S /\ pick[S] \in U
        BY <1>0, <2>3
      <3>2. Cardinality(S \ {pick[S]}) = Cardinality(S) - 1
        <4>1. IsFiniteSet(S)
          BY <1>1
        <4>2. QED
          BY <3>1, <4>1, FS_RemoveElement
      <3>3. Cardinality(S) <= n + 1 /\ Cardinality(S) \in Nat /\ n \in Int
        BY <1>1
      <3>4. Cardinality(S \ {pick[S]}) <= n
        BY <3>2, <3>3
      <3>5. QED
        BY <1>2, <3>1, <3>4
    <2>4. UpTo(n) \subseteq UpTo(n + 1) /\ {} \in UpTo(n)
      <3>1. {} \in Parts /\ Cardinality({}) = 0 /\ n \in Nat
        BY <1>1, <1>2
      <3>2. \A S \in Parts : Cardinality(S) <= n => Cardinality(S) <= n + 1
        BY <1>1
      <3>3. QED
        BY <3>1, <3>2
    <2>5. n + 1 \in Nat
      OBVIOUS
    <2> HIDE DEF UpTo
    <2>6. ASSUME NEW S \in UpTo(n + 1) PROVE h[S] \in V
      <3>1. CASE S \in UpTo(n)
        BY <3>1
      <3>2. CASE S \notin UpTo(n)
        <4>1. S # {}
          BY <2>4, <3>2
        <4>2. <<pick[S], g[S \ {pick[S]}]>> \in U \X V
          BY <2>3, <4>1
        <4>3. QED
          BY <3>2, <4>2
      <3>3. QED
        BY <3>1, <3>2
    <2>7. ASSUME NEW S \in UpTo(n + 1)
          PROVE  h[S] = IF S = {} THEN base ELSE step[<<pick[S], h[S \ {pick[S]}]>>]
      <3>1. CASE S = {}
        BY <2>1, <2>4, <3>1 DEF Folds
      <3>2. CASE S # {}
        <4>1. h[S \ {pick[S]}] = g[S \ {pick[S]}]
          BY <2>3, <2>4, <3>2
        <4>2. h[S] = step[<<pick[S], g[S \ {pick[S]}]>>]
          BY <2>1, <3>2 DEF Folds
        <4>3. QED
          BY <3>2, <4>1, <4>2
      <3>3. QED
        BY <3>1, <3>2
    <2>8. h \in [UpTo(n + 1) -> V] /\ Folds(h, UpTo(n + 1), base, pick, step)
      <3>1. h \in [UpTo(n + 1) -> V]
        BY <2>6
      <3> HIDE DEF h
      <3>2. QED
        BY <2>7, <3>1 DEF Folds
    <2>9. QED
      BY <2>5, <2>8
  <1>5. c \in P
    <2> HIDE DEF P
    <2>1. \A k \in 0..c : k \in P
      BY <1>2, <1>3, <1>4, Upwards
    <2>2. QED
      BY <1>2, <2>1
  <1>6. UpTo(c) = Parts
    <2>1. \A S \in Parts : Cardinality(S) <= c
      BY <1>1
    <2>2. QED
      BY <2>1
  <1>7. QED
    <2>1. \E g \in [UpTo(c) -> V] : Folds(g, UpTo(c), base, pick, step)
      BY <1>5
    <2> HIDE DEF UpTo
    <2>2. \E g \in [Parts -> V] : Folds(g, Parts, base, pick, step)
      BY <1>6, <2>1
    <2>3. QED
      BY <2>2 DEF Parts

(* The least element of a set of places, which a fold from the right takes *)
(* first, and the greatest, for a fold from the left.                      *)
Least(S) == CHOOSE x \in S : \A y \in S : x <= y
Greatest(S) == CHOOSE x \in S : \A y \in S : x >= y

(* A set of indices that is not empty has a least one.                     *)
LEMMA LeastPlace ==
    ASSUME NEW n \in Nat, NEW S \in SUBSET (1..n), S # {}
    PROVE  Least(S) \in S
  <1>1. \E x \in S : \A y \in S : x <= y
    <2>1. S \in SUBSET Nat
      OBVIOUS
    <2>2. QED
      BY <2>1, LeastNumber
  <1>2. QED
    BY <1>1 DEF Least

(* It has a greatest one.                                                  *)
LEMMA GreatestPlace ==
    ASSUME NEW n \in Nat, NEW S \in SUBSET (1..n), S # {}
    PROVE  Greatest(S) \in S /\ \A y \in S : y <= Greatest(S)
  <1> DEFINE T == {n - y : y \in S}
  <1>1. S \subseteq Nat /\ T \in SUBSET Nat /\ T # {}
    <2>1. \A y \in S : y \in Nat /\ n - y \in Nat
      OBVIOUS
    <2>2. QED
      BY <2>1
  <1> HIDE DEF T
  <1>2. PICK z \in T : \A y \in T : z <= y
    BY <1>1, LeastNumber
  <1>3. PICK x \in S : z = n - x
    BY DEF T
  <1>4. ASSUME NEW y \in S PROVE x >= y
    <2>1. n - x <= n - y
      BY <1>2, <1>3 DEF T
    <2>2. x \in Nat /\ y \in Nat
      BY <1>1
    <2>3. QED
      BY <2>1, <2>2
  <1> DEFINE g == Greatest(S)
  <1>5. g \in S /\ \A y \in S : g >= y
    BY <1>4 DEF Greatest
  <1> HIDE DEF g
  <1>6. \A y \in S : y <= g
    BY <1>1, <1>5
  <1>7. QED
    BY <1>5, <1>6 DEF g

(* Of the indices from k on, the least is k.                               *)
LEMMA FirstPlace ==
    ASSUME NEW n \in Nat, NEW k \in 1..n
    PROVE  /\ k..n \in SUBSET (1..n) /\ k..n # {} /\ Least(k..n) = k
           /\ (k..n) \ {k} = (k + 1)..n
  <1>1. k \in k..n /\ \A y \in k..n : k <= y /\ y \in Nat
    OBVIOUS
  <1>2. \A x \in k..n : (\A y \in k..n : x <= y) => x = k
    OBVIOUS
  <1>3. Least(k..n) = k
    <2> DEFINE S == k..n
    <2> HIDE DEF S
    <2>1. k \in S /\ (\A y \in S : k <= y) /\ \A x \in S : (\A y \in S : x <= y) => x = k
      BY <1>1, <1>2 DEF S
    <2>2. Least(S) = k
      BY <2>1 DEF Least
    <2>3. QED
      BY <2>2 DEF S
  <1>4. (k..n) \ {k} = (k + 1)..n /\ k..n \in SUBSET (1..n)
    OBVIOUS
  <1>5. QED
    BY <1>1, <1>3, <1>4

(* Of the indices up to k, the greatest is k.                              *)
LEMMA LastPlace ==
    ASSUME NEW n \in Nat, NEW k \in 1..n
    PROVE  /\ 1..k \in SUBSET (1..n) /\ 1..k # {} /\ Greatest(1..k) = k
           /\ (1..k) \ {k} = 1..(k - 1)
  <1>1. k \in 1..k /\ \A y \in 1..k : k >= y
    OBVIOUS
  <1>2. \A x \in 1..k : (\A y \in 1..k : x >= y) => x = k
    OBVIOUS
  <1>3. Greatest(1..k) = k
    <2> DEFINE S == 1..k
    <2> HIDE DEF S
    <2>1. k \in S /\ (\A y \in S : k >= y) /\ \A x \in S : (\A y \in S : x >= y) => x = k
      BY <1>1, <1>2 DEF S
    <2>2. Greatest(S) = k
      BY <2>1 DEF Greatest
    <2>3. QED
      BY <2>2 DEF S
  <1>4. (1..k) \ {k} = 1..(k - 1) /\ 1..k \in SUBSET (1..n)
    OBVIOUS
  <1>5. QED
    BY <1>1, <1>3, <1>4

(* Both folds of a sequence of n elements have a solution with values in V,*)
(* if step gives values in V.                                              *)
FoldsRight(g, n, V, base, step) ==
    /\ g \in [SUBSET (1..n) -> V] /\ g[{}] = base
    /\ \A S \in SUBSET (1..n) : S # {} =>
          /\ Least(S) \in 1..n /\ g[S \ {Least(S)}] \in V
          /\ g[S] = step[<<Least(S), g[S \ {Least(S)}]>>]
FoldsLeft(g, n, V, base, step) ==
    /\ g \in [SUBSET (1..n) -> V] /\ g[{}] = base
    /\ \A S \in SUBSET (1..n) : S # {} =>
          /\ Greatest(S) \in 1..n /\ g[S \ {Greatest(S)}] \in V
          /\ g[S] = step[<<Greatest(S), g[S \ {Greatest(S)}]>>]

(* A fold that takes the first element last has a solution.                *)
LEMMA RightFold ==
    ASSUME NEW n \in Nat, NEW V, NEW base \in V, NEW step \in [(1..n) \X V -> V]
    PROVE  \E g : FoldsRight(g, n, V, base, step)
  <1> DEFINE All == SUBSET (1..n)
             pick == [S \in All |-> Least(S)]
  <1>1. IsFiniteSet(1..n)
    BY FS_Interval
  <1>2. \A S \in All : S # {} => Least(S) \in S /\ pick[S] = Least(S)
    BY LeastPlace
  <1> HIDE DEF pick
  <1>3. PICK g \in [All -> V] : Folds(g, All, base, pick, step)
    <2> DEFINE U == 1..n
    <2>1. \A S \in SUBSET U : S # {} => pick[S] \in S
      BY <1>2
    <2>2. IsFiniteSet(U) /\ base \in V /\ step \in [U \X V -> V]
      BY <1>1
    <2> HIDE DEF U
    <2>3. \E g \in [SUBSET U -> V] : Folds(g, SUBSET U, base, pick, step)
      BY <2>1, <2>2, FoldExists
    <2>4. QED
      BY <2>3 DEF U
  <1>4. {} \in All /\ \A S \in All : \A x : S \ {x} \in All
    OBVIOUS
  <1>5. \A S \in All : S # {} => Least(S) \in 1..n
    BY <1>2
  <1> HIDE DEF All
  <1>6. QED
    <2>1. g[{}] = base
      BY <1>3, <1>4 DEF Folds
    <2>2. \A S \in All : S # {} =>
             /\ Least(S) \in 1..n /\ g[S \ {Least(S)}] \in V
             /\ g[S] = step[<<Least(S), g[S \ {Least(S)}]>>]
      BY <1>2, <1>3, <1>4, <1>5 DEF Folds
    <2>3. FoldsRight(g, n, V, base, step)
      BY <1>3, <2>1, <2>2 DEF All, FoldsRight
    <2>4. QED
      BY <2>3

(* A fold that takes the last element last has one.                        *)
LEMMA LeftFold ==
    ASSUME NEW n \in Nat, NEW V, NEW base \in V, NEW step \in [(1..n) \X V -> V]
    PROVE  \E g : FoldsLeft(g, n, V, base, step)
  <1> DEFINE All == SUBSET (1..n)
             pick == [S \in All |-> Greatest(S)]
  <1>1. IsFiniteSet(1..n)
    BY FS_Interval
  <1>2. \A S \in All : S # {} => Greatest(S) \in S /\ pick[S] = Greatest(S)
    BY GreatestPlace
  <1> HIDE DEF pick
  <1>3. PICK g \in [All -> V] : Folds(g, All, base, pick, step)
    <2> DEFINE U == 1..n
    <2>1. \A S \in SUBSET U : S # {} => pick[S] \in S
      BY <1>2
    <2>2. IsFiniteSet(U) /\ base \in V /\ step \in [U \X V -> V]
      BY <1>1
    <2> HIDE DEF U
    <2>3. \E g \in [SUBSET U -> V] : Folds(g, SUBSET U, base, pick, step)
      BY <2>1, <2>2, FoldExists
    <2>4. QED
      BY <2>3 DEF U
  <1>4. {} \in All /\ \A S \in All : \A x : S \ {x} \in All
    OBVIOUS
  <1>5. \A S \in All : S # {} => Greatest(S) \in 1..n
    BY <1>2
  <1> HIDE DEF All
  <1>6. QED
    <2>1. g[{}] = base
      BY <1>3, <1>4 DEF Folds
    <2>2. \A S \in All : S # {} =>
             /\ Greatest(S) \in 1..n /\ g[S \ {Greatest(S)}] \in V
             /\ g[S] = step[<<Greatest(S), g[S \ {Greatest(S)}]>>]
      BY <1>2, <1>3, <1>4, <1>5 DEF Folds
    <2>3. FoldsLeft(g, n, V, base, step)
      BY <1>3, <2>1, <2>2 DEF All, FoldsLeft
    <2>4. QED
      BY <2>3

-----------------------------------------------------------------------------
(* Scripts.  What IterateExpression makes of a link and what is right of   *)
(* it, and what Finds makes of them for one node.                          *)
Values == [is : {"set", "nil", "panic", "error"}, nodes : SUBSET NodeNames]
Operators == {"and", "or", "xor", "none"}
IsLink(l) == l.term \in Values /\ l.op \in Operators

Joined(link, right) ==
    IF link.term.is # "set" \/ link.op = "none" THEN link.term
    ELSE IF right.is = "nil" THEN QueryLang!Outcome("panic")
    ELSE IF right.is # "set" THEN right
    ELSE QueryLang!Sets(QueryLang!Combine(link.op, link.term.nodes, right.nodes))

Kept(link, right, default, m) ==
    IF link.op = "none" THEN QueryLang!FoundByTerm(link.term, default, m)
    ELSE QueryLang!Holds(link.op, QueryLang!FoundByTerm(link.term, default, m), right)

(* What a link makes of what is right of it is a value.                    *)
LEMMA JoinedIsValue ==
    ASSUME NEW link, IsLink(link), NEW right \in Values
    PROVE  Joined(link, right) \in Values
  <1>1. QueryLang!Outcome("panic") \in Values
    BY DEF QueryLang!Outcome, Values
  <1>2. ASSUME link.op # "none"
        PROVE  QueryLang!Sets(QueryLang!Combine(link.op, link.term.nodes, right.nodes)) \in Values
    <2>1. link.term.nodes \in SUBSET NodeNames /\ right.nodes \in SUBSET NodeNames
      BY DEF IsLink, Values
    <2>2. QueryLang!Combine(link.op, link.term.nodes, right.nodes) \in SUBSET NodeNames
      <3>1. CASE link.op = "and"
        BY <2>1, <3>1 DEF QueryLang!Combine
      <3>2. CASE link.op = "or"
        BY <2>1, <3>2 DEF QueryLang!Combine
      <3>3. CASE link.op = "xor"
        BY <2>1, <3>3 DEF QueryLang!Combine
      <3>4. QED
        BY <1>2, <3>1, <3>2, <3>3 DEF IsLink, Operators
    <2> HIDE DEF QueryLang!Combine
    <2>3. QED
      BY <2>2 DEF QueryLang!Sets, Values
  <1>3. QED
    BY <1>1, <1>2 DEF Joined, IsLink

(* A fold from the right is a row of values, each made of the next.        *)
IsExpressionRow(r, n, links) ==
    /\ r[n + 1] = QueryLang!Outcome("nil")
    /\ \A k \in 1..n : r[k] = Joined(links[k], r[k + 1])
    /\ QueryLang!IterateExpression(links) = r[1]
IsSetRow(r, n, links) ==
    /\ QueryLang!IterateExpression(links) = r[1]
    /\ \A k \in 1..n : r[k] \in Values /\ r[k].is = "set"
    /\ r[n] = links[n].term
    /\ \A k \in 1..n : k # n =>
          r[k] = QueryLang!Sets(QueryLang!Combine(links[k].op, links[k].term.nodes,
                                                  r[k + 1].nodes))
IsKeptRow(f, n, links, default, m) ==
    /\ f[n + 1] = FALSE
    /\ \A k \in 1..n : f[k] = Kept(links[k], f[k + 1], default, m)
    /\ QueryLang!Finds(links, default, m) = f[1]

(* IterateExpression, a fold from the right, is the first of a row of      *)
(* values, in which each comes from the one behind it.                     *)
LEMMA ExpressionRow ==
    ASSUME NEW n \in Nat, NEW links, DOMAIN links = 1..n, \A k \in 1..n : IsLink(links[k])
    PROVE  \E r : IsExpressionRow(r, n, links)
  <1> DEFINE nil == QueryLang!Outcome("nil")
             All == SUBSET (1..n)
             step == [p \in (1..n) \X Values |-> Joined(links[p[1]], p[2])]
             IsFold(iter) ==
                iter = [S \in All |-> IF S = {} THEN nil
                                      ELSE Joined(links[Least(S)],
                                                  iter[S \ {Least(S)}])]
             iter == CHOOSE iter : IsFold(iter)
  <1>1. \E g : IsFold(g)
    <2>1. nil \in Values
      BY DEF QueryLang!Outcome, Values
    <2>2. step \in [(1..n) \X Values -> Values]
      <3>1. ASSUME NEW p \in (1..n) \X Values PROVE Joined(links[p[1]], p[2]) \in Values
        <4>1. p[1] \in 1..n /\ p[2] \in Values
          BY <3>1
        <4>2. IsLink(links[p[1]])
          BY <4>1
        <4>3. QED
          BY <4>1, <4>2, JoinedIsValue
      <3>2. QED
        BY <3>1
    <2> HIDE DEF step, nil
    <2>3. PICK g : FoldsRight(g, n, Values, nil, step)
      BY <2>1, <2>2, RightFold
    <2>4. ASSUME NEW S \in All, S # {}
          PROVE  g[S] = Joined(links[Least(S)], g[S \ {Least(S)}])
      <3> DEFINE k == Least(S)
                 v == g[S \ {k}]
      <3>1. k \in 1..n /\ v \in Values /\ g[S] = step[<<k, v>>]
        BY <2>3, <2>4 DEF FoldsRight
      <3> HIDE DEF k, v
      <3>2. step[<<k, v>>] = Joined(links[k], v)
        BY <3>1 DEF step
      <3>3. QED
        BY <3>1, <3>2 DEF k, v
    <2>5. g \in [All -> Values] /\ g[{}] = nil
      BY <2>3 DEF FoldsRight
    <2> HIDE DEF All
    <2>6. IsFold(g)
      BY <2>4, <2>5
    <2>7. QED
      BY <2>6
  <1>2. IsFold(iter)
    <2> HIDE DEF IsFold
    <2>1. QED
      BY <1>1
  <1>3. QueryLang!IterateExpression(links) = iter[1..n]
    BY DEF QueryLang!IterateExpression, QueryLang!FoldRight, QueryLang!MapThenFoldSet, QueryLang!Min, Joined,
           Least
  <1> DEFINE r == [k \in 1..(n + 1) |-> iter[k..n]]
  <1> HIDE DEF iter
  <1>4. r[n + 1] = nil
    <2>1. (n + 1)..n = {} /\ {} \in All /\ n + 1 \in 1..(n + 1)
      OBVIOUS
    <2>2. iter[{}] = nil
      BY <1>2, <2>1
    <2>3. QED
      BY <2>1, <2>2
  <1>5. ASSUME NEW k \in 1..n PROVE r[k] = Joined(links[k], r[k + 1])
    <2> DEFINE S == k..n
    <2>1. S \in All /\ S # {} /\ Least(S) = k /\ S \ {k} = (k + 1)..n
      BY FirstPlace
    <2>2. r[k] = iter[S] /\ r[k + 1] = iter[(k + 1)..n]
      OBVIOUS
    <2> HIDE DEF S, r, All, nil
    <2>3. iter[S] = Joined(links[k], iter[S \ {k}])
      BY <1>2, <2>1
    <2>4. QED
      BY <2>1, <2>2, <2>3
  <1>6. QueryLang!IterateExpression(links) = r[1]
    BY <1>3
  <1> HIDE DEF r
  <1>7. IsExpressionRow(r, n, links)
    BY <1>4, <1>5, <1>6 DEF IsExpressionRow
  <1>8. QED
    BY <1>7

(* Whether a node is kept is yes or no.                                    *)
LEMMA KeptIsBoolean ==
    ASSUME NEW link, link.op \in Operators, link.term.is = "query",
           NEW right \in BOOLEAN, NEW default, NEW m
    PROVE  Kept(link, right, default, m) \in BOOLEAN
  <1>1. QueryLang!FoundByTerm(link.term, default, m) \in BOOLEAN
    BY DEF QueryLang!FoundByTerm, QueryLang!FoundByQuery
  <1> DEFINE a == QueryLang!FoundByTerm(link.term, default, m)
  <1> HIDE DEF a
  <1>2. link.op # "none" => QueryLang!Holds(link.op, a, right) \in BOOLEAN
    <2>1. CASE link.op = "and"
      BY <2>1 DEF QueryLang!Holds
    <2>2. CASE link.op = "or"
      BY <2>2 DEF QueryLang!Holds
    <2>3. CASE link.op = "xor"
      BY <2>3 DEF QueryLang!Holds
    <2>4. QED
      BY <2>1, <2>2, <2>3 DEF Operators
  <1>3. QED
    BY <1>1, <1>2 DEF Kept, a

(* Finds is the first of such a row as well, if no term is a group.        *)
LEMMA KeptRow ==
    ASSUME NEW n \in Nat, NEW links, DOMAIN links = 1..n,
           \A k \in 1..n : links[k].op \in Operators /\ links[k].term.is = "query",
           NEW default, NEW m
    PROVE  \E f : IsKeptRow(f, n, links, default, m)
  <1> DEFINE nil == FALSE
             All == SUBSET (1..n)
             step == [p \in (1..n) \X BOOLEAN |-> Kept(links[p[1]], p[2], default, m)]
             IsFold(iter) ==
                iter = [S \in All |-> IF S = {} THEN nil
                                      ELSE Kept(links[Least(S)],
                                                iter[S \ {Least(S)}], default, m)]
             iter == CHOOSE iter : IsFold(iter)
  <1>1. \E g : IsFold(g)
    <2>1. nil \in BOOLEAN
      OBVIOUS
    <2>2. step \in [(1..n) \X BOOLEAN -> BOOLEAN]
      <3>1. ASSUME NEW p \in (1..n) \X BOOLEAN PROVE Kept(links[p[1]], p[2], default, m) \in BOOLEAN
        <4>1. p[1] \in 1..n /\ p[2] \in BOOLEAN
          BY <3>1
        <4>2. links[p[1]].op \in Operators /\ links[p[1]].term.is = "query"
          BY <4>1
        <4>3. QED
          BY <4>1, <4>2, KeptIsBoolean
      <3>2. QED
        BY <3>1
    <2> HIDE DEF step, nil
    <2>3. PICK g : FoldsRight(g, n, BOOLEAN, nil, step)
      BY <2>1, <2>2, RightFold
    <2>4. ASSUME NEW S \in All, S # {}
          PROVE  g[S] = Kept(links[Least(S)], g[S \ {Least(S)}], default, m)
      <3> DEFINE k == Least(S)
                 v == g[S \ {k}]
      <3>1. k \in 1..n /\ v \in BOOLEAN /\ g[S] = step[<<k, v>>]
        BY <2>3, <2>4 DEF FoldsRight
      <3> HIDE DEF k, v
      <3>2. step[<<k, v>>] = Kept(links[k], v, default, m)
        BY <3>1 DEF step
      <3>3. QED
        BY <3>1, <3>2 DEF k, v
    <2>5. g \in [All -> BOOLEAN] /\ g[{}] = nil
      BY <2>3 DEF FoldsRight
    <2> HIDE DEF All
    <2>6. IsFold(g)
      BY <2>4, <2>5
    <2>7. QED
      BY <2>6
  <1>2. IsFold(iter)
    <2> HIDE DEF IsFold
    <2>1. QED
      BY <1>1
  <1>3. QueryLang!Finds(links, default, m) = iter[1..n]
    BY DEF QueryLang!Finds, QueryLang!Means, QueryLang!FoldRight, QueryLang!MapThenFoldSet,
           QueryLang!Min, Kept, Least
  <1> DEFINE r == [k \in 1..(n + 1) |-> iter[k..n]]
  <1> HIDE DEF iter
  <1>4. r[n + 1] = nil
    <2>1. (n + 1)..n = {} /\ {} \in All /\ n + 1 \in 1..(n + 1)
      OBVIOUS
    <2>2. iter[{}] = nil
      BY <1>2, <2>1
    <2>3. QED
      BY <2>1, <2>2
  <1>5. ASSUME NEW k \in 1..n PROVE r[k] = Kept(links[k], r[k + 1], default, m)
    <2> DEFINE S == k..n
    <2>1. S \in All /\ S # {} /\ Least(S) = k /\ S \ {k} = (k + 1)..n
      BY FirstPlace
    <2>2. r[k] = iter[S] /\ r[k + 1] = iter[(k + 1)..n]
      OBVIOUS
    <2> HIDE DEF S, r, All, nil
    <2>3. iter[S] = Kept(links[k], iter[S \ {k}], default, m)
      BY <1>2, <2>1
    <2>4. QED
      BY <2>1, <2>2, <2>3
  <1>6. QueryLang!Finds(links, default, m) = r[1]
    BY <1>3
  <1> HIDE DEF r
  <1>7. IsKeptRow(r, n, links, default, m)
    BY <1>4, <1>5, <1>6 DEF IsKeptRow
  <1>8. QED
    BY <1>7

(* Without a missing operator, and with sets for all terms, every part on  *)
(* the right is a set.                                                     *)
LEMMA ChainRow ==
    ASSUME NEW n \in Nat \ {0}, NEW links, DOMAIN links = 1..n,
           \A k \in 1..n : /\ IsLink(links[k]) /\ links[k].term.is = "set"
                           /\ (links[k].op = "none" <=> k = n)
    PROVE  \E r : IsSetRow(r, n, links)
  <1>0. PICK r : IsExpressionRow(r, n, links)
    <2>1. n \in Nat /\ \A k \in 1..n : IsLink(links[k])
      OBVIOUS
    <2>2. QED
      BY <2>1, ExpressionRow
  <1>1. /\ \A k \in 1..n : r[k] = Joined(links[k], r[k + 1])
        /\ QueryLang!IterateExpression(links) = r[1]
    BY <1>0 DEF IsExpressionRow
  <1> DEFINE P == {k \in 1..(n + 1) : k <= n => r[k] \in Values /\ r[k].is = "set"}
  <1>2. n \in 1..n /\ n \in Nat /\ r[n] = links[n].term
    <2>1. n \in 1..n
      OBVIOUS
    <2>2. QED
      BY <1>1, <2>1 DEF Joined
  <1>3. n + 1 \in P
    <2>1. n + 1 \in 1..(n + 1) /\ ~(n + 1 <= n)
      OBVIOUS
    <2>2. QED
      BY <2>1
  <1>4. ASSUME NEW k \in 1..n, k # n, k + 1 \in P
        PROVE  /\ r[k] = QueryLang!Sets(QueryLang!Combine(links[k].op, links[k].term.nodes,
                                                          r[k + 1].nodes))
               /\ r[k] \in Values /\ r[k].is = "set"
    <2>1. k + 1 <= n
      BY <1>4
    <2>2. r[k + 1] \in Values /\ r[k + 1].is = "set"
      BY <1>4, <2>1
    <2>3. links[k].term.is = "set" /\ links[k].op # "none" /\ IsLink(links[k])
      BY <1>4
    <2>4. Joined(links[k], r[k + 1]) \in Values
      BY <2>2, <2>3, JoinedIsValue
    <2> HIDE DEF P
    <2>5. r[k] = QueryLang!Sets(QueryLang!Combine(links[k].op, links[k].term.nodes, r[k + 1].nodes))
      BY <1>1, <2>2, <2>3 DEF Joined
    <2>6. r[k].is = "set"
      BY <2>5 DEF QueryLang!Sets
    <2>7. QED
      BY <1>1, <2>4, <2>5, <2>6
  <1>5. ASSUME NEW k \in 1..n, k + 1 \in P PROVE k \in P
    <2>1. k \in 1..(n + 1)
      OBVIOUS
    <2>2. r[k] \in Values /\ r[k].is = "set"
      <3>1. CASE k = n
        BY <1>2, <3>1 DEF IsLink
      <3>2. CASE k # n
        BY <1>4, <1>5, <3>2
      <3>3. QED
        BY <3>1, <3>2
    <2>3. QED
      BY <2>1, <2>2
  <1>6. \A k \in 1..(n + 1) : k \in P
    <2> HIDE DEF P
    <2>1. QED
      BY <1>2, <1>3, <1>5, Downwards
  <1>7. \A k \in 1..n : k + 1 \in 1..(n + 1) /\ k \in 1..(n + 1) /\ k <= n
    OBVIOUS
  <1>8. \A k \in 1..n : r[k] \in Values /\ r[k].is = "set"
    BY <1>6, <1>7
  <1>9. \A k \in 1..n : k # n => r[k] = QueryLang!Sets(QueryLang!Combine(links[k].op,
                                          links[k].term.nodes, r[k + 1].nodes))
    <2> HIDE DEF P
    <2>1. QED
      BY <1>4, <1>6, <1>7
  <1>10. QED
    BY <1>1, <1>2, <1>8, <1>9 DEF IsSetRow

(* A query that can be answered, and links with an operator between them.  *)
IsKnown(q, default) == q.type \in QueryLang!QueryTypes /\ QueryLang!NameIn(q, default) \in NodeNames
IsChain(links) == \A k \in DOMAIN links : (links[k].op = "none") = (k = Len(links))

(* What a query that runs finds: the nodes that its node reaches, of its   *)
(* type.                                                                   *)
LEMMA QueryValue ==
    ASSUME NEW q, NEW default, IsKnown(q, default)
    PROVE  /\ QueryLang!IterateQuery(q, default) \in Values
           /\ QueryLang!IterateQuery(q, default).is = "set"
           /\ \A m : m \in QueryLang!IterateQuery(q, default).nodes <=>
                        /\ m \in Reached[q.type][QueryLang!NameIn(q, default)]
                        /\ TypeOf[m] = q.nodeType
  <1> DEFINE R == Reached[q.type][QueryLang!NameIn(q, default)]
             S == {m \in R : TypeOf[m] = q.nodeType}
  <1>1. QueryLang!IterateQuery(q, default) = [is |-> "set", nodes |-> S]
    BY DEF QueryLang!IterateQuery, QueryLang!Sets, IsKnown
  <1>2. R \subseteq NodeNames
    BY QueriesAssumption DEF IsKnown, QueryLang!QueryTypes
  <1>3. S \subseteq NodeNames /\ \A m : m \in S <=> m \in R /\ TypeOf[m] = q.nodeType
    BY <1>2
  <1> HIDE DEF S, R
  <1>4. QED
    BY <1>1, <1>3 DEF Values, R

(* The links of a script or a group are a sequence of terms with operators.*)
LEMMA LinksOf ==
    ASSUME NEW links, QueryLang!IsExpression(links)
    PROVE  /\ Len(links) \in Nat \ {0} /\ DOMAIN links = 1..Len(links)
           /\ \A k \in 1..Len(links) :
                /\ links[k] \in QueryLang!ToSet(links) /\ links[k].op \in Operators
                /\ links[k] = [term |-> links[k].term, op |-> links[k].op]
  <1>1. links \in Seq(QueryLang!ToSet(links)) /\ links # <<>>
    BY DEF QueryLang!IsExpression
  <1>2. Len(links) \in Nat \ {0} /\ DOMAIN links = 1..Len(links)
    BY <1>1
  <1>3. \A k \in 1..Len(links) : links[k] \in QueryLang!ToSet(links)
    BY <1>2 DEF QueryLang!ToSet
  <1>4. QED
    BY <1>2, <1>3 DEF QueryLang!IsExpression, Operators

(* A group of known queries gives the empty set, whatever they find.       *)
LEMMA GroupValue ==
    ASSUME NEW term, term.is = "group", QueryLang!IsExpression(term.links), IsChain(term.links),
           NEW default, \A l \in QueryLang!ToSet(term.links) : IsKnown(l.term, default)
    PROVE  QueryLang!IterateTerm(term, default) = QueryLang!Sets({})
  <1> DEFINE links == term.links
             n == Len(links)
             inner == [k \in DOMAIN links |->
                         [links[k] EXCEPT !.term = QueryLang!IterateQuery(@, default)]]
  <1>1. n \in Nat \ {0} /\ DOMAIN inner = 1..n /\ DOMAIN links = 1..n
    BY LinksOf
  <1>2. ASSUME NEW k \in 1..n
        PROVE  /\ IsLink(inner[k]) /\ inner[k].term.is = "set"
               /\ (inner[k].op = "none" <=> k = n)
    <2> DEFINE l == links[k]
               v == QueryLang!IterateQuery(l.term, default)
    <2>1. l = [term |-> l.term, op |-> l.op] /\ l.op \in Operators /\ l \in QueryLang!ToSet(links)
      BY LinksOf
    <2>2. inner[k] = [l EXCEPT !.term = v]
      BY <1>1
    <2>3. l.op = "none" <=> k = n
      BY <1>1 DEF IsChain
    <2>4. v \in Values /\ v.is = "set"
      BY <2>1, QueryValue
    <2> HIDE DEF inner, v, l
    <2>5. inner[k].term = v /\ inner[k].op = l.op
      BY <2>1, <2>2
    <2>6. QED
      BY <2>1, <2>3, <2>4, <2>5 DEF IsLink
  <1>3. QueryLang!IterateExpression(inner).is = "set"
    <2> HIDE DEF inner, n
    <2>1. PICK r : IsSetRow(r, n, inner)
      BY <1>1, <1>2, ChainRow
    <2>2. QED
      BY <1>1, <2>1 DEF IsSetRow
  <1>4. QED
    BY <1>3 DEF QueryLang!IterateTerm

(* A script without brackets finds what it means (Query of                 *)
(* api/v1/service.go with ParseAndExecute of parser.go), whatever its      *)
(* length and the graph, the operands of xor and of nested operators       *)
(* included; with brackets it is answered, and either fails as a whole if  *)
(* it asks for an unknown name.                                            *)
LEMMA ScriptMeansWhatItSays ==
    ASSUME NEW script \in Scripts, NEW default, NEW isCached
    PROVE  /\ QueryLang!IsAnswered(script, default, isCached)
           /\ ~QueryLang!HasBrackets(script) => QueryLang!MeansWhatItSays(script, default, isCached)
  <1> DEFINE answer == QueryLang!ParseAndExecute(script, default, isCached, NodeNames)
             dependencies == QueryLang!Collected(script, "dependencies", default)
             dependents == QueryLang!Collected(script, "dependents", default)
             n == Len(script)
             links == [k \in DOMAIN script |->
                         [script[k] EXCEPT !.term = QueryLang!IterateTerm(@, default)]]
  <1>1. /\ QueryLang!IsExpression(script)
        /\ \A l \in QueryLang!ToSet(script) :
              \/ l.term.is = "query"
              \/ /\ l.term.is = "group" /\ QueryLang!IsExpression(l.term.links)
                 /\ \A m \in QueryLang!ToSet(l.term.links) : m.term.is = "query"
    BY QueriesAssumption
  <1>2. n \in Nat \ {0} /\ DOMAIN script = 1..n /\ DOMAIN links = 1..n
    BY <1>1, LinksOf
  <1>3. ASSUME NEW q \in QueryLang!Queries(script), q.type \in QueryLang!QueryTypes,
               QueryLang!NameIn(q, default) \notin NodeNames
        PROVE  answer.is = "error"
    <2>1. QueryLang!NameIn(q, default) \in dependencies \cup dependents
      BY <1>3 DEF QueryLang!Collected, QueryLang!QueryTypes
    <2>2. ~(dependencies \cup dependents \subseteq NodeNames)
      BY <1>3, <2>1
    <2>3. answer = QueryLang!Outcome("error")
      BY <2>2 DEF QueryLang!ParseAndExecute
    <2>4. QED
      BY <2>3 DEF QueryLang!Outcome
  <1>4. ASSUME QueryLang!WellFormed(script, default)
        PROVE  /\ answer \in [is : {"set"}, nodes : SUBSET NodeNames]
               /\ ~QueryLang!HasBrackets(script) =>
                     answer = QueryLang!Sets({m \in NodeNames : QueryLang!Finds(script, default, m)})
    <2>1. /\ IsChain(script)
          /\ \A l \in QueryLang!ToSet(script) : l.term.is = "group" => IsChain(l.term.links)
          /\ \A q \in QueryLang!Queries(script) : IsKnown(q, default)
      BY <1>4 DEF QueryLang!WellFormed, IsChain, IsKnown
    <2>2. dependencies \subseteq NodeNames /\ dependents \subseteq NodeNames
      BY <2>1 DEF QueryLang!Collected, IsKnown
    <2>3. answer = QueryLang!IterateExpression(links)
      <3>1. answer = IF ~(dependencies \cup dependents \subseteq NodeNames) THEN QueryLang!Outcome("error")
                     ELSE IF isCached /\ ~(dependencies \subseteq NodeNames) THEN QueryLang!Outcome("panic")
                     ELSE IF isCached /\ ~(dependents \subseteq NodeNames) THEN QueryLang!Outcome("error")
                     ELSE QueryLang!IterateExpression(links)
        BY DEF QueryLang!ParseAndExecute
      <3> HIDE DEF answer, dependencies, dependents, links
      <3>2. QED
        BY <2>2, <3>1
    <2>4. ASSUME NEW k \in 1..n
          PROVE  /\ script[k].op \in Operators
                 /\ IsLink(links[k]) /\ links[k].term.is = "set"
                 /\ links[k].op = script[k].op
                 /\ (links[k].op = "none" <=> k = n)
                 /\ script[k].term.is = "query" =>
                       \A m : m \in links[k].term.nodes
                                <=> QueryLang!FoundByTerm(script[k].term, default, m)
      <3> DEFINE l == script[k]
                 v == QueryLang!IterateTerm(l.term, default)
      <3>1. l = [term |-> l.term, op |-> l.op] /\ l.op \in Operators /\ l \in QueryLang!ToSet(script)
        BY <1>1, LinksOf
      <3>2. links[k] = [l EXCEPT !.term = v]
        BY <1>2
      <3>3. l.op = "none" <=> k = n
        BY <1>2, <2>1 DEF IsChain
      <3>4. \A q \in QueryLang!QueriesOf(l.term) : IsKnown(q, default)
        BY <2>1, <3>1 DEF QueryLang!Queries
      <3>5. /\ v \in Values /\ v.is = "set"
            /\ l.term.is = "query" =>
                  \A m : m \in v.nodes <=> QueryLang!FoundByTerm(l.term, default, m)
        <4>1. CASE l.term.is = "query"
          <5>1. IsKnown(l.term, default)
            BY <3>4, <4>1 DEF QueryLang!QueriesOf
          <5>2. v = QueryLang!IterateQuery(l.term, default)
            BY <4>1 DEF QueryLang!IterateTerm
          <5> HIDE DEF v, l
          <5>3. QED
            BY <4>1, <5>1, <5>2, QueryValue DEF QueryLang!FoundByTerm, QueryLang!FoundByQuery
        <4>2. CASE l.term.is # "query"
          <5>1. l.term.is = "group" /\ QueryLang!IsExpression(l.term.links)
            BY <1>1, <3>1, <4>2
          <5>2. \A m \in QueryLang!ToSet(l.term.links) : IsKnown(m.term, default)
            BY <3>4, <4>2 DEF QueryLang!QueriesOf
          <5>3. IsChain(l.term.links)
            BY <2>1, <3>1, <5>1
          <5>4. v = QueryLang!Sets({})
            <6> HIDE DEF l
            <6>1. QED
              BY <5>1, <5>2, <5>3, GroupValue
          <5> HIDE DEF v, l
          <5>5. v = [is |-> "set", nodes |-> {}]
            BY <5>4 DEF QueryLang!Sets
          <5>6. v \in Values /\ v.is = "set"
            BY <5>5 DEF Values
          <5>7. QED
            BY <4>2, <5>6
        <4>3. QED
          BY <4>1, <4>2
      <3> HIDE DEF links, v, l
      <3>6. links[k].term = v /\ links[k].op = l.op
        BY <3>1, <3>2
      <3>7. QED
        BY <3>1, <3>3, <3>5, <3>6 DEF IsLink, l
    <2> HIDE DEF links, n, answer
    <2>4a. PICK r : IsSetRow(r, n, links)
      <3>1. \A k \in 1..n : /\ IsLink(links[k]) /\ links[k].term.is = "set"
                            /\ (links[k].op = "none" <=> k = n)
        BY <2>4
      <3>2. QED
        BY <1>2, <3>1, ChainRow
    <2>5. /\ QueryLang!IterateExpression(links) = r[1]
          /\ \A k \in 1..n : r[k] \in Values /\ r[k].is = "set"
          /\ r[n] = links[n].term
          /\ \A k \in 1..n : k # n =>
                r[k] = QueryLang!Sets(QueryLang!Combine(links[k].op, links[k].term.nodes,
                                                        r[k + 1].nodes))
      BY <2>4a DEF IsSetRow
    <2>6. ASSUME ~QueryLang!HasBrackets(script), NEW m \in NodeNames
          PROVE  m \in r[1].nodes <=> QueryLang!Finds(script, default, m)
      <3>a. \A k \in 1..n : script[k].term.is = "query"
        <4>1. \A k \in 1..n : script[k] \in QueryLang!ToSet(script)
          BY <1>1, LinksOf DEF n
        <4>2. QED
          BY <1>1, <2>6, <4>1 DEF QueryLang!HasBrackets
      <3>0. PICK f : IsKeptRow(f, n, script, default, m)
        <4>1. n \in Nat /\ \A k \in 1..n : script[k].op \in Operators /\ script[k].term.is = "query"
          BY <1>2, <2>4, <3>a
        <4>2. QED
          BY <1>2, <4>1, KeptRow
      <3>1. /\ f[n + 1] = FALSE
            /\ \A k \in 1..n : f[k] = Kept(script[k], f[k + 1], default, m)
            /\ QueryLang!Finds(script, default, m) = f[1]
        BY <3>0 DEF IsKeptRow
      <3> DEFINE P == {k \in 1..(n + 1) : /\ f[k] \in BOOLEAN
                                          /\ k <= n => (m \in r[k].nodes <=> f[k])}
      <3>2. n + 1 \in P
        <4>1. n + 1 \in 1..(n + 1) /\ ~(n + 1 <= n)
          BY <1>2
        <4>2. QED
          BY <3>1, <4>1
      <3>3. ASSUME NEW k \in 1..n, k + 1 \in P PROVE k \in P
        <4> DEFINE here == QueryLang!FoundByTerm(script[k].term, default, m)
                   next == r[k + 1].nodes
                   op == script[k].op
        <4>1. k \in 1..(n + 1) /\ k <= n /\ n \in 1..n /\ (k # n => k + 1 <= n)
          BY <1>2
        <4>2. m \in links[k].term.nodes <=> here
          BY <2>4, <3>a
        <4>3. f[k] = Kept(script[k], f[k + 1], default, m)
          BY <3>1
        <4>4. m \in r[k].nodes <=> f[k]
          <5>1. CASE k = n
            <6>1. op = "none"
              BY <2>4, <5>1
            <6>2. f[k] = here
              BY <4>3, <6>1 DEF Kept
            <6> HIDE DEF here
            <6>3. QED
              BY <2>5, <4>2, <5>1, <6>2
          <5>2. CASE k # n
            <6>1. op # "none" /\ links[k].op = op /\ op \in Operators
              BY <2>4, <5>2
            <6>2. f[k] = QueryLang!Holds(op, here, f[k + 1])
              BY <4>3, <6>1 DEF Kept
            <6>3. m \in next <=> f[k + 1]
              BY <3>3, <4>1, <5>2
            <6>4. r[k] = QueryLang!Sets(QueryLang!Combine(op, links[k].term.nodes, next))
              BY <2>5, <5>2, <6>1
            <6>5. r[k].nodes = QueryLang!Combine(op, links[k].term.nodes, next)
              BY <6>4 DEF QueryLang!Sets
            <6> HIDE DEF here, op, next, P
            <6>6. m \in QueryLang!Combine(op, links[k].term.nodes, next)
                     <=> QueryLang!Holds(op, here, f[k + 1])
              <7>1. CASE op = "and"
                BY <4>2, <6>3, <7>1 DEF QueryLang!Combine, QueryLang!Holds
              <7>2. CASE op = "or"
                BY <4>2, <6>3, <7>2 DEF QueryLang!Combine, QueryLang!Holds
              <7>3. CASE op = "xor"
                <8>1. m \in QueryLang!Combine(op, links[k].term.nodes, next)
                         <=> ~(m \in links[k].term.nodes <=> m \in next)
                  BY <7>3 DEF QueryLang!Combine
                <8>2. QueryLang!Holds(op, here, f[k + 1]) <=> (here # f[k + 1])
                  BY <7>3 DEF QueryLang!Holds
                <8>3. f[k + 1] \in BOOLEAN /\ here \in BOOLEAN
                  BY <3>3, <3>a DEF P, here, QueryLang!FoundByTerm, QueryLang!FoundByQuery
                <8>4. QED
                  BY <4>2, <6>3, <8>1, <8>2, <8>3
              <7>4. QED
                BY <6>1, <7>1, <7>2, <7>3 DEF Operators
            <6>7. QED
              BY <6>2, <6>5, <6>6
          <5>3. QED
            BY <5>1, <5>2
        <4>5. f[k] \in BOOLEAN
          <5>1. f[k + 1] \in BOOLEAN /\ op \in Operators /\ script[k].term.is = "query"
            BY <2>4, <3>3, <3>a
          <5> HIDE DEF P
          <5>2. QED
            BY <4>3, <5>1, KeptIsBoolean
        <4>6. QED
          BY <4>1, <4>4, <4>5
      <3>4. \A k \in 1..(n + 1) : k \in P
        <4> HIDE DEF P
        <4>1. QED
          BY <1>2, <3>2, <3>3, Downwards
      <3>5. 1 \in 1..(n + 1) /\ 1 <= n
        BY <1>2
      <3>6. QED
        BY <3>1, <3>4, <3>5
    <2>7. r[1] \in Values /\ r[1].is = "set"
      <3>1. 1 \in 1..n
        BY <1>2
      <3>2. QED
        BY <2>5, <3>1
    <2>8. ~QueryLang!HasBrackets(script) => r[1].nodes = {m \in NodeNames : QueryLang!Finds(script, default, m)}
      <3>1. r[1].nodes \subseteq NodeNames
        BY <2>7 DEF Values
      <3>2. QED
        BY <2>6, <3>1
    <2>9. r[1] = QueryLang!Sets(r[1].nodes)
      BY <2>7 DEF Values, QueryLang!Sets
    <2>10. r[1] \in [is : {"set"}, nodes : SUBSET NodeNames]
      BY <2>7 DEF Values
    <2>11. QED
      BY <2>3, <2>5, <2>8, <2>9, <2>10
  <1>5. QueryLang!IsAnswered(script, default, isCached)
    BY <1>3, <1>4 DEF QueryLang!IsAnswered
  <1>6. ~QueryLang!HasBrackets(script) => QueryLang!MeansWhatItSays(script, default, isCached)
    BY <1>4 DEF QueryLang!MeansWhatItSays
  <1>7. QED
    BY <1>5, <1>6

(* A script without brackets finds the nodes that its operators say, one by*)
(* one, grouped to the right; one with brackets gives an answer; and either*)
(* fails as a whole when it asks for an unknown name (Query in service.go, *)
(* ParseAndExecute in parser.go).                                          *)
THEOREM QueriesAreAnswered == AlgorithmsSpec => []QueriesMeanWhatTheySay
  <1>1. AlgorithmsInit => QueriesMeanWhatTheySay
    <2> SUFFICES ASSUME AlgorithmsInit, part = "queries"
                 PROVE  /\ QueryLang!IsAnswered(input.script, input.default, input.isCached)
                        /\ ~QueryLang!HasBrackets(input.script) =>
                              QueryLang!MeansWhatItSays(input.script, input.default, input.isCached)
      BY DEF QueriesMeanWhatTheySay
    <2>1. input \in [script : Scripts, default : DefaultNames, isCached : BOOLEAN]
      BY DEF AlgorithmsInit, InputsOf
    <2>2. input.script \in Scripts
      BY <2>1
    <2>3. QED
      BY <2>2, ScriptMeansWhatItSays
  <1>2. QueriesMeanWhatTheySay /\ [FALSE]_<<part, input>> => QueriesMeanWhatTheySay'
    BY DEF QueriesMeanWhatTheySay
  <1>3. QED
    BY <1>1, <1>2, PTL DEF AlgorithmsSpec

-----------------------------------------------------------------------------
(* Globs.  Whether a pattern covers a name from a place on, as a table that*)
(* every cell of agrees with the cells behind it.                          *)
Fits(parts, name, i, j) == j <= Len(name) /\ name[j] \in parts[i].of
Cell(parts, name, c, i, j) ==
    IF i > Len(parts) THEN j > Len(name)
    ELSE \/ parts[i].star /\ (c[<<i + 1, j>>] \/ (Fits(parts, name, i, j) /\ c[<<i, j + 1>>]))
         \/ ~parts[i].star /\ Fits(parts, name, i, j) /\ c[<<i + 1, j + 1>>]
IsTable(c, parts, name) ==
    \A i \in 1..(Len(parts) + 1), j \in 1..(Len(name) + 1) :
        c[<<i, j>>] \in BOOLEAN /\ c[<<i, j>>] = Cell(parts, name, c, i, j)

(* The same for a set of places.                                           *)
Covered(parts, name, K, i, j) ==
    IF i > Len(parts) THEN j > Len(name)
    ELSE \/ parts[i].star /\ (<<i + 1, j>> \in K \/ (Fits(parts, name, i, j) /\ <<i, j + 1>> \in K))
         \/ ~parts[i].star /\ Fits(parts, name, i, j) /\ <<i + 1, j + 1>> \in K

(* Whether a rest of a pattern covers a rest of a name is yes or no.       *)
LEMMA CellIsBoolean ==
    ASSUME NEW parts, NEW name, NEW c, NEW i, NEW j
    PROVE  Cell(parts, name, c, i, j) \in BOOLEAN
  <1>1. CASE i > Len(parts)
    <2>1. Cell(parts, name, c, i, j) <=> j > Len(name)
      BY <1>1 DEF Cell
    <2>2. Cell(parts, name, c, i, j) = (j > Len(name))
      BY <1>1 DEF Cell
    <2>3. QED
      BY <2>2
  <1>2. CASE ~(i > Len(parts))
    BY <1>2 DEF Cell
  <1>3. QED
    BY <1>1, <1>2

(* There is such a table: that of the least set of places that covers what *)
(* it must cover.                                                          *)
LEMMA TableExists ==
    ASSUME NEW parts, NEW name, Len(parts) \in Nat, Len(name) \in Nat
    PROVE  \E c : IsTable(c, parts, name) /\ Glob!Covers(parts, name) = c[<<1, 1>>]
  <1> DEFINE I == 1..(Len(parts) + 1)
             J == 1..(Len(name) + 1)
             Closed(X) == \A i \in I, j \in J : Covered(parts, name, X, i, j) => <<i, j>> \in X
             K == {p \in I \X J : \A X \in SUBSET (I \X J) : Closed(X) => p \in X}
             IsCover(c) == c = [p \in I \X J |-> Cell(parts, name, c, p[1], p[2])]
             cover == CHOOSE c : IsCover(c)
             least == [p \in I \X J |-> p \in K]
  <1>1. Glob!Covers(parts, name) = cover[<<1, 1>>]
    BY DEF Glob!Covers, Cell, Fits
  <1>2. ASSUME NEW X, NEW Y, X \subseteq Y, NEW i, NEW j, Covered(parts, name, X, i, j)
        PROVE  Covered(parts, name, Y, i, j)
    BY <1>2 DEF Covered
  <1>3. \A X \in SUBSET (I \X J) : Closed(X) => K \subseteq X
    OBVIOUS
  <1>4. Closed(K)
    <2> SUFFICES ASSUME NEW i \in I, NEW j \in J, Covered(parts, name, K, i, j)
                 PROVE  <<i, j>> \in K
      OBVIOUS
    <2>1. ASSUME NEW X \in SUBSET (I \X J), Closed(X) PROVE <<i, j>> \in X
      <3>1. K \subseteq X
        BY <1>3, <2>1
      <3> HIDE DEF K
      <3>2. Covered(parts, name, X, i, j)
        BY <1>2, <3>1
      <3>3. QED
        BY <2>1, <3>2
    <2> HIDE DEF Closed
    <2>2. QED
      BY <2>1
  <1>5. ASSUME NEW i \in I, NEW j \in J, <<i, j>> \in K PROVE Covered(parts, name, K, i, j)
    <2> DEFINE X == {p \in K : Covered(parts, name, K, p[1], p[2])}
    <2>1. X \in SUBSET (I \X J) /\ X \subseteq K
      OBVIOUS
    <2>2. Closed(X)
      <3> SUFFICES ASSUME NEW k \in I, NEW l \in J, Covered(parts, name, X, k, l)
                   PROVE  <<k, l>> \in X
        OBVIOUS
      <3>1. Covered(parts, name, K, k, l)
        <4> HIDE DEF X, K
        <4>1. QED
          BY <1>2, <2>1
      <3>2. <<k, l>> \in K
        <4> HIDE DEF X, K
        <4>1. QED
          BY <1>4, <3>1
      <3> HIDE DEF K
      <3>3. QED
        BY <3>1, <3>2
    <2>3. <<i, j>> \in X
      <3> HIDE DEF X, Closed
      <3>1. QED
        BY <1>5, <2>1, <2>2
    <2> HIDE DEF K
    <2>4. QED
      BY <2>3
  <1>6. ASSUME NEW i \in I, NEW j \in J
        PROVE  /\ least[<<i, j>>] \in BOOLEAN /\ (least[<<i, j>>] <=> <<i, j>> \in K)
               /\ (Cell(parts, name, least, i, j) <=> Covered(parts, name, K, i, j))
    <2> HIDE DEF K
    <2>1. \A k \in I, l \in J : least[<<k, l>>] \in BOOLEAN /\ (least[<<k, l>>] <=> <<k, l>> \in K)
      <3>1. ASSUME NEW k \in I, NEW l \in J
            PROVE  least[<<k, l>>] \in BOOLEAN /\ (least[<<k, l>>] <=> <<k, l>> \in K)
        <4>1. <<k, l>> \in I \X J
          OBVIOUS
        <4> HIDE DEF I, J
        <4>2. least[<<k, l>>] = (<<k, l>> \in K)
          BY <4>1
        <4> HIDE DEF least
        <4>3. (<<k, l>> \in K) \in BOOLEAN
          OBVIOUS
        <4>4. least[<<k, l>>] \in BOOLEAN
          BY <4>2, <4>3
        <4>5. least[<<k, l>>] <=> <<k, l>> \in K
          BY <4>2
        <4>6. QED
          BY <4>4, <4>5
      <3>2. QED
        BY <3>1
    <2>2. /\ i <= Len(parts) => i + 1 \in I
          /\ Fits(parts, name, i, j) => j + 1 \in J
      BY DEF Fits
    <2> HIDE DEF least
    <2>3. Cell(parts, name, least, i, j) <=> Covered(parts, name, K, i, j)
      <3>1. CASE i > Len(parts)
        BY <3>1 DEF Cell, Covered
      <3>2. CASE ~(i > Len(parts))
        <4>1. i + 1 \in I
          BY <2>2, <3>2
        <4>2. least[<<i + 1, j>>] <=> <<i + 1, j>> \in K
          BY <2>1, <4>1
        <4>3. Fits(parts, name, i, j) => /\ (least[<<i, j + 1>>] <=> <<i, j + 1>> \in K)
                                         /\ (least[<<i + 1, j + 1>>] <=> <<i + 1, j + 1>> \in K)
          BY <2>1, <2>2, <4>1
        <4>4. QED
          BY <3>2, <4>2, <4>3 DEF Cell, Covered
      <3>3. QED
        BY <3>1, <3>2
    <2>4. QED
      BY <2>1, <2>3
  <1>7. \E c : IsCover(c)
    <2>1. \A i \in I, j \in J : (<<i, j>> \in K) = Cell(parts, name, least, i, j)
      <3> SUFFICES ASSUME NEW i \in I, NEW j \in J
                   PROVE  (<<i, j>> \in K) = Cell(parts, name, least, i, j)
        OBVIOUS
      <3>1. <<i, j>> \in K <=> Cell(parts, name, least, i, j)
        <4> HIDE DEF K, least
        <4>1. QED
          BY <1>4, <1>5, <1>6
      <3>2. Cell(parts, name, least, i, j) \in BOOLEAN
        BY CellIsBoolean
      <3> HIDE DEF K, least
      <3>3. QED
        BY <3>1, <3>2
    <2> DEFINE body == [p \in I \X J |-> Cell(parts, name, least, p[1], p[2])]
    <2>2. least = body
      <3>1. \A p \in I \X J : p[1] \in I /\ p[2] \in J /\ p = <<p[1], p[2]>>
        OBVIOUS
      <3> DEFINE v(p) == Cell(parts, name, least, p[1], p[2])
      <3>2. \A p \in I \X J : (p \in K) = v(p)
        <4> HIDE DEF I, J, K, least
        <4>1. QED
          BY <2>1, <3>1
      <3> HIDE DEF I, J, K, v
      <3>3. [p \in I \X J |-> p \in K] = [p \in I \X J |-> v(p)]
        BY <3>2
      <3>4. QED
        BY <3>3 DEF v
    <2>3. QED
      BY <2>2
  <1>8. IsCover(cover)
    <2> HIDE DEF IsCover
    <2>1. QED
      BY <1>7
  <1> HIDE DEF cover, K, least
  <1>9. IsTable(cover, parts, name)
    <2>1. ASSUME NEW i \in I, NEW j \in J
          PROVE  cover[<<i, j>>] \in BOOLEAN /\ cover[<<i, j>>] = Cell(parts, name, cover, i, j)
      <3>1. cover[<<i, j>>] = Cell(parts, name, cover, i, j)
        BY <1>8
      <3>2. Cell(parts, name, cover, i, j) \in BOOLEAN
        BY CellIsBoolean
      <3>3. QED
        BY <3>1, <3>2
    <2>2. QED
      BY <2>1 DEF IsTable
  <1>10. QED
    BY <1>1, <1>9

(* A pattern with the same stars, the other parts of which fit wherever    *)
(* those of the first do, covers what the first covers.                    *)
LEMMA MoreIsCovered ==
    ASSUME NEW parts, NEW name, NEW more, NEW alias, NEW n \in Nat, NEW m \in Nat,
           Len(parts) = n, Len(more) = n, Len(name) = m, Len(alias) = m,
           \A i \in 1..n : parts[i].star <=> more[i].star,
           \A i \in 1..n, j \in 1..m : name[j] \in parts[i].of => alias[j] \in more[i].of,
           Glob!Covers(parts, name)
    PROVE  Glob!Covers(more, alias)
  <1> DEFINE I == 1..(n + 1)
             J == 1..(m + 1)
             left(i, j) == (n + 1 - i) + (m + 1 - j)
  <1>1. PICK c : IsTable(c, parts, name) /\ Glob!Covers(parts, name) = c[<<1, 1>>]
    BY TableExists
  <1>2. PICK d : IsTable(d, more, alias) /\ Glob!Covers(more, alias) = d[<<1, 1>>]
    BY TableExists
  <1> DEFINE Bad == {s \in Nat : \E i \in I, j \in J : s = left(i, j) /\ c[<<i, j>>] /\ ~d[<<i, j>>]}
  <1>3. ASSUME Bad # {} PROVE FALSE
    <2>1. PICK x \in Bad : \A y \in Bad : x <= y
      BY <1>3, LeastNumber
    <2>2. PICK i \in I, j \in J : x = left(i, j) /\ c[<<i, j>>] /\ ~d[<<i, j>>]
      OBVIOUS
    <2>3. ASSUME NEW k \in I, NEW l \in J, left(k, l) < left(i, j), c[<<k, l>>] PROVE d[<<k, l>>]
      <3>1. left(k, l) \in Nat /\ left(i, j) \in Nat
        OBVIOUS
      <3>2. left(k, l) \notin Bad
        <4> DEFINE s == left(k, l)
                   z == left(i, j)
        <4> HIDE DEF s, z, Bad
        <4>1. s \in Nat /\ z \in Nat /\ s < z /\ x = z
          BY <2>2, <2>3, <3>1 DEF s, z
        <4>2. ~(x <= s)
          BY <4>1
        <4>3. s \notin Bad
          BY <2>1, <4>2
        <4>4. QED
          BY <4>3 DEF s
      <3> HIDE DEF left
      <3>3. QED
        BY <2>3, <3>1, <3>2
    <2> HIDE DEF Bad
    <2>4. Cell(parts, name, c, i, j) /\ ~Cell(more, alias, d, i, j)
      BY <1>1, <1>2, <2>2 DEF IsTable
    <2>5. i <= n
      <3>1. CASE i > n
        BY <2>4, <3>1 DEF Cell
      <3>2. QED
        BY <3>1
    <2>6. i \in 1..n /\ i + 1 \in I /\ ~(i > n)
      BY <2>5
    <2>7. ASSUME Fits(parts, name, i, j) PROVE Fits(more, alias, i, j) /\ j + 1 \in J
      <3>1. j <= m /\ j \in 1..m /\ j + 1 \in J
        BY <2>7 DEF Fits
      <3>2. QED
        BY <2>6, <2>7, <3>1 DEF Fits
    <2>8. c[<<i + 1, j>>] => d[<<i + 1, j>>]
      <3>1. left(i + 1, j) < left(i, j)
        OBVIOUS
      <3> HIDE DEF left
      <3>2. QED
        BY <2>3, <2>6, <3>1
    <2>9. ASSUME Fits(parts, name, i, j)
          PROVE  (c[<<i, j + 1>>] => d[<<i, j + 1>>]) /\ (c[<<i + 1, j + 1>>] => d[<<i + 1, j + 1>>])
      <3>1. left(i, j + 1) < left(i, j) /\ left(i + 1, j + 1) < left(i, j)
        OBVIOUS
      <3> HIDE DEF left
      <3>2. QED
        BY <2>3, <2>6, <2>7, <2>9, <3>1
    <2>10. parts[i].star <=> more[i].star
      BY <2>6
    <2>11. QED
      BY <2>4, <2>6, <2>7, <2>8, <2>9, <2>10 DEF Cell
  <1>4. 1 \in I /\ 1 \in J /\ left(1, 1) \in Nat
    OBVIOUS
  <1>5. c[<<1, 1>>] => d[<<1, 1>>]
    <2> HIDE DEF left
    <2>1. QED
      BY <1>3, <1>4
  <1>6. QED
    BY <1>1, <1>2, <1>5

(* A pattern covers nothing if a part of it fits nothing.                  *)
LEMMA HoleIsUncovered ==
    ASSUME NEW parts, NEW name, Len(parts) \in Nat, Len(name) \in Nat,
           NEW hole \in 1..Len(parts), ~parts[hole].star, parts[hole].of = {}
    PROVE  ~Glob!Covers(parts, name)
  <1> DEFINE n == Len(parts)
             m == Len(name)
             J == 1..(m + 1)
             left(i, j) == (n + 1 - i) + (m + 1 - j)
  <1>1. PICK c : IsTable(c, parts, name) /\ Glob!Covers(parts, name) = c[<<1, 1>>]
    BY TableExists
  <1> DEFINE Bad == {s \in Nat : \E i \in 1..hole, j \in J : s = left(i, j) /\ c[<<i, j>>]}
  <1>2. ASSUME Bad # {} PROVE FALSE
    <2>1. PICK x \in Bad : \A y \in Bad : x <= y
      BY <1>2, LeastNumber
    <2>2. PICK i \in 1..hole, j \in J : x = left(i, j) /\ c[<<i, j>>]
      OBVIOUS
    <2>3. ASSUME NEW k \in 1..hole, NEW l \in J, left(k, l) < left(i, j) PROVE ~c[<<k, l>>]
      <3>1. left(k, l) \in Nat /\ left(i, j) \in Nat
        OBVIOUS
      <3>2. left(k, l) \notin Bad
        <4> DEFINE s == left(k, l)
                   z == left(i, j)
        <4> HIDE DEF s, z, Bad
        <4>1. s \in Nat /\ z \in Nat /\ s < z /\ x = z
          BY <2>2, <2>3, <3>1 DEF s, z
        <4>2. ~(x <= s)
          BY <4>1
        <4>3. s \notin Bad
          BY <2>1, <4>2
        <4>4. QED
          BY <4>3 DEF s
      <3> HIDE DEF left
      <3>3. QED
        BY <3>1, <3>2
    <2> HIDE DEF Bad
    <2>4. i \in 1..(n + 1) /\ ~(i > n) /\ i + 1 \in 1..(n + 1)
      OBVIOUS
    <2>5. Cell(parts, name, c, i, j)
      BY <1>1, <2>2, <2>4 DEF IsTable
    <2>6. CASE i = hole
      BY <2>4, <2>5, <2>6 DEF Cell, Fits
    <2>7. CASE i # hole
      <3>1. i + 1 \in 1..hole /\ (Fits(parts, name, i, j) => j + 1 \in J)
        BY <2>7 DEF Fits
      <3>2. left(i + 1, j) < left(i, j) /\ left(i, j + 1) < left(i, j) /\ left(i + 1, j + 1) < left(i, j)
        OBVIOUS
      <3> HIDE DEF left
      <3>3. ~c[<<i + 1, j>>]
        BY <2>3, <3>1, <3>2
      <3>4. Fits(parts, name, i, j) => ~c[<<i, j + 1>>] /\ ~c[<<i + 1, j + 1>>]
        BY <2>3, <3>1, <3>2
      <3>5. QED
        BY <2>4, <2>5, <3>3, <3>4 DEF Cell
    <2>8. QED
      BY <2>6, <2>7
  <1>3. 1 \in 1..hole /\ 1 \in J /\ left(1, 1) \in Nat
    OBVIOUS
  <1>4. ~c[<<1, 1>>]
    <2> HIDE DEF left
    <2>1. QED
      BY <1>2, <1>3
  <1>5. QED
    BY <1>1, <1>4

(* A function on 1 to n is a sequence of n elements.                       *)
LEMMA RowIsSequence ==
    ASSUME NEW n \in Nat, NEW f, f = [k \in 1..n |-> f[k]]
    PROVE  f \in Seq({f[k] : k \in 1..n}) /\ Len(f) = n /\ DOMAIN f = 1..n
  <1> DEFINE X == {f[k] : k \in 1..n}
  <1>1. \A k \in 1..n : f[k] \in X
    OBVIOUS
  <1> HIDE DEF X
  <1>2. f \in [1..n -> X]
    BY <1>1
  <1>3. f \in Seq(X)
    BY <1>2, SeqDef
  <1>4. DOMAIN f = 1..n
    BY <1>2
  <1>5. Len(f) = n
    BY <1>3, <1>4
  <1>6. QED
    BY <1>3, <1>4, <1>5 DEF X

(* What becomes of a pattern for LIKE, character by character.             *)
Piece(c) == CASE c = "*" -> <<"%">>
              [] c = "?" -> <<"_">>
              [] c \in {"%", "_"} -> <<"\\", c>>
              [] OTHER -> <<c>>
IsConvertRow(r, n, pattern) ==
    /\ r[0] = <<>>
    /\ \A k \in 1..n : r[k] = r[k - 1] \o Piece(pattern[k])
    /\ Glob!ConvertGlobToSQLPattern(pattern) = r[n]

(* Sequences of one and of two elements.                                   *)
LEMMA Singletons ==
    ASSUME NEW X, NEW x \in X, NEW y \in X
    PROVE  /\ <<x>> \in Seq(X) /\ Len(<<x>>) = 1 /\ <<x>>[1] = x
           /\ <<x, y>> \in Seq(X) /\ Len(<<x, y>>) = 2 /\ <<x, y>>[1] = x
  OBVIOUS

(* The conversion of a character is a text of the characters of LIKE.      *)
LEMMA PieceFacts ==
    ASSUME NEW Chars, {"%", "_", "\\"} \subseteq Chars, NEW c \in Chars
    PROVE  Piece(c) \in Seq(Chars)
  <1>0. "%" \in Chars /\ "_" \in Chars /\ "\\" \in Chars
    OBVIOUS
  <1>1. ASSUME c = "*" PROVE Piece(c) \in Seq(Chars)
    <2>1. Piece(c) = <<"%">>
      BY <1>1 DEF Piece
    <2>2. <<"%">> \in Seq(Chars)
      BY <1>0, Singletons
    <2>3. QED
      BY <2>1, <2>2
  <1>2. ASSUME c = "?" PROVE Piece(c) \in Seq(Chars)
    <2>1. Piece(c) = <<"_">>
      BY <1>2 DEF Piece
    <2>2. <<"_">> \in Seq(Chars)
      BY <1>0, Singletons
    <2>3. QED
      BY <2>1, <2>2
  <1>3. ASSUME c \in {"%", "_"} PROVE Piece(c) \in Seq(Chars)
    <2>1. Piece(c) = <<"\\", c>>
      BY <1>3 DEF Piece
    <2>2. <<"\\", c>> \in Seq(Chars)
      BY <1>0, Singletons
    <2>3. QED
      BY <2>1, <2>2
  <1>4. ASSUME c \notin {"*", "?", "%", "_"} PROVE Piece(c) \in Seq(Chars)
    <2>1. Piece(c) = <<c>>
      BY <1>4 DEF Piece
    <2>2. <<c>> \in Seq(Chars)
      BY <1>0, Singletons
    <2>3. QED
      BY <2>1, <2>2
  <1>5. QED
    BY <1>1, <1>2, <1>3, <1>4

(* What a sequence that is joined of two is.                               *)
IsJoined(u, s, t, X) ==
    /\ u \in Seq(X) /\ Len(s) \in Nat /\ Len(t) \in Nat
    /\ Len(u) = Len(s) + Len(t)
    /\ \A l \in 1..Len(s) : l \in 1..Len(u) /\ u[l] = s[l]
    /\ \A l \in 1..Len(t) : Len(s) + l \in 1..Len(u) /\ u[Len(s) + l] = t[l]

(* A sequence joined of two has the elements of both, in their places.     *)
LEMMA Joining ==
    ASSUME NEW X, NEW s \in Seq(X), NEW t \in Seq(X)
    PROVE  IsJoined(s \o t, s, t, X)
  <1> DEFINE m == Len(s)
             n == Len(t)
             u == s \o t
  <1>1. m \in Nat /\ n \in Nat
    OBVIOUS
  <1>2. /\ u \in Seq(X) /\ Len(u) = m + n
        /\ \A i \in 1..(m + n) : u[i] = IF i <= m THEN s[i] ELSE t[i - m]
    BY ConcatProperties
  <1> HIDE DEF m, n, u
  <1>3. \A l \in 1..m : l \in 1..Len(u) /\ u[l] = s[l]
    BY <1>1, <1>2
  <1>4. ASSUME NEW l \in 1..n PROVE m + l \in 1..Len(u) /\ u[m + l] = t[l]
    <2>1. m + l \in 1..(m + n) /\ ~(m + l <= m) /\ (m + l) - m = l
      BY <1>1
    <2>2. QED
      BY <1>2, <2>1
  <1>5. QED
    BY <1>1, <1>2, <1>3, <1>4 DEF IsJoined, m, n, u

(* The conversion of a pattern is the last of a row of texts, each of which*)
(* is the one before and a piece.                                          *)
LEMMA ConvertRow ==
    ASSUME NEW n \in Nat, NEW pattern, DOMAIN pattern = 1..n
    PROVE  \E r : IsConvertRow(r, n, pattern)
  <1> DEFINE All == SUBSET (1..n)
             Chars == {pattern[k] : k \in 1..n} \cup {"%", "_", "\\"}
             Texts == Seq(Chars)
             step == [p \in (1..n) \X Texts |-> p[2] \o Piece(pattern[p[1]])]
             IsFold(iter) ==
                iter = [S \in All |-> IF S = {} THEN <<>>
                                      ELSE iter[S \ {Greatest(S)}] \o Piece(pattern[Greatest(S)])]
             iter == CHOOSE iter : IsFold(iter)
  <1>1. \E g : IsFold(g)
    <2>1. <<>> \in Texts
      OBVIOUS
    <2>2. step \in [(1..n) \X Texts -> Texts]
      <3>1. ASSUME NEW p \in (1..n) \X Texts PROVE p[2] \o Piece(pattern[p[1]]) \in Texts
        <4>1. p[2] \in Texts /\ pattern[p[1]] \in Chars /\ {"%", "_", "\\"} \subseteq Chars
          BY <3>1
        <4> HIDE DEF Chars
        <4>2. Piece(pattern[p[1]]) \in Texts
          BY <4>1, PieceFacts
        <4>3. QED
          BY <4>1, <4>2, ConcatProperties
      <3> HIDE DEF Texts
      <3>2. QED
        BY <3>1
    <2> HIDE DEF step, Texts
    <2>3. PICK g : FoldsLeft(g, n, Texts, <<>>, step)
      BY <2>1, <2>2, LeftFold
    <2>4. ASSUME NEW S \in All, S # {}
          PROVE  g[S] = g[S \ {Greatest(S)}] \o Piece(pattern[Greatest(S)])
      <3> DEFINE k == Greatest(S)
                 v == g[S \ {k}]
      <3>1. k \in 1..n /\ v \in Texts /\ g[S] = step[<<k, v>>]
        BY <2>3, <2>4 DEF FoldsLeft
      <3> HIDE DEF k, v
      <3>2. step[<<k, v>>] = v \o Piece(pattern[k])
        BY <3>1 DEF step
      <3>3. QED
        BY <3>1, <3>2 DEF k, v
    <2>5. g \in [All -> Texts] /\ g[{}] = <<>>
      BY <2>3 DEF FoldsLeft
    <2> HIDE DEF All
    <2>6. IsFold(g)
      BY <2>4, <2>5
    <2>7. QED
      BY <2>6
  <1>2. IsFold(iter)
    <2> HIDE DEF IsFold
    <2>1. QED
      BY <1>1
  <1>3. Glob!ConvertGlobToSQLPattern(pattern) = iter[1..n]
    BY DEF Glob!ConvertGlobToSQLPattern, Glob!FoldLeft, Glob!MapThenFoldSet, Glob!Max, Piece, Greatest
  <1> DEFINE r == [k \in 0..n |-> iter[1..k]]
  <1> HIDE DEF iter
  <1>4. r[0] = <<>>
    <2>1. 1..0 = {} /\ {} \in All /\ 0 \in 0..n
      OBVIOUS
    <2>2. iter[{}] = <<>>
      BY <1>2, <2>1
    <2>3. QED
      BY <2>1, <2>2
  <1>5. ASSUME NEW k \in 1..n PROVE r[k] = r[k - 1] \o Piece(pattern[k])
    <2> DEFINE S == 1..k
    <2>1. S \in All /\ S # {} /\ Greatest(S) = k /\ S \ {k} = 1..(k - 1)
      BY LastPlace
    <2>2. r[k] = iter[S] /\ r[k - 1] = iter[1..(k - 1)]
      OBVIOUS
    <2> HIDE DEF S, r, All
    <2>3. iter[S] = iter[S \ {k}] \o Piece(pattern[k])
      BY <1>2, <2>1
    <2>4. QED
      BY <2>1, <2>2, <2>3
  <1>6. Glob!ConvertGlobToSQLPattern(pattern) = r[n]
    BY <1>3
  <1> HIDE DEF r
  <1>7. IsConvertRow(r, n, pattern)
    BY <1>4, <1>5, <1>6 DEF IsConvertRow
  <1>8. QED
    BY <1>7

(* What LIKE has for the characters of a pattern.                          *)
LikeFor(c) == IF c = "*" THEN "%" ELSE IF c = "?" THEN "_" ELSE c

(* A pattern that spells out a wildcard of LIKE gets a backslash; any other*)
(* is converted one character for one.                                     *)
LEMMA ConvertFacts ==
    ASSUME NEW n \in Nat, NEW pattern, DOMAIN pattern = 1..n
    PROVE  LET sql == Glob!ConvertGlobToSQLPattern(pattern)
           IN  /\ Len(sql) \in Nat /\ DOMAIN sql = 1..Len(sql)
               /\ (\E k \in 1..n : pattern[k] \in {"%", "_"}) => \E k \in 1..Len(sql) : sql[k] = "\\"
               /\ (\A k \in 1..n : pattern[k] \notin {"%", "_"}) =>
                     Len(sql) = n /\ \A k \in 1..n : sql[k] = LikeFor(pattern[k])
  <1> DEFINE Chars == {pattern[k] : k \in 1..n} \cup {"%", "_", "\\"}
             Wild(k) == pattern[k] \in {"%", "_"}
             IsSo(t, k) ==
                /\ t \in Seq(Chars)
                /\ (\E l \in 1..k : Wild(l)) => \E l \in 1..Len(t) : t[l] = "\\"
                /\ (\A l \in 1..k : ~Wild(l)) =>
                      Len(t) = k /\ \A l \in 1..k : t[l] = LikeFor(pattern[l])
  <1>1. PICK r : IsConvertRow(r, n, pattern)
    BY ConvertRow
  <1> DEFINE P == {k \in 0..n : IsSo(r[k], k)}
  <1>2. 0 \in P
    <2>1. r[0] = <<>>
      BY <1>1 DEF IsConvertRow
    <2>2. <<>> \in Seq(Chars) /\ Len(<<>>) = 0 /\ (\A l \in 1..0 : FALSE) /\ 0 \in 0..n
      OBVIOUS
    <2> HIDE DEF Chars, Wild
    <2>3. IsSo(r[0], 0)
      BY <2>1, <2>2
    <2>4. QED
      BY <2>2, <2>3
  <1>3. ASSUME NEW k \in 0..(n - 1), k \in P PROVE k + 1 \in P
    <2> DEFINE t == r[k]
               u == r[k + 1]
               c == pattern[k + 1]
    <2>1. k + 1 \in 1..n /\ (k + 1) - 1 = k /\ k \in Nat /\ k + 1 \in 0..n
      OBVIOUS
    <2>2. u = t \o Piece(c)
      BY <1>1, <2>1 DEF IsConvertRow
    <2>3. c \in Chars /\ {"%", "_", "\\"} \subseteq Chars
      BY <2>1
    <2>4. /\ t \in Seq(Chars)
          /\ (\E l \in 1..k : Wild(l)) => \E l \in 1..Len(t) : t[l] = "\\"
          /\ (\A l \in 1..k : ~Wild(l)) =>
                Len(t) = k /\ \A l \in 1..k : t[l] = LikeFor(pattern[l])
      BY <1>3
    <2> HIDE DEF Chars
    <2>5. Piece(c) \in Seq(Chars)
      BY <2>3, PieceFacts
    <2>6. /\ u \in Seq(Chars)
          /\ Len(t) \in Nat /\ Len(Piece(c)) \in Nat /\ Len(u) = Len(t) + Len(Piece(c))
          /\ \A l \in 1..Len(t) : l \in 1..Len(u) /\ u[l] = t[l]
          /\ \A l \in 1..Len(Piece(c)) : Len(t) + l \in 1..Len(u) /\ u[Len(t) + l] = Piece(c)[l]
      <3> DEFINE p == Piece(c)
      <3> HIDE DEF p, t, u
      <3>1. t \in Seq(Chars) /\ p \in Seq(Chars) /\ u = t \o p
        BY <2>2, <2>4, <2>5 DEF p
      <3>2. /\ u \in Seq(Chars)
            /\ Len(t) \in Nat /\ Len(p) \in Nat /\ Len(u) = Len(t) + Len(p)
            /\ \A l \in 1..Len(t) : l \in 1..Len(u) /\ u[l] = t[l]
            /\ \A l \in 1..Len(p) : Len(t) + l \in 1..Len(u) /\ u[Len(t) + l] = p[l]
        BY <3>1, Joining DEF IsJoined
      <3>3. QED
        BY <3>2 DEF p
    <2>7. ASSUME \E l \in 1..(k + 1) : Wild(l) PROVE \E l \in 1..Len(u) : u[l] = "\\"
      <3>1. CASE \E l \in 1..k : Wild(l)
        <4>1. PICK l \in 1..Len(t) : t[l] = "\\"
          BY <2>4, <3>1
        <4>2. l \in 1..Len(u) /\ u[l] = "\\"
          BY <2>6, <4>1
        <4>3. QED
          BY <4>2
      <3>2. CASE Wild(k + 1)
        <4>1. Piece(c) = <<"\\", c>>
          BY <3>2 DEF Piece
        <4>2. Len(Piece(c)) = 2 /\ Piece(c)[1] = "\\" /\ 1 \in 1..2
          BY <4>1
        <4>3. u[Len(t) + 1] = "\\" /\ Len(t) + 1 \in 1..Len(u)
          BY <2>6, <4>2
        <4>4. QED
          BY <4>3
      <3>3. QED
        <4>1. PICK l \in 1..(k + 1) : Wild(l)
          BY <2>7
        <4>2. l \in 1..k \/ l = k + 1
          BY <2>1
        <4> HIDE DEF Wild
        <4>3. QED
          BY <3>1, <3>2, <4>1, <4>2
    <2>8. ASSUME \A l \in 1..(k + 1) : ~Wild(l)
           PROVE  Len(u) = k + 1 /\ \A l \in 1..(k + 1) : u[l] = LikeFor(pattern[l])
      <3>1. Len(t) = k /\ \A l \in 1..k : t[l] = LikeFor(pattern[l])
        <4>1. \A l \in 1..k : l \in 1..(k + 1)
          BY <2>1
        <4> HIDE DEF Wild
        <4>2. QED
          BY <2>4, <2>8, <4>1
      <3>2. ~Wild(k + 1)
        <4>1. k + 1 \in 1..(k + 1)
          BY <2>1
        <4> HIDE DEF Wild
        <4>2. QED
          BY <2>8, <4>1
      <3>3. Piece(c) = <<LikeFor(c)>>
        BY <3>2 DEF Piece, LikeFor
      <3>4. Len(Piece(c)) = 1 /\ Piece(c)[1] = LikeFor(c)
        BY <3>3
      <3>5. Len(u) = k + 1
        BY <2>6, <3>1, <3>4
      <3>6. u[k + 1] = LikeFor(pattern[k + 1])
        BY <2>6, <3>1, <3>4
      <3>7. \A l \in 1..k : u[l] = LikeFor(pattern[l])
        BY <2>6, <3>1
      <3>8. \A l \in 1..(k + 1) : l \in 1..k \/ l = k + 1
        BY <2>1
      <3> HIDE DEF u
      <3>9. QED
        BY <3>5, <3>6, <3>7, <3>8
    <2>9. IsSo(u, k + 1)
      <3> HIDE DEF u, Wild
      <3>1. QED
        BY <2>6, <2>7, <2>8
    <2> HIDE DEF IsSo
    <2>10. QED
      BY <2>1, <2>9
  <1>4. n \in P
    <2> HIDE DEF P
    <2>1. \A k \in 0..n : k \in P
      BY <1>2, <1>3, Upwards
    <2>2. QED
      BY <2>1
  <1>5. Glob!ConvertGlobToSQLPattern(pattern) = r[n]
    BY <1>1 DEF IsConvertRow
  <1>6. r[n] \in Seq(Chars)
    BY <1>4
  <1> HIDE DEF Chars
  <1>7. Len(r[n]) \in Nat /\ DOMAIN r[n] = 1..Len(r[n])
    BY <1>6
  <1>8. QED
    BY <1>4, <1>5, <1>7

(* What a character of a pattern stands for, in the three storages.        *)
GlobPart(c, name) ==
    [star |-> c = "*", of |-> IF c \in {"*", "?"} THEN Glob!ToSet(name) ELSE {c}]
MockPart(c, name) ==
    [star |-> c = "*", of |-> IF c \in {"*", "?"} THEN Glob!ToSet(name) \ {"/"} ELSE {c}]
LikePart(c, name) ==
    [star |-> c = "%", of |-> IF c \in {"%", "_"} THEN Glob!ToSet(name)
                              ELSE {d \in Glob!ToSet(name) : Glob!Lower(d) = Glob!Lower(c)}]

(* The fields of a part.                                                   *)
LEMMA PartFields ==
    ASSUME NEW s, NEW S
    PROVE  [star |-> s, of |-> S].star = s /\ [star |-> s, of |-> S].of = S
  OBVIOUS

(* The same, for a part that stands for one character.                     *)
LEMMA PlainFields ==
    ASSUME NEW p, NEW S, p = [star |-> FALSE, of |-> S]
    PROVE  ~p.star /\ p.of = S
  OBVIOUS

(* A name or a pattern, and the parts of a pattern.                        *)
LEMMA TextFacts ==
    ASSUME NEW s \in Globs \cup GlobNames
    PROVE  /\ Len(s) \in Nat /\ DOMAIN s = 1..Len(s) /\ s = [k \in 1..Len(s) |-> s[k]]
           /\ \A k \in 1..Len(s) : s[k] \in Glob!ToSet(s)
           /\ \A c \in Glob!ToSet(s) : c # "\\" /\ \E k \in 1..Len(s) : s[k] = c
  <1>1. s \in Seq(Glob!ToSet(s)) /\ "\\" \notin Glob!ToSet(s)
    BY GlobsAssumption
  <1>2. Len(s) \in Nat /\ DOMAIN s = 1..Len(s) /\ s = [k \in 1..Len(s) |-> s[k]]
    <2> DEFINE X == Glob!ToSet(s)
    <2>1. s \in Seq(X)
      BY <1>1
    <2> HIDE DEF X
    <2>2. QED
      BY <2>1
  <1>3. Glob!ToSet(s) = {s[k] : k \in 1..Len(s)}
    BY <1>2 DEF Glob!ToSet
  <1>4. QED
    BY <1>1, <1>2, <1>3

(* The parts for LIKE of a converted character and those of a glob, with   *)
(* upper and lower case as one.                                            *)
LEMMA LikeIsGlob ==
    ASSUME NEW c, c \notin {"%", "_"}, NEW name, NEW folded
    PROVE  /\ LikePart(LikeFor(c), name).star <=> GlobPart(Glob!Lower(c), folded).star
           /\ \A d \in Glob!ToSet(name) : Glob!Lower(d) \in Glob!ToSet(folded) =>
                 (/\ d \in LikePart(LikeFor(c), name).of
                  <=> Glob!Lower(d) \in GlobPart(Glob!Lower(c), folded).of)
  <1> DEFINE like == LikePart(LikeFor(c), name)
             glob == GlobPart(Glob!Lower(c), folded)
  <1>1. CASE c = "*"
    <2>1. LikeFor(c) = "%" /\ Glob!Lower(c) = "*"
      BY <1>1, Zenon DEF LikeFor, Glob!Lower
    <2>2. LikePart(LikeFor(c), name) = [star |-> TRUE, of |-> Glob!ToSet(name)]
      BY <2>1, Zenon DEF LikePart
    <2>3. GlobPart(Glob!Lower(c), folded) = [star |-> TRUE, of |-> Glob!ToSet(folded)]
      BY <2>1, Zenon DEF GlobPart
    <2>4. like.star = TRUE /\ glob.star = TRUE /\ like.of = Glob!ToSet(name) /\ glob.of = Glob!ToSet(folded)
      BY <2>2, <2>3, PartFields, Zenon
    <2> HIDE DEF like, glob
    <2>5. (like.star <=> glob.star)
          /\ \A d \in Glob!ToSet(name) : Glob!Lower(d) \in Glob!ToSet(folded) =>
               (d \in like.of <=> Glob!Lower(d) \in glob.of)
      BY <2>4, Zenon
    <2>6. QED
      BY <2>5, Zenon DEF like, glob
  <1>2. CASE c = "?"
    <2>1. LikeFor(c) = "_" /\ Glob!Lower(c) = "?"
      BY <1>2, Zenon DEF LikeFor, Glob!Lower
    <2>2. LikePart(LikeFor(c), name) = [star |-> FALSE, of |-> Glob!ToSet(name)]
      BY <2>1, Zenon DEF LikePart
    <2>3. GlobPart(Glob!Lower(c), folded) = [star |-> FALSE, of |-> Glob!ToSet(folded)]
      BY <2>1, Zenon DEF GlobPart
    <2>4. ~like.star /\ ~glob.star /\ like.of = Glob!ToSet(name) /\ glob.of = Glob!ToSet(folded)
      <3>1. ~like.star /\ like.of = Glob!ToSet(name)
        BY <2>2, PlainFields
      <3>2. ~glob.star /\ glob.of = Glob!ToSet(folded)
        BY <2>3, PlainFields
      <3>3. QED
        BY <3>1, <3>2
    <2> HIDE DEF like, glob
    <2>5. (like.star <=> glob.star)
          /\ \A d \in Glob!ToSet(name) : Glob!Lower(d) \in Glob!ToSet(folded) =>
               (d \in like.of <=> Glob!Lower(d) \in glob.of)
      BY <2>4, Zenon
    <2>6. QED
      BY <2>5, Zenon DEF like, glob
  <1>3. CASE c \notin {"*", "?"}
    <2>1. LikeFor(c) = c
      BY <1>3, Zenon DEF LikeFor
    <2>2. Glob!Lower(c) \notin {"*", "?"}
      BY <1>3, Zenon DEF Glob!Lower
    <2>3. LikePart(LikeFor(c), name) =
             [star |-> FALSE, of |-> {d \in Glob!ToSet(name) : Glob!Lower(d) = Glob!Lower(c)}]
      BY <2>1, Zenon DEF LikePart
    <2>4. GlobPart(Glob!Lower(c), folded) = [star |-> FALSE, of |-> {Glob!Lower(c)}]
      BY <2>2, Zenon DEF GlobPart
    <2>5. /\ ~like.star /\ like.of = {d \in Glob!ToSet(name) : Glob!Lower(d) = Glob!Lower(c)}
          /\ ~glob.star /\ glob.of = {Glob!Lower(c)}
      <3>1. ~like.star /\ like.of = {d \in Glob!ToSet(name) : Glob!Lower(d) = Glob!Lower(c)}
        BY <2>3, PlainFields
      <3>2. ~glob.star /\ glob.of = {Glob!Lower(c)}
        BY <2>4, PlainFields
      <3>3. QED
        BY <3>1, <3>2
    <2> HIDE DEF like, glob
    <2>6. (like.star <=> glob.star)
          /\ \A d \in Glob!ToSet(name) : Glob!Lower(d) \in Glob!ToSet(folded) =>
               (d \in like.of <=> Glob!Lower(d) \in glob.of)
      BY <2>5, Zenon
    <2>7. QED
      BY <2>6, Zenon DEF like, glob
  <1>4. QED
    BY <1>1, <1>2, <1>3, Zenon

(* Nothing that the conversion does is a backslash for LIKE.               *)
LEMMA BackslashIsHole ==
    ASSUME NEW name, \A d \in Glob!ToSet(name) : d # "\\"
    PROVE  LikePart("\\", name) = [star |-> FALSE, of |-> {}]
  <1>1. \A d \in Glob!ToSet(name) : Glob!Lower(d) # Glob!Lower("\\")
    <2>1. Glob!Lower("\\") = "\\"
      BY Zenon DEF Glob!Lower
    <2>2. \A d \in Glob!ToSet(name) : Glob!Lower(d) = "a" \/ Glob!Lower(d) = d
      BY Zenon DEF Glob!Lower
    <2>3. QED
      BY <2>1, <2>2, Zenon
  <1>2. {d \in Glob!ToSet(name) : Glob!Lower(d) = Glob!Lower("\\")} = {}
    BY <1>1, Zenon
  <1>3. QED
    BY <1>2, Zenon DEF LikePart

(* GetNodesByGlob finds what a glob matches (sql.go, redis_storage.go,     *)
(* mock.go), whatever the names and the globs: nothing that it does not    *)
(* match, and all that it matches but for wildcards of LIKE and slashes.   *)
LEMMA GlobFindsWhatItMatches ==
    ASSUME NEW pattern \in Globs
    PROVE  Glob!GlobFinds(GlobNames, pattern)
  <1> DEFINE n == Len(pattern)
             sql == Glob!ConvertGlobToSQLPattern(pattern)
             Wild(k) == pattern[k] \in {"%", "_"}
             globs(name) == [k \in 1..n |-> GlobPart(pattern[k], name)]
             mocks(name) == [k \in 1..n |-> MockPart(pattern[k], name)]
             likes(name) == [k \in 1..Len(sql) |-> LikePart(sql[k], name)]
  <1>1. n \in Nat /\ DOMAIN pattern = 1..n
    BY TextFacts
  <1>2. /\ Len(sql) \in Nat /\ DOMAIN sql = 1..Len(sql)
        /\ (\E k \in 1..n : Wild(k)) => \E k \in 1..Len(sql) : sql[k] = "\\"
        /\ (\A k \in 1..n : ~Wild(k)) =>
              Len(sql) = n /\ \A k \in 1..n : sql[k] = LikeFor(pattern[k])
    BY <1>1, ConvertFacts, Zenon
  <1> HIDE DEF n, sql
  <1>3. ASSUME NEW name
        PROVE  /\ Glob!Matches(pattern, name) = Glob!Covers(globs(name), name)
               /\ Glob!Like(sql, name) = Glob!Covers(likes(name), name)
               /\ Len(globs(name)) = n /\ Len(mocks(name)) = n /\ Len(likes(name)) = Len(sql)
    <2>1. Glob!Matches(pattern, name) = Glob!Covers(globs(name), name)
      BY <1>1, Zenon DEF Glob!Matches, GlobPart
    <2>2. Glob!Like(sql, name) = Glob!Covers(likes(name), name)
      BY <1>2, Zenon DEF Glob!Like, LikePart
    <2>3. /\ globs(name) = [k \in 1..n |-> globs(name)[k]]
          /\ mocks(name) = [k \in 1..n |-> mocks(name)[k]]
          /\ likes(name) = [k \in 1..Len(sql) |-> likes(name)[k]]
      OBVIOUS
    <2> HIDE DEF globs, mocks, likes
    <2>4. QED
      BY <1>1, <1>2, <2>1, <2>2, <2>3, RowIsSequence
  <1>4. Glob!MockGetNodesByGlob(GlobNames, pattern)
           = {name \in GlobNames : Glob!Covers(mocks(name), name)}
    BY <1>1, Zenon DEF Glob!MockGetNodesByGlob, MockPart
  <1>5. ASSUME NEW name \in GlobNames, \E k \in 1..n : Wild(k)
        PROVE  ~Glob!Like(sql, name)
    <2>1. PICK k \in 1..Len(sql) : sql[k] = "\\"
      BY <1>2, <1>5
    <2>2. likes(name)[k] = LikePart("\\", name)
      BY <2>1
    <2>3. LikePart("\\", name) = [star |-> FALSE, of |-> {}]
      BY TextFacts, BackslashIsHole, Zenon
    <2>4. ~likes(name)[k].star /\ likes(name)[k].of = {}
      BY <2>2, <2>3
    <2>5. Len(name) \in Nat /\ Len(likes(name)) = Len(sql)
      BY <1>3, TextFacts
    <2> HIDE DEF likes
    <2>6. ~Glob!Covers(likes(name), name)
      BY <1>2, <2>4, <2>5, HoleIsUncovered
    <2>7. QED
      BY <1>3, <2>6
  <1>6. ASSUME NEW name \in GlobNames, \A k \in 1..n : ~Wild(k)
        PROVE  Glob!Like(sql, name) <=> Glob!Matches(Glob!Folded(pattern), Glob!Folded(name))
    <2> DEFINE m == Len(name)
               folded == Glob!Folded(name)
               parts == [k \in 1..n |-> GlobPart(Glob!Lower(pattern[k]), folded)]
               like == likes(name)
    <2>1. m \in Nat /\ DOMAIN name = 1..m /\ \A j \in 1..m : name[j] \in Glob!ToSet(name)
      BY TextFacts
    <2>2. folded = [j \in 1..m |-> Glob!Lower(name[j])]
      BY <2>1 DEF Glob!Folded
    <2> HIDE DEF m, folded
    <2>3. /\ DOMAIN folded = 1..m /\ \A j \in 1..m : folded[j] = Glob!Lower(name[j])
          /\ folded = [j \in 1..m |-> folded[j]]
      BY <2>2
    <2>4. Len(folded) = m /\ \A j \in 1..m : Glob!Lower(name[j]) \in Glob!ToSet(folded)
      <3>1. Len(folded) = m
        BY <2>1, <2>3, RowIsSequence
      <3>2. QED
        BY <2>3, <3>1 DEF Glob!ToSet
    <2>5. Glob!Matches(Glob!Folded(pattern), folded) = Glob!Covers(parts, folded)
      <3>1. Glob!Folded(pattern) = [k \in 1..n |-> Glob!Lower(pattern[k])]
        BY <1>1 DEF Glob!Folded
      <3> DEFINE q == Glob!Folded(pattern)
      <3> HIDE DEF q
      <3>2. DOMAIN q = 1..n /\ \A k \in 1..n : q[k] = Glob!Lower(pattern[k])
        BY <3>1 DEF q
      <3>3. Glob!Matches(q, folded) = Glob!Covers([k \in 1..n |-> GlobPart(q[k], folded)], folded)
        BY <3>2, Zenon DEF Glob!Matches, GlobPart
      <3>4. [k \in 1..n |-> GlobPart(q[k], folded)] = parts
        BY <3>2
      <3> HIDE DEF parts
      <3>5. QED
        BY <3>3, <3>4 DEF q
    <2>6. Len(parts) = n /\ Len(like) = n /\ Len(sql) = n
      <3>1. parts = [k \in 1..n |-> parts[k]]
        OBVIOUS
      <3> HIDE DEF parts
      <3>2. Len(parts) = n
        BY <1>1, <3>1, RowIsSequence
      <3>3. Len(sql) = n
        BY <1>2, <1>6
      <3>4. QED
        BY <1>3, <3>2, <3>3
    <2>7. ASSUME NEW k \in 1..n
          PROVE  /\ like[k].star <=> parts[k].star
                 /\ \A j \in 1..m : name[j] \in like[k].of <=> folded[j] \in parts[k].of
      <3> DEFINE c == pattern[k]
      <3>1. like[k] = LikePart(LikeFor(c), name) /\ parts[k] = GlobPart(Glob!Lower(c), folded)
        BY <1>2, <1>6, <2>6
      <3>2. ~Wild(k)
        BY <1>6
      <3>3. c \notin {"%", "_"}
        BY <3>2, Zenon
      <3> HIDE DEF like, parts, c
      <3>4. /\ like[k].star <=> parts[k].star
            /\ \A d \in Glob!ToSet(name) : Glob!Lower(d) \in Glob!ToSet(folded) =>
                 (d \in like[k].of <=> Glob!Lower(d) \in parts[k].of)
        BY <3>1, <3>3, LikeIsGlob, Zenon
      <3>5. QED
        BY <2>1, <2>3, <2>4, <3>4
    <2> HIDE DEF like, parts
    <2>8. Glob!Covers(like, name) <=> Glob!Covers(parts, folded)
      <3>1. Glob!Covers(like, name) => Glob!Covers(parts, folded)
        BY <1>1, <2>1, <2>4, <2>6, <2>7, MoreIsCovered DEF m
      <3>2. Glob!Covers(parts, folded) => Glob!Covers(like, name)
        BY <1>1, <2>1, <2>4, <2>6, <2>7, MoreIsCovered DEF m
      <3>3. QED
        BY <3>1, <3>2
    <2>9. QED
      BY <1>3, <2>5, <2>8 DEF like, folded
  <1>7. ASSUME NEW name \in GlobNames, Glob!Covers(mocks(name), name)
        PROVE  Glob!Covers(globs(name), name)
    <2> DEFINE mock == mocks(name)
               glob == globs(name)
    <2>1. \A k \in 1..n : (mock[k].star <=> glob[k].star) /\ mock[k].of \subseteq glob[k].of
      <3>1. \A k \in 1..n : mock[k] = MockPart(pattern[k], name) /\ glob[k] = GlobPart(pattern[k], name)
        OBVIOUS
      <3> HIDE DEF mock, glob
      <3>2. QED
        <4>1. \A c : /\ MockPart(c, name).star = (c = "*") /\ GlobPart(c, name).star = (c = "*")
                     /\ MockPart(c, name).of = IF c \in {"*", "?"} THEN Glob!ToSet(name) \ {"/"} ELSE {c}
                     /\ GlobPart(c, name).of = IF c \in {"*", "?"} THEN Glob!ToSet(name) ELSE {c}
          BY PartFields, Zenon DEF MockPart, GlobPart
        <4>2. \A c : MockPart(c, name).of \subseteq GlobPart(c, name).of
          <5>1. ASSUME NEW c PROVE MockPart(c, name).of \subseteq GlobPart(c, name).of
            <6>1. CASE c \in {"*", "?"}
              <7>1. MockPart(c, name).of = Glob!ToSet(name) \ {"/"} /\ GlobPart(c, name).of = Glob!ToSet(name)
                BY <4>1, <6>1, Zenon
              <7>2. QED
                BY <7>1, Zenon
            <6>2. CASE c \notin {"*", "?"}
              <7>1. MockPart(c, name).of = {c} /\ GlobPart(c, name).of = {c}
                BY <4>1, <6>2, Zenon
              <7>2. QED
                BY <7>1, Zenon
            <6>3. QED
              BY <6>1, <6>2, Zenon
          <5>2. QED
            BY <5>1
        <4>3. ASSUME NEW k \in 1..n PROVE (mock[k].star <=> glob[k].star) /\ mock[k].of \subseteq glob[k].of
          <5>1. mock[k] = MockPart(pattern[k], name) /\ glob[k] = GlobPart(pattern[k], name)
            BY <3>1
          <5>2. mock[k].star = glob[k].star
            <6>1. MockPart(pattern[k], name).star = (pattern[k] = "*")
              BY <4>1, Zenon
            <6>2. GlobPart(pattern[k], name).star = (pattern[k] = "*")
              BY <4>1, Zenon
            <6>3. QED
              BY <5>1, <6>1, <6>2, Zenon
          <5>3. mock[k].of \subseteq glob[k].of
            BY <4>2, <5>1, Zenon
          <5>4. QED
            BY <5>2, <5>3, Zenon
        <4>4. QED
          BY <4>3
    <2>2. Len(name) \in Nat /\ Len(mock) = n /\ Len(glob) = n /\ Glob!Covers(mock, name)
      BY <1>3, <1>7, TextFacts
    <2> HIDE DEF mock, glob
    <2>3. Glob!Covers(glob, name)
      BY <1>1, <2>1, <2>2, MoreIsCovered
    <2>4. QED
      BY <2>3 DEF glob
  <1>8. ASSUME NEW name, "/" \notin Glob!ToSet(name) \/ Glob!Literal(pattern)
        PROVE  mocks(name) = globs(name)
    <2>1. \A k \in 1..n : MockPart(pattern[k], name) = GlobPart(pattern[k], name)
      <3>1. CASE "/" \notin Glob!ToSet(name)
        <4>1. Glob!ToSet(name) \ {"/"} = Glob!ToSet(name)
          BY <3>1, Zenon
        <4>2. QED
          BY <4>1, Zenon DEF MockPart, GlobPart
      <3>2. CASE Glob!Literal(pattern)
        <4>1. \A k \in 1..n : pattern[k] \notin {"*", "?"}
          BY <1>1, <3>2, TextFacts, Zenon DEF Glob!Literal, n
        <4>2. QED
          BY <4>1, Zenon DEF MockPart, GlobPart
      <3>3. QED
        BY <1>8, <3>1, <3>2
    <2>2. QED
      BY <2>1
  <1>9. Glob!ToSet(pattern) \cap {"%", "_"} # {} <=> \E k \in 1..n : Wild(k)
    <2>1. /\ \A k \in 1..n : pattern[k] \in Glob!ToSet(pattern)
          /\ \A c \in Glob!ToSet(pattern) : \E k \in 1..n : pattern[k] = c
      BY TextFacts DEF n
    <2>2. QED
      BY <2>1, Zenon
  <1> HIDE DEF Wild, globs, mocks, likes
  <1>10. Glob!SQLGetNodesByGlob(GlobNames, pattern) =
           IF Glob!ToSet(pattern) \cap {"%", "_"} # {} THEN {}
           ELSE {name \in GlobNames : Glob!Matches(Glob!Folded(pattern), Glob!Folded(name))}
    BY <1>5, <1>6, <1>9, Zenon DEF Glob!SQLGetNodesByGlob, sql
  <1>11. Glob!MockGetNodesByGlob(GlobNames, pattern)
            \subseteq Glob!RedisGetNodesByGlob(GlobNames, pattern)
    BY <1>3, <1>4, <1>7 DEF Glob!RedisGetNodesByGlob
  <1>12. \A name \in Glob!RedisGetNodesByGlob(GlobNames, pattern)
                       \ Glob!MockGetNodesByGlob(GlobNames, pattern) :
            "/" \in Glob!ToSet(name) /\ ~Glob!Literal(pattern)
    BY <1>3, <1>4, <1>8 DEF Glob!RedisGetNodesByGlob
  <1>13. /\ Glob!SQLGetNodesByGlob(GlobNames, pattern)
               \subseteq {name \in GlobNames : Glob!Matches(Glob!Folded(pattern), Glob!Folded(name))}
         /\ Glob!ToSet(pattern) \cap {"%", "_"} = {} =>
               Glob!SQLGetNodesByGlob(GlobNames, pattern)
                 = {name \in GlobNames : Glob!Matches(Glob!Folded(pattern), Glob!Folded(name))}
    BY <1>10, Zenon
  <1>14. QED
    BY <1>11, <1>12, <1>13, Zenon DEF Glob!GlobFinds

(* Whatever the globs and the names of the storage, a glob finds what it   *)
(* matches, with the two exceptions (GetNodesByGlob of the three storages).*)
THEOREM GlobsAreMatched == AlgorithmsSpec => []GlobsFind
  <1>1. AlgorithmsInit => GlobsFind
    BY GlobFindsWhatItMatches DEF AlgorithmsInit, InputsOf, GlobsFind
  <1>2. GlobsFind /\ [FALSE]_<<part, input>> => GlobsFind'
    BY DEF GlobsFind
  <1>3. QED
    BY <1>1, <1>2, PTL DEF AlgorithmsSpec

-----------------------------------------------------------------------------
(* Ranges.  Comparing gives a sign, whatever the words.                    *)
LEMMA NaturalIsSign ==
    ASSUME NEW a, NEW b, Versions!IsVersion(a), Versions!IsVersion(b)
    PROVE  Versions!NaturalCompare(a, b) \in {-1, 0, 1}
  <1> DEFINE longer == IF Len(a) > Len(b) THEN a ELSE b
             shorter == IF Len(a) > Len(b) THEN Len(b) ELSE Len(a)
             differ == {k \in 1..shorter : a[k] # b[k]}
             i == CHOOSE k \in differ : \A l \in differ : k <= l
             last == longer[shorter + 1]
             endsAfter == last.word /\ ~Versions!IsPostRelease(last)
             nc == Versions!NaturalCompare(a, b)
  <1>1. nc = CASE differ # {} /\ a[i].word = b[i].word -> Versions!Sign(a[i].value > b[i].value)
               [] differ # {} /\ a[i].word /\ ~b[i].word -> Versions!Sign(~Versions!NumberAfterWord(a[i]))
               [] differ # {} /\ ~a[i].word /\ b[i].word -> Versions!Sign(Versions!NumberAfterWord(b[i]))
               [] differ = {} /\ Len(a) = Len(b) -> 0
               [] OTHER -> Versions!Sign((Len(a) < Len(b)) = endsAfter)
    BY DEF Versions!NaturalCompare
  <1>2. \A s : Versions!Sign(s) \in {-1, 0, 1}
    BY DEF Versions!Sign
  <1>3. differ # {} => a[i].word \in BOOLEAN /\ b[i].word \in BOOLEAN
    <2> SUFFICES ASSUME differ # {} PROVE a[i].word \in BOOLEAN /\ b[i].word \in BOOLEAN
      OBVIOUS
    <2>1. /\ Len(a) \in Nat /\ \A k \in 1..Len(a) : a[k].word \in BOOLEAN
          /\ Len(b) \in Nat /\ \A k \in 1..Len(b) : b[k].word \in BOOLEAN
      BY VersionFacts
    <2>2. differ \in SUBSET Nat /\ \A k \in differ : k \in 1..Len(a) /\ k \in 1..Len(b)
      BY <2>1
    <2> HIDE DEF differ
    <2>3. i \in differ
      BY <2>2, LeastNumber
    <2> HIDE DEF i
    <2>4. QED
      BY <2>1, <2>2, <2>3
  <1> HIDE DEF differ, i, endsAfter, nc
  <1>4. CASE differ # {}
    <2>1. CASE a[i].word = b[i].word
      BY <1>1, <1>2, <1>4, <2>1 DEF nc
    <2>2. CASE a[i].word /\ ~b[i].word
      BY <1>1, <1>2, <1>4, <2>2 DEF nc
    <2>3. CASE ~a[i].word /\ b[i].word
      BY <1>1, <1>2, <1>4, <2>3 DEF nc
    <2>4. QED
      BY <1>3, <1>4, <2>1, <2>2, <2>3
  <1>5. CASE differ = {} /\ Len(a) = Len(b)
    BY <1>1, <1>5 DEF nc
  <1>6. CASE differ = {} /\ Len(a) # Len(b)
    BY <1>1, <1>2, <1>6 DEF nc
  <1>7. QED
    BY <1>4, <1>5, <1>6 DEF nc

(* So does comparing, for which a version of numbers may be filled up.     *)
LEMMA CompareIsSign ==
    ASSUME NEW a, NEW b, Versions!IsVersion(a), Versions!IsVersion(b)
    PROVE  Versions!CompareVersions(a, b) \in {-1, 0, 1}
  <1>1. CASE Versions!IsSemver(a) /\ Versions!IsSemver(b)
    <2>1. Versions!IsVersion(Versions!Triple(a)) /\ Versions!IsVersion(Versions!Triple(b))
      BY <1>1, TripleFacts
    <2>2. QED
      BY <1>1, <2>1, NaturalIsSign DEF Versions!CompareVersions
  <1>2. CASE ~(Versions!IsSemver(a) /\ Versions!IsSemver(b))
    BY <1>2, NaturalIsSign DEF Versions!CompareVersions
  <1>3. QED
    BY <1>1, <1>2

(* Where an event stands among the versions, in their true order.          *)
Place(v) == IF v = <<>> THEN 0 ELSE CHOOSE k \in DOMAIN InOrder : InOrder[k] = v
At(e) == Place(e.at)
IsEvent(e) ==
    /\ e.kind \in {"introduced", "fixed", "last_affected"}
    /\ e.at \in VersionsInOrder \/ (e.kind = "introduced" /\ e.at = <<>>)
HasReached(version, e) ==
    IF e.kind = "last_affected" THEN At(e) < Place(version) ELSE At(e) <= Place(version)

(* A version has a place among the versions, from 1 on.                    *)
LEMMA PlaceFacts ==
    ASSUME NEW v \in VersionsInOrder
    PROVE  /\ Versions!IsVersion(v) /\ v # <<>>
           /\ Place(v) \in DOMAIN InOrder /\ InOrder[Place(v)] = v /\ Place(v) \in Nat \ {0}
  <1>1. Versions!IsVersion(v)
    BY RangesAssumption
  <1>2. v # <<>>
    BY <1>1 DEF Versions!IsVersion
  <1>3. \E k \in DOMAIN InOrder : InOrder[k] = v
    BY DEF VersionsInOrder
  <1>4. Place(v) \in DOMAIN InOrder /\ InOrder[Place(v)] = v
    BY <1>2, <1>3 DEF Place
  <1>5. DOMAIN InOrder \subseteq Nat \ {0}
    BY RangesAssumption
  <1>6. QED
    BY <1>1, <1>2, <1>4, <1>5

(* Comparing two of the versions is comparing their places.                *)
LEMMA PlacesAreOrdered ==
    ASSUME NEW v \in VersionsInOrder, NEW w \in VersionsInOrder
    PROVE  LET c == Versions!CompareVersions(v, w)
           IN  /\ c \in Int
               /\ (c < 0 <=> Place(v) < Place(w)) /\ (c >= 0 <=> Place(w) <= Place(v))
               /\ (c > 0 <=> Place(w) < Place(v))
               /\ (Place(v) = Place(w) <=> v = w)
  <1> DEFINE c == Versions!CompareVersions(v, w)
             j == Place(v)
             k == Place(w)
  <1>1. j \in DOMAIN InOrder /\ k \in DOMAIN InOrder /\ InOrder[j] = v /\ InOrder[k] = w
        /\ j \in Nat /\ k \in Nat
    BY PlaceFacts
  <1>2. c \in {-1, 0, 1}
    BY PlaceFacts, CompareIsSign
  <1>3. (j < k => c < 0) /\ (j = k => c = 0) /\ (j > k => c > 0)
    BY <1>1, RangesAssumption
  <1>4. j = k <=> v = w
    BY <1>1
  <1> HIDE DEF c, j, k
  <1>5. QED
    <2>1. c \in Int /\ (j < k \/ j = k \/ j > k)
      BY <1>1, <1>2
    <2>2. /\ (c < 0 <=> j < k) /\ (c >= 0 <=> k <= j) /\ (c > 0 <=> k < j)
      BY <1>1, <1>2, <1>3
    <2>3. QED
      BY <1>4, <2>1, <2>2 DEF c, j, k

(* The order of events is that of their places, and whether a version has  *)
(* come to an event is a matter of places too.                             *)
LEMMA EventFacts ==
    ASSUME NEW e, IsEvent(e), NEW f, IsEvent(f), NEW version \in VersionsInOrder
    PROVE  /\ At(e) \in Nat /\ At(f) \in Nat /\ Place(version) \in Nat
           /\ Versions!Earlier(e, f) <=> At(e) < At(f)
           /\ At(e) = At(f) <=> e.at = f.at
           /\ HasReached(version, e) <=>
                CASE e.kind = "introduced" ->
                        Versions!Beginning(e) \/ Versions!CompareVersions(version, e.at) >= 0
                  [] e.kind = "fixed" -> Versions!CompareVersions(version, e.at) >= 0
                  [] e.kind = "last_affected" -> Versions!CompareVersions(version, e.at) > 0
  <1>1. \A g \in {e, f} : /\ Versions!Beginning(g) <=> g.at = <<>>
                          /\ Versions!Beginning(g) => At(g) = 0 /\ g.kind = "introduced"
                          /\ ~Versions!Beginning(g) => g.at \in VersionsInOrder /\ At(g) \in Nat \ {0}
    <2>1. ASSUME NEW g \in {e, f}
          PROVE  /\ Versions!Beginning(g) <=> g.at = <<>>
                 /\ Versions!Beginning(g) => At(g) = 0 /\ g.kind = "introduced"
                 /\ ~Versions!Beginning(g) => g.at \in VersionsInOrder /\ At(g) \in Nat \ {0}
      <3>1. CASE g.at = <<>>
        <4>1. <<>> \notin VersionsInOrder
          BY PlaceFacts
        <4>2. g.kind = "introduced"
          BY <3>1, <4>1 DEF IsEvent
        <4>3. QED
          BY <3>1, <4>2 DEF Versions!Beginning, At, Place
      <3>2. CASE g.at # <<>>
        <4>1. g.at \in VersionsInOrder
          BY <3>2 DEF IsEvent
        <4>2. QED
          BY <3>2, <4>1, PlaceFacts DEF Versions!Beginning, At
      <3>3. QED
        BY <3>1, <3>2
    <2>2. QED
      BY <2>1
  <1>2. At(e) \in Nat /\ At(f) \in Nat /\ Place(version) \in Nat \ {0}
    BY <1>1, PlaceFacts
  <1>3. Versions!Earlier(e, f) <=> At(e) < At(f)
    <2>1. CASE Versions!Beginning(e) \/ Versions!Beginning(f)
      <3>1. Versions!Earlier(e, f) <=> Versions!Beginning(e) /\ ~Versions!Beginning(f)
        BY <2>1 DEF Versions!Earlier
      <3>2. QED
        BY <1>1, <1>2, <2>1, <3>1
    <2>2. CASE ~(Versions!Beginning(e) \/ Versions!Beginning(f))
      <3>1. Versions!Earlier(e, f) <=> Versions!CompareVersions(e.at, f.at) < 0
        BY <2>2 DEF Versions!Earlier
      <3>2. e.at \in VersionsInOrder /\ f.at \in VersionsInOrder
        BY <1>1, <2>2
      <3>3. QED
        BY <3>1, <3>2, PlacesAreOrdered DEF At
    <2>3. QED
      BY <2>1, <2>2
  <1>4. At(e) = At(f) <=> e.at = f.at
    <2>1. CASE Versions!Beginning(e) \/ Versions!Beginning(f)
      BY <1>1, <2>1
    <2>2. CASE ~(Versions!Beginning(e) \/ Versions!Beginning(f))
      <3>1. e.at \in VersionsInOrder /\ f.at \in VersionsInOrder
        BY <1>1, <2>2
      <3>2. QED
        BY <3>1, PlacesAreOrdered DEF At
    <2>3. QED
      BY <2>1, <2>2
  <1> DEFINE cmp == Versions!CompareVersions(version, e.at)
             p == At(e)
             v == Place(version)
  <1>5. ~Versions!Beginning(e) => (cmp >= 0 <=> p <= v) /\ (cmp > 0 <=> p < v)
    BY <1>1, PlacesAreOrdered DEF At
  <1>6. Versions!Beginning(e) => p <= v
    BY <1>1, <1>2
  <1> DEFINE b == Versions!Beginning(e)
  <1>7. /\ HasReached(version, e) <=> IF e.kind = "last_affected" THEN p < v ELSE p <= v
        /\ b => e.kind = "introduced"
        /\ e.kind \in {"introduced", "fixed", "last_affected"}
    BY <1>1 DEF HasReached, IsEvent
  <1> HIDE DEF cmp, p, v, b
  <1>8. HasReached(version, e) <=> CASE e.kind = "introduced" -> b \/ cmp >= 0
                                    [] e.kind = "fixed" -> cmp >= 0
                                    [] e.kind = "last_affected" -> cmp > 0
    <2>1. CASE e.kind = "introduced"
      BY <1>5, <1>6, <1>7, <2>1 DEF b
    <2>2. CASE e.kind = "fixed"
      BY <1>5, <1>7, <2>2 DEF b
    <2>3. CASE e.kind = "last_affected"
      BY <1>5, <1>7, <2>3 DEF b
    <2>4. QED
      BY <1>7, <2>1, <2>2, <2>3
  <1>9. QED
    BY <1>2, <1>3, <1>4, <1>8 DEF b, cmp

(* A set of places that holds, with a place, all before it.                *)
LEMMA PrefixCount ==
    ASSUME NEW m \in Nat, NEW A \in SUBSET (1..m), \A k \in A : \A l \in 1..k : l \in A
    PROVE  \E c \in 0..m : A = 1..c /\ Versions!Cardinality(A) = c
  <1>1. \A S : Versions!Cardinality(S) = Cardinality(S)
    BY DEF Versions!Cardinality, Cardinality
  <1>2. CASE A = {}
    <2>1. A = 1..0 /\ Cardinality(A) = 0 /\ 0 \in 0..m
      BY <1>2, FS_EmptySet
    <2>2. QED
      BY <1>1, <2>1
  <1>3. CASE A # {}
    <2> DEFINE c == Greatest(A)
    <2>1. c \in A /\ \A k \in A : k <= c
      BY <1>3, GreatestPlace
    <2> HIDE DEF c
    <2>3. c \in 1..m /\ A = 1..c
      <3>1. c \in 1..m /\ \A k \in A : k \in 1..m /\ k <= c
        BY <2>1
      <3>2. \A k \in A : k \in 1..c
        BY <3>1
      <3>3. \A k \in 1..c : k \in A
        BY <2>1
      <3>4. QED
        BY <3>1, <3>2, <3>3
    <2>4. Cardinality(1..c) = c
      <3>1. c \in Int /\ 1 \in Int /\ 1 <= c
        BY <2>3
      <3>2. Cardinality(1..c) = IF 1 > c THEN 0 ELSE c - 1 + 1
        BY <3>1, FS_Interval
      <3>3. QED
        BY <3>1, <3>2
    <2>5. QED
      BY <1>1, <2>3, <2>4
  <1>4. QED
    BY <1>2, <1>3

(* A sequence with an element inserted behind the first c.                 *)
LEMMA InsertFacts ==
    ASSUME NEW X, NEW s \in Seq(X), NEW c \in 0..Len(s), NEW e \in X
    PROVE  LET u == Versions!InsertAt(s, 1 + c, e)
           IN  /\ u \in Seq(X) /\ Len(s) \in Nat /\ Len(u) = Len(s) + 1
               /\ \A l \in 1..Len(u) : u[l] = IF l <= c THEN s[l] ELSE IF l = c + 1 THEN e ELSE s[l - 1]
  <1> DEFINE m == Len(s)
             left == SubSeq(s, 1, c)
             right == SubSeq(s, c + 1, m)
             front == left \o <<e>>
             u == front \o right
  <1>1. m \in Nat /\ c \in Nat /\ c <= m
    OBVIOUS
  <1>2. Versions!InsertAt(s, 1 + c, e) = u
    <2>1. (1 + c) - 1 = c /\ 1 + c = c + 1
      BY <1>1
    <2>2. Versions!InsertAt(s, c + 1, e) = SubSeq(s, 1, (c + 1) - 1) \o <<e>> \o right
      BY DEF Versions!InsertAt
    <2>3. QED
      BY <2>1, <2>2
  <1>3. left \in Seq(X) /\ Len(left) = c /\ \A l \in 1..c : left[l] = s[l]
    <2>1. /\ 1 \in Int /\ c \in Int /\ c - 1 + 1 = c
          /\ \A i \in 1..c : s[i] \in X /\ 1 + i - 1 = i
      BY <1>1
    <2>2. /\ left \in Seq(X) /\ Len(left) = IF 1 <= c THEN c - 1 + 1 ELSE 0
          /\ \A l \in 1..(c - 1 + 1) : left[l] = s[1 + l - 1]
      BY <2>1, SubSeqProperties
    <2> HIDE DEF left
    <2>3. QED
      BY <1>1, <2>1, <2>2
  <1>4. right \in Seq(X) /\ Len(right) = m - c /\ \A l \in 1..(m - c) : right[l] = s[c + l]
    <2>1. /\ c + 1 \in Int /\ m \in Int /\ m - (c + 1) + 1 = m - c
          /\ (IF c + 1 <= m THEN m - (c + 1) + 1 ELSE 0) = m - c
          /\ \A i \in (c + 1)..m : s[i] \in X
      BY <1>1
    <2>2. /\ right \in Seq(X) /\ Len(right) = IF c + 1 <= m THEN m - (c + 1) + 1 ELSE 0
          /\ \A l \in 1..(m - (c + 1) + 1) : right[l] = s[(c + 1) + l - 1]
      <3> DEFINE d == c + 1
      <3>1. d \in Int /\ m \in Int /\ \A i \in d..m : s[i] \in X
        BY <2>1
      <3> HIDE DEF d, m
      <3>2. /\ SubSeq(s, d, m) \in Seq(X) /\ Len(SubSeq(s, d, m)) = IF d <= m THEN m - d + 1 ELSE 0
            /\ \A l \in 1..(m - d + 1) : SubSeq(s, d, m)[l] = s[d + l - 1]
        BY <3>1, SubSeqProperties
      <3>3. QED
        BY <3>2 DEF d
    <2>3. \A l \in 1..(m - c) : (c + 1) + l - 1 = c + l
      BY <1>1
    <2> HIDE DEF right
    <2>4. QED
      BY <2>1, <2>2, <2>3
  <1>5. <<e>> \in Seq(X) /\ Len(<<e>>) = 1 /\ <<e>>[1] = e
    BY Singletons
  <1> DEFINE one == <<e>>
  <1> HIDE DEF left, right, one, m
  <1>6. /\ front \in Seq(X) /\ Len(front) = c + 1
        /\ \A l \in 1..c : front[l] = s[l]
        /\ front[c + 1] = e
    <2>1. one \in Seq(X) /\ Len(one) = 1 /\ one[1] = e /\ front = left \o one
      BY <1>5 DEF one
    <2>2. left \in Seq(X) /\ one \in Seq(X)
      BY <1>3, <2>1
    <2>3. IsJoined(left \o one, left, one, X)
      BY <2>2, Joining
    <2>4. IsJoined(front, left, one, X)
      BY <2>1, <2>3
    <2> HIDE DEF front
    <2>5. QED
      BY <1>1, <1>3, <2>1, <2>4 DEF IsJoined
  <1> HIDE DEF front
  <1>7. /\ u \in Seq(X) /\ Len(u) = Len(front) + Len(right)
        /\ \A l \in 1..Len(front) : u[l] = front[l]
        /\ \A l \in 1..Len(right) : u[Len(front) + l] = right[l]
    <2>1. IsJoined(front \o right, front, right, X)
      BY <1>4, <1>6, Joining
    <2>2. IsJoined(u, front, right, X)
      BY <2>1
    <2> HIDE DEF u
    <2>3. QED
      BY <2>2 DEF IsJoined
  <1> HIDE DEF u
  <1>8. Len(u) = m + 1
    BY <1>1, <1>4, <1>6, <1>7
  <1>9. ASSUME NEW l \in 1..(m + 1)
        PROVE  u[l] = IF l <= c THEN s[l] ELSE IF l = c + 1 THEN e ELSE s[l - 1]
    <2>1. CASE l <= c
      <3>1. l \in 1..c /\ l \in 1..(c + 1)
        BY <1>1, <2>1
      <3>2. QED
        BY <1>6, <1>7, <2>1, <3>1
    <2>2. CASE l = c + 1
      <3>1. l \in 1..(c + 1) /\ ~(l <= c)
        BY <1>1, <2>2
      <3>2. QED
        BY <1>6, <1>7, <2>2, <3>1
    <2>3. CASE l > c + 1
      <3>1. /\ l - (c + 1) \in 1..(m - c) /\ (c + 1) + (l - (c + 1)) = l
            /\ c + (l - (c + 1)) = l - 1 /\ ~(l <= c) /\ l # c + 1
        BY <1>1, <2>3
      <3>2. right[l - (c + 1)] = s[l - 1]
        BY <1>4, <3>1
      <3>3. u[(c + 1) + (l - (c + 1))] = right[l - (c + 1)]
        BY <1>4, <1>6, <1>7, <3>1
      <3>4. QED
        BY <3>1, <3>2, <3>3
    <2>4. QED
      BY <1>1, <2>1, <2>2, <2>3
  <1>10. QED
    BY <1>1, <1>2, <1>7, <1>8, <1>9 DEF m

(* How far a version has come among the events.  A list of events is sorted*)
(* by inserting them one after the other.                                  *)
Insertion(s, e) ==
    Versions!InsertAt(s, 1 + Versions!Cardinality({k \in DOMAIN s : ~Versions!Earlier(e, s[k])}), e)
IsSortRow(r, n, events) ==
    /\ r[0] = <<>>
    /\ \A k \in 1..n : r[k] = Insertion(r[k - 1], events[k])
    /\ Versions!SortRangeEvents(events) = r[n]

(* Inserting an event gives a sequence.                                    *)
LEMMA InsertionIsSeq ==
    ASSUME NEW X, NEW s \in Seq(X), NEW e \in X
    PROVE  Insertion(s, e) \in Seq(X)
  <1> DEFINE A == {k \in DOMAIN s : ~Versions!Earlier(e, s[k])}
             c == Versions!Cardinality(A)
  <1>1. DOMAIN s = 1..Len(s) /\ Len(s) \in Nat
    OBVIOUS
  <1>2. A \subseteq 1..Len(s)
    BY <1>1
  <1>3. c = Cardinality(A)
    BY DEF Versions!Cardinality, Cardinality
  <1> HIDE DEF A
  <1>4. c \in 0..Len(s)
    <2>1. IsFiniteSet(1..Len(s)) /\ Cardinality(1..Len(s)) = IF 1 > Len(s) THEN 0 ELSE Len(s) - 1 + 1
      BY <1>1, FS_Interval
    <2>2. IsFiniteSet(A) /\ Cardinality(A) <= Cardinality(1..Len(s))
      BY <1>2, <2>1, FS_Subset
    <2>3. Cardinality(A) \in Nat
      BY <2>2, FS_CardinalityType
    <2>4. QED
      BY <1>1, <1>3, <2>1, <2>2, <2>3
  <1> HIDE DEF c
  <1>5. Versions!InsertAt(s, 1 + c, e) \in Seq(X)
    BY <1>4, InsertFacts
  <1>6. QED
    BY <1>5 DEF Insertion, A, c

(* The sorted list is the last of a row of lists, each of which is the one *)
(* before with one event inserted.                                         *)
LEMMA SortRow ==
    ASSUME NEW n \in Nat, NEW events, DOMAIN events = 1..n
    PROVE  \E r : IsSortRow(r, n, events)
  <1> DEFINE All == SUBSET (1..n)
             X == {events[k] : k \in 1..n}
             Lists == Seq(X)
             step == [p \in (1..n) \X Lists |-> Insertion(p[2], events[p[1]])]
             IsFold(iter) ==
                iter = [S \in All |-> IF S = {} THEN <<>>
                                      ELSE Insertion(iter[S \ {Greatest(S)}], events[Greatest(S)])]
             iter == CHOOSE iter : IsFold(iter)
  <1>1. \E g : IsFold(g)
    <2>1. <<>> \in Lists
      OBVIOUS
    <2>2. step \in [(1..n) \X Lists -> Lists]
      <3>1. ASSUME NEW p \in (1..n) \X Lists PROVE Insertion(p[2], events[p[1]]) \in Lists
        <4>1. p[2] \in Lists /\ events[p[1]] \in X
          BY <3>1
        <4> HIDE DEF X
        <4>2. QED
          BY <4>1, InsertionIsSeq
      <3> HIDE DEF Lists
      <3>2. QED
        BY <3>1
    <2> HIDE DEF step, Lists
    <2>3. PICK g : FoldsLeft(g, n, Lists, <<>>, step)
      BY <2>1, <2>2, LeftFold
    <2>4. ASSUME NEW S \in All, S # {}
          PROVE  g[S] = Insertion(g[S \ {Greatest(S)}], events[Greatest(S)])
      <3> DEFINE k == Greatest(S)
                 v == g[S \ {k}]
      <3>1. k \in 1..n /\ v \in Lists /\ g[S] = step[<<k, v>>]
        BY <2>3, <2>4 DEF FoldsLeft
      <3> HIDE DEF k, v
      <3>2. step[<<k, v>>] = Insertion(v, events[k])
        BY <3>1 DEF step
      <3>3. QED
        BY <3>1, <3>2 DEF k, v
    <2>5. g \in [All -> Lists] /\ g[{}] = <<>>
      BY <2>3 DEF FoldsLeft
    <2> HIDE DEF All
    <2>6. IsFold(g)
      BY <2>4, <2>5
    <2>7. QED
      BY <2>6
  <1>2. IsFold(iter)
    <2> HIDE DEF IsFold
    <2>1. QED
      BY <1>1
  <1>3. Versions!SortRangeEvents(events) = iter[1..n]
    BY DEF Versions!SortRangeEvents, Versions!FoldLeft, Versions!MapThenFoldSet, Versions!Max, Insertion, Greatest
  <1> DEFINE r == [k \in 0..n |-> iter[1..k]]
  <1> HIDE DEF iter
  <1>4. r[0] = <<>>
    <2>1. 1..0 = {} /\ {} \in All /\ 0 \in 0..n
      OBVIOUS
    <2>2. iter[{}] = <<>>
      BY <1>2, <2>1
    <2>3. QED
      BY <2>1, <2>2
  <1>5. ASSUME NEW k \in 1..n PROVE r[k] = Insertion(r[k - 1], events[k])
    <2> DEFINE S == 1..k
    <2>1. S \in All /\ S # {} /\ Greatest(S) = k /\ S \ {k} = 1..(k - 1)
      BY LastPlace
    <2>2. r[k] = iter[S] /\ r[k - 1] = iter[1..(k - 1)]
      OBVIOUS
    <2> HIDE DEF S, r, All
    <2>3. iter[S] = Insertion(iter[S \ {k}], events[k])
      BY <1>2, <2>1
    <2>4. QED
      BY <2>1, <2>2, <2>3
  <1>6. Versions!SortRangeEvents(events) = r[n]
    BY <1>3
  <1> HIDE DEF r
  <1>7. IsSortRow(r, n, events)
    BY <1>4, <1>5, <1>6 DEF IsSortRow
  <1>8. QED
    BY <1>7

(* In the sorted list an event comes before those of later versions, and   *)
(* the introduced event of a version before its last affected one.         *)
Before(e, f) ==
    \/ At(e) < At(f)
    \/ At(e) = At(f) /\ e.kind = "introduced" /\ f.kind = "last_affected"
Sorted(s) == \A i, j \in 1..Len(s) : i < j => Before(s[i], s[j])
SameElements(u, s, e) ==
    /\ \A l \in 1..Len(u) : u[l] = e \/ \E k \in 1..Len(s) : u[l] = s[k]
    /\ \E l \in 1..Len(u) : u[l] = e
    /\ \A k \in 1..Len(s) : \E l \in 1..Len(u) : u[l] = s[k]

(* Inserting an event where the code does keeps the list sorted.           *)
LEMMA InsertSorts ==
    ASSUME NEW E, \A x \in E : IsEvent(x), NEW version \in VersionsInOrder,
           NEW s \in Seq(E), Sorted(s), NEW e \in E,
           \A k \in 1..Len(s) : At(s[k]) = At(e) => Before(s[k], e)
    PROVE  /\ Insertion(s, e) \in Seq(E)
           /\ Sorted(Insertion(s, e)) /\ SameElements(Insertion(s, e), s, e)
  <1> DEFINE A == {k \in DOMAIN s : ~Versions!Earlier(e, s[k])}
             c == Versions!Cardinality(A)
             m == Len(s)
  <1>1. DOMAIN s = 1..m /\ m \in Nat /\ \A k \in 1..m : s[k] \in E
    OBVIOUS
  <1>2. At(e) \in Nat /\ \A k \in 1..m : At(s[k]) \in Nat /\ (Versions!Earlier(e, s[k]) <=> At(e) < At(s[k]))
    <2>1. ASSUME NEW k \in 1..m PROVE At(s[k]) \in Nat /\ (Versions!Earlier(e, s[k]) <=> At(e) < At(s[k]))
      <3>1. IsEvent(e) /\ IsEvent(s[k])
        BY <1>1
      <3>2. QED
        BY <3>1, EventFacts
    <2>2. At(e) \in Nat
      <3>1. IsEvent(e)
        OBVIOUS
      <3>2. QED
        BY <3>1, EventFacts
    <2>3. QED
      BY <2>1, <2>2
  <1>3. A \subseteq 1..m /\ \A k \in 1..m : k \in A <=> At(s[k]) <= At(e)
    BY <1>1, <1>2
  <1>4. \A k, l \in 1..m : l < k => At(s[l]) <= At(s[k])
    BY <1>2 DEF Sorted, Before
  <1> HIDE DEF A, m
  <1>5. c \in 0..m /\ A = 1..c
    <2>1. \A k \in A : \A l \in 1..k : l \in A
      <3> SUFFICES ASSUME NEW k \in A, NEW l \in 1..k PROVE l \in A
        OBVIOUS
      <3>1. k \in 1..m /\ l \in 1..m /\ (l = k \/ l < k) /\ At(s[k]) <= At(e)
        BY <1>1, <1>3
      <3>2. At(s[l]) <= At(s[k])
        BY <1>2, <1>4, <3>1
      <3>3. QED
        BY <1>2, <1>3, <3>1, <3>2
    <2>2. \E d \in 0..m : A = 1..d /\ Versions!Cardinality(A) = d
      BY <1>1, <1>3, <2>1, PrefixCount
    <2>3. QED
      BY <2>2
  <1> DEFINE u == Insertion(s, e)
  <1> HIDE DEF c
  <1>6. /\ u \in Seq(E) /\ Len(u) = m + 1
        /\ \A l \in 1..(m + 1) : u[l] = IF l <= c THEN s[l] ELSE IF l = c + 1 THEN e ELSE s[l - 1]
    <2>1. u = Versions!InsertAt(s, 1 + c, e)
      BY DEF Insertion, A, c
    <2>2. c \in 0..Len(s)
      BY <1>5 DEF m
    <2> DEFINE v == Versions!InsertAt(s, 1 + c, e)
    <2>3. /\ v \in Seq(E) /\ Len(s) \in Nat /\ Len(v) = Len(s) + 1
          /\ \A l \in 1..Len(v) : v[l] = IF l <= c THEN s[l] ELSE IF l = c + 1 THEN e ELSE s[l - 1]
      BY <2>2, InsertFacts
    <2> HIDE DEF u, v
    <2>4. u = v
      BY <2>1 DEF v
    <2>5. QED
      BY <2>3, <2>4 DEF m
  <1> HIDE DEF u
  <1>7. \A l \in 1..m : IF l <= c THEN Before(s[l], e) ELSE Before(e, s[l])
    <2> SUFFICES ASSUME NEW l \in 1..m PROVE IF l <= c THEN Before(s[l], e) ELSE Before(e, s[l])
      OBVIOUS
    <2>1. l <= c <=> l \in A
      BY <1>1, <1>5
    <2>2. CASE l <= c
      <3>1. At(s[l]) <= At(e)
        BY <1>3, <2>1, <2>2
      <3>2. QED
        BY <1>2, <2>2, <3>1 DEF Before, m
    <2>3. CASE ~(l <= c)
      <3>1. At(e) < At(s[l])
        BY <1>2, <1>3, <2>1, <2>3
      <3>2. QED
        BY <2>3, <3>1 DEF Before
    <2>4. QED
      BY <2>2, <2>3
  <1>8. Sorted(u)
    <2> SUFFICES ASSUME NEW i \in 1..(m + 1), NEW j \in 1..(m + 1), i < j PROVE Before(u[i], u[j])
      BY <1>6 DEF Sorted
    <2>0. \A k, l \in 1..m : k < l => Before(s[k], s[l])
      BY DEF Sorted, m
    <2>1. CASE i <= c
      <3>1. u[i] = s[i] /\ i \in 1..m
        BY <1>1, <1>5, <1>6, <2>1
      <3>2. CASE j <= c
        <4>1. u[j] = s[j] /\ j \in 1..m
          BY <1>1, <1>5, <1>6, <3>2
        <4>2. QED
          BY <2>0, <3>1, <4>1
      <3>3. CASE j = c + 1
        <4>1. u[j] = e
          BY <1>1, <1>5, <1>6, <3>3
        <4>2. QED
          BY <1>7, <2>1, <3>1, <4>1
      <3>4. CASE j > c + 1
        <4>1. u[j] = s[j - 1] /\ j - 1 \in 1..m /\ i < j - 1
          BY <1>1, <1>5, <1>6, <2>1, <3>4
        <4>2. QED
          BY <2>0, <3>1, <4>1
      <3>5. QED
        BY <1>1, <1>5, <3>2, <3>3, <3>4
    <2>2. CASE i = c + 1
      <3>1. u[i] = e /\ u[j] = s[j - 1] /\ j - 1 \in 1..m /\ ~(j - 1 <= c)
        BY <1>1, <1>5, <1>6, <2>2
      <3>2. QED
        BY <1>7, <3>1
    <2>3. CASE i > c + 1
      <3>1. /\ u[i] = s[i - 1] /\ u[j] = s[j - 1]
            /\ i - 1 \in 1..m /\ j - 1 \in 1..m /\ i - 1 < j - 1
        BY <1>1, <1>5, <1>6, <2>3
      <3>2. QED
        BY <2>0, <3>1
    <2>4. QED
      BY <1>1, <1>5, <2>1, <2>2, <2>3
  <1>9. SameElements(u, s, e)
    <2>1. \A l \in 1..(m + 1) : u[l] = e \/ \E k \in 1..m : u[l] = s[k]
      <3> SUFFICES ASSUME NEW l \in 1..(m + 1) PROVE u[l] = e \/ \E k \in 1..m : u[l] = s[k]
        OBVIOUS
      <3>1. CASE l <= c
        BY <1>1, <1>5, <1>6, <3>1
      <3>2. CASE l = c + 1
        BY <1>1, <1>5, <1>6, <3>2
      <3>3. CASE l > c + 1
        <4>1. l - 1 \in 1..m /\ u[l] = s[l - 1]
          BY <1>1, <1>5, <1>6, <3>3
        <4>2. QED
          BY <4>1
      <3>4. QED
        BY <1>1, <1>5, <3>1, <3>2, <3>3
    <2>2. c + 1 \in 1..(m + 1) /\ u[c + 1] = e
      BY <1>1, <1>5, <1>6
    <2>3. \A k \in 1..m : \E l \in 1..(m + 1) : u[l] = s[k]
      <3> SUFFICES ASSUME NEW k \in 1..m PROVE \E l \in 1..(m + 1) : u[l] = s[k]
        OBVIOUS
      <3>1. CASE k <= c
        <4>1. k \in 1..(m + 1) /\ u[k] = s[k]
          BY <1>1, <1>5, <1>6, <3>1
        <4>2. QED
          BY <4>1
      <3>2. CASE ~(k <= c)
        <4>1. k + 1 \in 1..(m + 1) /\ ~(k + 1 <= c) /\ k + 1 # c + 1 /\ (k + 1) - 1 = k
          BY <1>1, <1>5, <3>2
        <4>2. u[k + 1] = s[k]
          BY <1>6, <4>1
        <4>3. QED
          BY <4>1, <4>2
      <3>3. QED
        BY <3>1, <3>2
    <2>4. QED
      BY <1>6, <2>1, <2>2, <2>3 DEF SameElements, m
  <1>10. QED
    BY <1>6, <1>8, <1>9 DEF u

(* Sorted, a list of events has the same events, in their order.           *)
IsSortOf(s, events, n) ==
    /\ s \in Seq({events[k] : k \in 1..n}) /\ Sorted(s)
    /\ \A k \in 1..n : \E l \in 1..Len(s) : s[l] = events[k]

(* The sort gives the events, sorted, in whatever order they were listed.  *)
LEMMA SortSorts ==
    ASSUME NEW n \in Nat, NEW events, DOMAIN events = 1..n, NEW version \in VersionsInOrder,
           \A k \in 1..n : IsEvent(events[k]),
           \A j, k \in 1..n : j < k /\ events[j].at = events[k].at =>
              events[j].kind = "introduced" /\ events[k].kind = "last_affected"
    PROVE  IsSortOf(Versions!SortRangeEvents(events), events, n)
  <1> DEFINE E == {events[k] : k \in 1..n}
             IsSo(s, k) == /\ s \in Seq(E) /\ Sorted(s)
                           /\ \A l \in 1..Len(s) : \E j \in 1..k : s[l] = events[j]
                           /\ \A j \in 1..k : \E l \in 1..Len(s) : s[l] = events[j]
  <1>1. PICK r : IsSortRow(r, n, events)
    BY SortRow
  <1> DEFINE P == {k \in 0..n : IsSo(r[k], k)}
  <1>2. 0 \in P
    <2>1. <<>> \in Seq(E) /\ Len(<<>>) = 0 /\ 1..0 = {} /\ r[0] = <<>> /\ 0 \in 0..n
      BY <1>1 DEF IsSortRow
    <2>2. Sorted(<<>>)
      BY DEF Sorted
    <2>3. QED
      BY <2>1, <2>2
  <1>3. ASSUME NEW k \in 0..(n - 1), k \in P PROVE k + 1 \in P
    <2> DEFINE s == r[k]
               e == events[k + 1]
               u == r[k + 1]
    <2>1. /\ k \in Nat /\ k + 1 \in 1..n /\ k + 1 \in 0..n /\ (k + 1) - 1 = k
          /\ u = Insertion(s, e)
      <3>1. k + 1 \in 1..n /\ (k + 1) - 1 = k /\ k + 1 \in 0..n
        OBVIOUS
      <3>2. r[k + 1] = Insertion(r[(k + 1) - 1], events[k + 1])
        BY <1>1, <3>1 DEF IsSortRow
      <3>3. QED
        BY <3>1, <3>2
    <2>2. IsSo(s, k)
      BY <1>3
    <2> HIDE DEF P, s, u
    <2>3. e \in E /\ \A x \in E : IsEvent(x)
      BY <2>1
    <2>4. \A l \in 1..Len(s) : At(s[l]) = At(e) => Before(s[l], e)
      <3> SUFFICES ASSUME NEW l \in 1..Len(s), At(s[l]) = At(e) PROVE Before(s[l], e)
        OBVIOUS
      <3>1. PICK j \in 1..k : s[l] = events[j]
        BY <2>2
      <3>2. j \in 1..n /\ j < k + 1
        BY <2>1
      <3>3. IsEvent(events[j]) /\ IsEvent(e)
        BY <2>1, <3>2
      <3>4. events[j].at = e.at
        <4> DEFINE d == events[j]
        <4>1. IsEvent(d) /\ IsEvent(e) /\ At(d) = At(e)
          BY <3>1, <3>3
        <4> HIDE DEF d, e
        <4>2. d.at = e.at
          BY <4>1, EventFacts
        <4>3. QED
          BY <4>2 DEF d, e
      <3>5. events[j].kind = "introduced" /\ e.kind = "last_affected"
        BY <2>1, <3>2, <3>4
      <3>6. QED
        BY <3>1, <3>5 DEF Before
    <2> HIDE DEF E, e
    <2>5. s \in Seq(E) /\ Sorted(s)
      BY <2>2
    <2>6. u \in Seq(E) /\ Sorted(u) /\ SameElements(u, s, e)
      BY <2>1, <2>3, <2>4, <2>5, InsertSorts
    <2>7. \A l \in 1..Len(u) : \E j \in 1..(k + 1) : u[l] = events[j]
      <3> SUFFICES ASSUME NEW l \in 1..Len(u) PROVE \E j \in 1..(k + 1) : u[l] = events[j]
        OBVIOUS
      <3>1. CASE u[l] = e
        <4>1. k + 1 \in 1..(k + 1)
          BY <2>1
        <4>2. QED
          BY <3>1, <4>1 DEF e
      <3>2. CASE u[l] # e
        <4>1. PICK i \in 1..Len(s) : u[l] = s[i]
          BY <2>6, <3>2 DEF SameElements
        <4>2. PICK j \in 1..k : s[i] = events[j]
          BY <2>2
        <4>3. j \in 1..(k + 1)
          BY <2>1
        <4>4. QED
          BY <4>1, <4>2, <4>3
      <3>3. QED
        BY <3>1, <3>2
    <2>8. \A j \in 1..(k + 1) : \E l \in 1..Len(u) : u[l] = events[j]
      <3> SUFFICES ASSUME NEW j \in 1..(k + 1) PROVE \E l \in 1..Len(u) : u[l] = events[j]
        OBVIOUS
      <3>1. CASE j = k + 1
        BY <2>6, <3>1 DEF SameElements, e
      <3>2. CASE j # k + 1
        <4>1. j \in 1..k
          BY <2>1, <3>2
        <4>2. PICK i \in 1..Len(s) : s[i] = events[j]
          BY <2>2, <4>1
        <4>3. QED
          BY <2>6, <4>2 DEF SameElements
      <3>3. QED
        BY <3>1, <3>2
    <2>9. IsSo(u, k + 1)
      BY <2>6, <2>7, <2>8
    <2>10. QED
      BY <2>1, <2>9 DEF P, u
  <1>4. n \in P
    <2> HIDE DEF P
    <2>1. \A k \in 0..n : k \in P
      BY <1>2, <1>3, Upwards
    <2>2. QED
      BY <2>1
  <1>5. QED
    BY <1>1, <1>4 DEF IsSortOf, IsSortRow

(* Whether a version is affected, after so many events of the sorted list. *)
Says(version, e) ==
    CASE e.kind = "introduced" ->
            Versions!Beginning(e) \/ Versions!CompareVersions(version, e.at) >= 0
      [] e.kind = "fixed" -> Versions!CompareVersions(version, e.at) >= 0
      [] e.kind = "last_affected" -> Versions!CompareVersions(version, e.at) > 0
After(version, e, before) == IF Says(version, e) THEN e.kind = "introduced" ELSE before
IsRangeRow(b, n, s, version, events) ==
    /\ b \in [0..n -> BOOLEAN] /\ b[0] = FALSE
    /\ \A k \in 1..n : b[k] = After(version, s[k], b[k - 1])
    /\ Versions!IsVersionInRange(version, events) = b[n]

(* The walk over the sorted events gives a row of answers.                 *)
LEMMA RangeRow ==
    ASSUME NEW n \in Nat, NEW version, NEW events,
           DOMAIN Versions!SortRangeEvents(events) = 1..n
    PROVE  \E b : IsRangeRow(b, n, Versions!SortRangeEvents(events), version, events)
  <1> DEFINE All == SUBSET (1..n)
             s == Versions!SortRangeEvents(events)
             nil == FALSE
             step == [p \in (1..n) \X BOOLEAN |-> After(version, s[p[1]], p[2])]
             IsFold(iter) ==
                iter = [S \in All |-> IF S = {} THEN nil
                                      ELSE After(version, s[Greatest(S)], iter[S \ {Greatest(S)}])]
             iter == CHOOSE iter : IsFold(iter)
  <1>0. DOMAIN s = 1..n
    OBVIOUS
  <1>3. Versions!IsVersionInRange(version, events) = iter[1..n]
    <2>1. Versions!IsVersionInRange(version, events) =
             Versions!FoldLeft(LAMBDA vulnerable, e : After(version, e, vulnerable), nil, s)
      BY DEF Versions!IsVersionInRange, After, Says
    <2> HIDE DEF s
    <2>2. QED
      BY <1>0, <2>1 DEF Versions!FoldLeft, Versions!MapThenFoldSet, Versions!Max, Greatest
  <1> HIDE DEF s, nil
  <1>1. \E g : IsFold(g)
    <2>1. nil \in BOOLEAN
      BY DEF nil
    <2>2. step \in [(1..n) \X BOOLEAN -> BOOLEAN]
      <3>1. \A p \in (1..n) \X BOOLEAN : After(version, s[p[1]], p[2]) \in BOOLEAN
        BY DEF After
      <3>2. QED
        BY <3>1
    <2> HIDE DEF step
    <2>3. PICK g : FoldsLeft(g, n, BOOLEAN, nil, step)
      BY <2>1, <2>2, LeftFold
    <2>4. ASSUME NEW S \in All, S # {}
          PROVE  g[S] = After(version, s[Greatest(S)], g[S \ {Greatest(S)}])
      <3> DEFINE k == Greatest(S)
                 v == g[S \ {k}]
      <3>1. k \in 1..n /\ v \in BOOLEAN /\ g[S] = step[<<k, v>>]
        BY <2>3, <2>4 DEF FoldsLeft
      <3> HIDE DEF k, v
      <3>2. step[<<k, v>>] = After(version, s[k], v)
        BY <3>1 DEF step
      <3>3. QED
        BY <3>1, <3>2 DEF k, v
    <2>5. g \in [All -> BOOLEAN] /\ g[{}] = nil
      BY <2>3 DEF FoldsLeft
    <2> HIDE DEF All
    <2>6. IsFold(g)
      BY <2>4, <2>5
    <2>7. QED
      BY <2>6
  <1>2. IsFold(iter)
    <2> HIDE DEF IsFold
    <2>1. QED
      BY <1>1
  <1> DEFINE b == [k \in 0..n |-> iter[1..k]]
  <1> HIDE DEF iter
  <1>4. b[0] = nil
    <2>1. 1..0 = {} /\ {} \in All /\ 0 \in 0..n
      OBVIOUS
    <2>2. iter[{}] = nil
      BY <1>2, <2>1
    <2>3. QED
      BY <2>1, <2>2
  <1>5. ASSUME NEW k \in 1..n PROVE b[k] = After(version, s[k], b[k - 1])
    <2> DEFINE S == 1..k
    <2>1. S \in All /\ S # {} /\ Greatest(S) = k /\ S \ {k} = 1..(k - 1)
      BY LastPlace
    <2>2. b[k] = iter[S] /\ b[k - 1] = iter[1..(k - 1)]
      OBVIOUS
    <2> HIDE DEF S, b, All
    <2>3. iter[S] = After(version, s[k], iter[S \ {k}])
      BY <1>2, <2>1
    <2>4. QED
      BY <2>1, <2>2, <2>3
  <1>6. Versions!IsVersionInRange(version, events) = b[n]
    BY <1>3
  <1>7. b \in [0..n -> BOOLEAN]
    <2> DEFINE P == {k \in 0..n : b[k] \in BOOLEAN}
    <2>1. 0 \in P
      <3>1. b[0] = FALSE /\ 0 \in 0..n
        BY <1>4 DEF nil
      <3> HIDE DEF b
      <3>2. QED
        BY <3>1
    <2>2. ASSUME NEW k \in 0..(n - 1), k \in P PROVE k + 1 \in P
      <3>1. k + 1 \in 1..n /\ (k + 1) - 1 = k /\ k + 1 \in 0..n
        OBVIOUS
      <3> HIDE DEF b
      <3>2. b[k + 1] = After(version, s[k + 1], b[(k + 1) - 1])
        BY <1>5, <3>1
      <3>3. b[k + 1] = After(version, s[k + 1], b[k]) /\ b[k] \in BOOLEAN
        BY <2>2, <3>1, <3>2
      <3>4. b[k + 1] \in BOOLEAN
        BY <3>3 DEF After
      <3>5. QED
        BY <3>1, <3>4
    <2> HIDE DEF P
    <2>3. \A k \in 0..n : k \in P
      BY <2>1, <2>2, Upwards
    <2>4. QED
      BY <2>3 DEF P
  <1> HIDE DEF b
  <1>8. IsRangeRow(b, n, s, version, events)
    BY <1>4, <1>5, <1>6, <1>7 DEF IsRangeRow, nil
  <1>9. QED
    BY <1>8 DEF s

(* The last event that a version has reached decides.                      *)
LEMMA LastDecides ==
    ASSUME NEW n \in Nat, NEW version, NEW events,
           DOMAIN Versions!SortRangeEvents(events) = 1..n
    PROVE  LET s == Versions!SortRangeEvents(events)
               decides(k) == Says(version, s[k]) /\ \A l \in (k + 1)..n : ~Says(version, s[l])
           IN  /\ Versions!IsVersionInRange(version, events) \in BOOLEAN
               /\ Versions!IsVersionInRange(version, events) <=>
                     \E k \in 1..n : decides(k) /\ s[k].kind = "introduced"
  <1> DEFINE s == Versions!SortRangeEvents(events)
             IsAffected(k) == \E x \in 1..k : /\ Says(version, s[x]) /\ s[x].kind = "introduced"
                                              /\ \A l \in (x + 1)..k : ~Says(version, s[l])
  <1>1. PICK b : IsRangeRow(b, n, s, version, events)
    BY RangeRow
  <1> HIDE DEF s
  <1> DEFINE P == {k \in 0..n : b[k] <=> IsAffected(k)}
  <1>2. 0 \in P
    <2>1. 0 \in 0..n /\ 1..0 = {} /\ b[0] = FALSE
      BY <1>1 DEF IsRangeRow
    <2>2. QED
      BY <2>1
  <1>3. ASSUME NEW k \in 0..(n - 1), k \in P PROVE k + 1 \in P
    <2> DEFINE e == s[k + 1]
    <2>1. /\ k \in Nat /\ k \in 0..n /\ k + 1 \in 0..n /\ k + 1 \in 1..n /\ (k + 1) - 1 = k
          /\ b[k] \in BOOLEAN /\ b[k + 1] \in BOOLEAN
          /\ b[k + 1] = After(version, e, b[k])
      <3>1. k \in Nat /\ k \in 0..n /\ k + 1 \in 0..n /\ k + 1 \in 1..n /\ (k + 1) - 1 = k
        OBVIOUS
      <3>2. b[k + 1] = After(version, s[k + 1], b[(k + 1) - 1])
        BY <1>1, <3>1 DEF IsRangeRow
      <3>3. QED
        BY <1>1, <3>1, <3>2 DEF IsRangeRow
    <2>2. b[k] <=> IsAffected(k)
      BY <1>3
    <2>3. CASE Says(version, e)
      <3>1. b[k + 1] <=> e.kind = "introduced"
        BY <2>1, <2>3 DEF After
      <3>2. IsAffected(k + 1) <=> e.kind = "introduced"
        <4>1. ASSUME e.kind = "introduced" PROVE IsAffected(k + 1)
          <5>1. k + 1 \in 1..(k + 1) /\ ((k + 1) + 1)..(k + 1) = {}
            BY <2>1
          <5>2. QED
            BY <2>3, <4>1, <5>1
        <4>2. ASSUME IsAffected(k + 1) PROVE e.kind = "introduced"
          <5>1. PICK x \in 1..(k + 1) : /\ Says(version, s[x]) /\ s[x].kind = "introduced"
                                        /\ \A l \in (x + 1)..(k + 1) : ~Says(version, s[l])
            BY <4>2
          <5>2. x # k + 1 => k + 1 \in (x + 1)..(k + 1)
            BY <2>1
          <5>3. QED
            BY <2>3, <5>1, <5>2
        <4>3. QED
          BY <4>1, <4>2
      <3>3. QED
        BY <2>1, <3>1, <3>2
    <2>4. CASE ~Says(version, e)
      <3>1. b[k + 1] = b[k]
        BY <2>1, <2>4 DEF After
      <3>2. IsAffected(k + 1) <=> IsAffected(k)
        <4>1. ASSUME IsAffected(k) PROVE IsAffected(k + 1)
          <5>1. PICK x \in 1..k : /\ Says(version, s[x]) /\ s[x].kind = "introduced"
                                  /\ \A l \in (x + 1)..k : ~Says(version, s[l])
            BY <4>1
          <5>2. x \in 1..(k + 1) /\ \A l \in (x + 1)..(k + 1) : l \in (x + 1)..k \/ l = k + 1
            BY <2>1
          <5>3. QED
            BY <2>4, <5>1, <5>2
        <4>2. ASSUME IsAffected(k + 1) PROVE IsAffected(k)
          <5>1. PICK x \in 1..(k + 1) : /\ Says(version, s[x]) /\ s[x].kind = "introduced"
                                        /\ \A l \in (x + 1)..(k + 1) : ~Says(version, s[l])
            BY <4>2
          <5>2. x # k + 1
            BY <2>4, <5>1
          <5>3. x \in 1..k /\ \A l \in (x + 1)..k : l \in (x + 1)..(k + 1)
            BY <2>1, <5>2
          <5>4. QED
            BY <5>1, <5>3
        <4>3. QED
          BY <4>1, <4>2
      <3>3. QED
        BY <2>1, <2>2, <3>1, <3>2
    <2>5. QED
      BY <2>3, <2>4
  <1>4. n \in P
    <2> HIDE DEF P
    <2>1. \A k \in 0..n : k \in P
      BY <1>2, <1>3, Upwards
    <2>2. QED
      BY <2>1
  <1>5. QED
    <2>1. b[n] \in BOOLEAN /\ Versions!IsVersionInRange(version, events) = b[n]
      BY <1>1 DEF IsRangeRow
    <2>2. b[n] <=> IsAffected(n)
      BY <1>4
    <2>3. QED
      BY <2>1, <2>2 DEF s

(* What the code finds from a sorted list is what OSV means by the events. *)
LEMMA SortedListDecides ==
    ASSUME NEW n \in Nat, NEW events, DOMAIN events = 1..n, events \in Seq(Versions!ToSet(events)),
           NEW version \in VersionsInOrder, \A k \in 1..n : IsEvent(events[k]),
           \A j, k \in 1..n : j < k /\ events[j].at = events[k].at =>
              events[j].kind = "introduced" /\ events[k].kind = "last_affected"
    PROVE  Versions!IsVersionInRange(version, events) = Versions!InRange(version, events, InOrder)
  <1> DEFINE s == Versions!SortRangeEvents(events)
             E == {events[k] : k \in 1..n}
             m == Len(s)
             v == Place(version)
             affected == Versions!IsVersionInRange(version, events)
             Interval(i) ==
                /\ At(i) <= v
                /\ \A f \in E : f.kind = "fixed" => ~(At(i) < At(f) /\ At(f) <= v)
                /\ \A l \in E : l.kind = "last_affected" => ~(At(i) <= At(l) /\ At(l) < v)
             Decides(k) == /\ HasReached(version, s[k])
                           /\ \A l \in (k + 1)..m : ~HasReached(version, s[l])
  <1>1. IsSortOf(s, events, n)
    BY SortSorts
  <1>2. /\ s \in Seq(E) /\ Sorted(s) /\ m \in Nat /\ DOMAIN s = 1..m
        /\ \A k \in 1..m : s[k] \in E
        /\ \A e \in E : \E l \in 1..m : s[l] = e
    <2>1. s \in Seq(E) /\ Sorted(s) /\ \A k \in 1..n : \E l \in 1..Len(s) : s[l] = events[k]
      BY <1>1 DEF IsSortOf
    <2> HIDE DEF s
    <2>2. \A e \in E : \E l \in 1..m : s[l] = e
      BY <2>1
    <2> HIDE DEF E
    <2>3. QED
      BY <2>1, <2>2
  <1>3. \A e \in E : IsEvent(e) /\ e.kind \in {"introduced", "fixed", "last_affected"} /\ At(e) \in Nat
    <2> SUFFICES ASSUME NEW e \in E
                 PROVE  IsEvent(e) /\ e.kind \in {"introduced", "fixed", "last_affected"} /\ At(e) \in Nat
      OBVIOUS
    <2>1. IsEvent(e)
      OBVIOUS
    <2> HIDE DEF E
    <2>2. At(e) \in Nat
      BY <2>1, EventFacts
    <2>3. QED
      BY <2>1, <2>2 DEF IsEvent
  <1>4. \A e \in E : Says(version, e) <=> HasReached(version, e)
    <2> SUFFICES ASSUME NEW e \in E PROVE Says(version, e) <=> HasReached(version, e)
      OBVIOUS
    <2>1. IsEvent(e)
      BY <1>3
    <2>2. QED
      BY <2>1, EventFacts DEF Says
  <1>5. v \in Nat
    BY PlaceFacts
  <1>6. Versions!InRange(version, events, InOrder) <=> \E i \in E : i.kind = "introduced" /\ Interval(i)
    <2> DEFINE at(kind) == {At(e) : e \in {f \in E : f.kind = kind}}
    <2>1. Versions!ToSet(events) = E
      BY DEF Versions!ToSet
    <2>2. Versions!InRange(version, events, InOrder) =
             (\E i \in at("introduced") :
                 /\ i <= v
                 /\ \A f \in at("fixed") : ~(i < f /\ f <= v)
                 /\ \A l \in at("last_affected") : ~(i <= l /\ l < v))
      <3> HIDE DEF E
      <3>1. QED
        BY <2>1 DEF Versions!InRange, At, Place
    <2> HIDE DEF E, v
    <2>3. QED
      BY <2>2
  <1> HIDE DEF s, E
  <1>7. affected \in BOOLEAN /\ (affected <=> \E k \in 1..m : Decides(k) /\ s[k].kind = "introduced")
    <2>1. /\ affected \in BOOLEAN
          /\ affected <=> \E k \in 1..m : /\ Says(version, s[k]) /\ \A l \in (k + 1)..m : ~Says(version, s[l])
                                          /\ s[k].kind = "introduced"
      BY <1>2, LastDecides DEF s
    <2>2. \A k \in 1..m : Says(version, s[k]) <=> HasReached(version, s[k])
      BY <1>2, <1>4
    <2>3. \A k \in 1..m : \A l \in (k + 1)..m : l \in 1..m
      BY <1>2
    <2> HIDE DEF affected, m
    <2>4. QED
      BY <2>1, <2>2, <2>3
  <1> HIDE DEF affected, m, v
  <1>8. ASSUME NEW k \in 1..m, Decides(k), s[k].kind = "introduced"
        PROVE  Interval(s[k])
    <2>1. At(s[k]) <= v
      BY <1>8 DEF HasReached, v
    <2>2. \A e \in E : At(s[k]) < At(e) => ~HasReached(version, e)
      <3> SUFFICES ASSUME NEW e \in E, At(s[k]) < At(e), HasReached(version, e) PROVE FALSE
        OBVIOUS
      <3>1. PICK l \in 1..m : s[l] = e
        BY <1>2
      <3>2. At(e) \in Nat /\ At(s[k]) \in Nat
        BY <1>2, <1>3
      <3>3. ~(l < k) /\ l # k
        BY <1>2, <3>1, <3>2 DEF Sorted, Before, m
      <3>4. l \in (k + 1)..m
        BY <1>2, <3>3
      <3>5. QED
        BY <1>8, <3>1, <3>4
    <2>3. \A e \in E : e.kind = "last_affected" /\ At(s[k]) = At(e) => ~HasReached(version, e)
      <3> SUFFICES ASSUME NEW e \in E, e.kind = "last_affected", At(s[k]) = At(e), HasReached(version, e)
                   PROVE  FALSE
        OBVIOUS
      <3>1. PICK l \in 1..m : s[l] = e
        BY <1>2
      <3>2. At(e) \in Nat /\ At(s[k]) \in Nat
        BY <1>2, <1>3
      <3>3. ~(l < k) /\ l # k
        BY <1>2, <1>8, <3>1, <3>2 DEF Sorted, Before, m
      <3>4. l \in (k + 1)..m
        BY <1>2, <3>3
      <3>5. QED
        BY <1>8, <3>1, <3>4
    <2>4. \A f \in E : f.kind = "fixed" => ~(At(s[k]) < At(f) /\ At(f) <= v)
      BY <2>2 DEF HasReached, v
    <2>5. \A l \in E : l.kind = "last_affected" => ~(At(s[k]) <= At(l) /\ At(l) < v)
      <3> SUFFICES ASSUME NEW l \in E, l.kind = "last_affected", At(s[k]) <= At(l), At(l) < v PROVE FALSE
        OBVIOUS
      <3>1. HasReached(version, l)
        BY DEF HasReached, v
      <3>2. At(l) \in Nat /\ At(s[k]) \in Nat
        BY <1>2, <1>3
      <3>3. QED
        BY <2>2, <2>3, <3>1, <3>2
    <2>6. QED
      BY <2>1, <2>4, <2>5
  <1>9. ASSUME NEW i \in E, i.kind = "introduced", Interval(i)
        PROVE  \E k \in 1..m : Decides(k) /\ s[k].kind = "introduced"
    <2>1. PICK x \in 1..m : s[x] = i
      BY <1>2
    <2> DEFINE R == {k \in 1..m : HasReached(version, s[k])}
               k == Greatest(R)
    <2>2. HasReached(version, i)
      BY <1>9 DEF HasReached, v
    <2>3. R # {} /\ R \in SUBSET (1..m)
      BY <2>1, <2>2
    <2>4. k \in R /\ \A l \in R : l <= k
      BY <1>2, <2>3, GreatestPlace
    <2> HIDE DEF R, k
    <2>5. k \in 1..m /\ Decides(k)
      <3>1. k \in 1..m /\ HasReached(version, s[k])
        BY <2>4 DEF R
      <3>2. \A l \in (k + 1)..m : l \in 1..m /\ ~(l <= k)
        BY <1>2, <3>1
      <3>3. \A l \in (k + 1)..m : ~HasReached(version, s[l])
        BY <2>4, <3>2 DEF R
      <3>4. QED
        BY <3>1, <3>3
    <2>6. At(i) <= At(s[k])
      <3>1. x \in R
        BY <2>1, <2>2 DEF R
      <3>2. x <= k
        BY <2>4, <3>1
      <3>3. At(i) \in Nat /\ At(s[k]) \in Nat
        BY <1>2, <1>3, <2>5
      <3>4. x < k => Before(s[x], s[k])
        BY <1>2, <2>5 DEF Sorted, m
      <3>5. QED
        BY <2>1, <2>5, <3>2, <3>3, <3>4 DEF Before
    <2>7. s[k].kind = "introduced"
      <3> DEFINE z == s[k]
      <3>1. z \in E /\ z.kind \in {"introduced", "fixed", "last_affected"} /\ At(z) \in Nat /\ At(i) \in Nat
        BY <1>2, <1>3, <2>5
      <3>2. HasReached(version, z)
        BY <2>5
      <3> HIDE DEF z
      <3>3. ASSUME z.kind = "fixed" PROVE FALSE
        <4>1. At(z) <= v
          BY <3>2, <3>3 DEF HasReached, v
        <4>2. ~(At(i) < At(z))
          BY <1>9, <3>1, <3>3, <4>1
        <4>3. At(i) = At(z)
          BY <2>6, <3>1, <4>2 DEF z
        <4>4. x # k
          BY <1>9, <2>1, <3>3 DEF z
        <4>5. x < k
          <5>1. x \in R
            BY <2>1, <2>2 DEF R
          <5>2. x <= k
            BY <2>4, <5>1
          <5>3. QED
            BY <1>2, <2>5, <4>4, <5>2
        <4>6. Before(s[x], s[k])
          BY <1>2, <2>5, <4>5 DEF Sorted, m
        <4>7. QED
          BY <2>1, <3>1, <3>3, <4>3, <4>6 DEF Before, z
      <3>4. ASSUME z.kind = "last_affected" PROVE FALSE
        <4>1. At(z) < v
          BY <3>2, <3>4 DEF HasReached, v
        <4>2. QED
          BY <1>9, <2>6, <3>1, <3>4, <4>1 DEF z
      <3>5. QED
        BY <3>1, <3>3, <3>4 DEF z
    <2>8. QED
      BY <2>5, <2>7
  <1>10. affected <=> \E i \in E : i.kind = "introduced" /\ Interval(i)
    <2>1. \A k \in 1..m : s[k] \in E
      BY <1>2
    <2> HIDE DEF Decides, Interval
    <2>2. QED
      BY <1>7, <1>8, <1>9, <2>1
  <1>11. Versions!InRange(version, events, InOrder) \in BOOLEAN
    BY DEF Versions!InRange
  <1>12. QED
    BY <1>6, <1>7, <1>10, <1>11 DEF affected

(* The record that RangesAreIntervals asks about says of one package what  *)
(* its events say, and nothing of a package of another name.               *)
LEMMA RecordAffects ==
    ASSUME NEW version, NEW events, NEW name \in {"x", "y"}
    PROVE  LET purl == [type |-> "npm", namespace |-> "org", name |-> "x", version |-> version]
               entry == [name |-> <<"org", "/", name>>, ecosystem |-> "npm",
                         versions |-> {}, ranges |-> {events}]
           IN  Versions!IsPackageAffected({entry}, Versions!PURLToPackage(purl)) <=>
                  name = "x" /\ Versions!IsVersionInRange(version, events)
  <1> DEFINE purl == [type |-> "npm", namespace |-> "org", name |-> "x", version |-> version]
             entry == [name |-> <<"org", "/", name>>, ecosystem |-> "npm",
                       versions |-> {}, ranges |-> {events}]
             pkg == Versions!PURLToPackage(purl)
  <1>1. /\ purl.type = "npm" /\ purl.namespace = "org" /\ purl.name = "x" /\ purl.version = version
        /\ entry.name = <<"org", "/", name>> /\ entry.ecosystem = "npm"
        /\ entry.versions = {} /\ entry.ranges = {events}
    OBVIOUS
  <1> HIDE DEF purl, entry
  <1>2. Versions!PURLEcosystem(purl) = "npm"
    BY <1>1 DEF Versions!PURLEcosystem
  <1>3. pkg = [ecosystem |-> "npm", version |-> version, name |-> <<"org", "/", "x">>]
    BY <1>1, <1>2 DEF Versions!PURLToPackage
  <1>4. pkg.ecosystem = "npm" /\ pkg.version = version /\ pkg.name = <<"org", "/", "x">>
    BY <1>3
  <1> HIDE DEF pkg
  <1>5. entry.name = pkg.name <=> name = "x"
    BY <1>1, <1>4
  <1>6. Versions!IsPackageAffected({entry}, pkg) <=>
           entry.name = pkg.name /\ Versions!IsVersionInRange(version, events)
    BY <1>1, <1>4 DEF Versions!IsPackageAffected
  <1>7. QED
    BY <1>5, <1>6 DEF purl, entry, pkg

(* A library is affected exactly if its version lies in an interval that   *)
(* the events of a range describe: IsPackageAffected, with the sort of the *)
(* events and the walk over them (vuln.go), and in whichever order they are*)
(* listed.                                                                 *)
THEOREM RangesAreHonoured == AlgorithmsSpec => []RangesAreIntervals
  <1>1. AlgorithmsInit => RangesAreIntervals
    <2> SUFFICES ASSUME AlgorithmsInit, part = "ranges" PROVE RangesAreIntervals
      BY DEF RangesAreIntervals
    <2> DEFINE version == input.version
               events == input.events
               n == Len(events)
    <2>1. version \in VersionsInOrder /\ events \in RangeEvents
      BY DEF AlgorithmsInit, InputsOf
    <2>2. /\ events \in Seq(Versions!ToSet(events)) /\ Versions!NoTies(events)
          /\ \A e \in Versions!ToSet(events) : IsEvent(e)
      BY <2>1, RangesAssumption DEF IsEvent
    <2> HIDE DEF version, events
    <2>3. DOMAIN events = 1..n /\ n \in Nat /\ \A k \in 1..n : IsEvent(events[k])
      <3> DEFINE X == Versions!ToSet(events)
      <3>1. events \in Seq(X) /\ \A e \in X : IsEvent(e)
        BY <2>2
      <3> HIDE DEF X
      <3>2. QED
        BY <3>1
    <2>4. \A j, k \in 1..n : j < k /\ events[j].at = events[k].at =>
             events[j].kind = "introduced" /\ events[k].kind = "last_affected"
      BY <2>2, <2>3 DEF Versions!NoTies
    <2>5. Versions!IsVersionInRange(version, events) = Versions!InRange(version, events, InOrder)
      <3> HIDE DEF n
      <3>1. QED
        BY <2>1, <2>2, <2>3, <2>4, SortedListDecides
    <2> DEFINE purl == [type |-> "npm", namespace |-> "org", name |-> "x", version |-> version]
               entry(name) == [name |-> <<"org", "/", name>>, ecosystem |-> "npm",
                               versions |-> {}, ranges |-> {events}]
               affects(name) == Versions!IsPackageAffected({entry(name)}, Versions!PURLToPackage(purl))
    <2>6. /\ affects("x") <=> Versions!IsVersionInRange(version, events)
          /\ ~affects("y")
      BY RecordAffects
    <2>7. affects("x") = Versions!InRange(version, events, InOrder)
      <3>1. affects("x") \in BOOLEAN
        BY DEF Versions!IsPackageAffected
      <3>2. Versions!IsVersionInRange(version, events) \in BOOLEAN
        BY <2>5 DEF Versions!InRange
      <3> HIDE DEF affects
      <3>3. QED
        BY <2>5, <2>6, <3>1, <3>2
    <2>8. QED
      BY <2>6, <2>7 DEF RangesAreIntervals, version, events
  <1>2. RangesAreIntervals /\ [FALSE]_<<part, input>> => RangesAreIntervals'
    BY DEF RangesAreIntervals
  <1>3. QED
    BY <1>1, <1>2, PTL DEF AlgorithmsSpec

=============================================================================
