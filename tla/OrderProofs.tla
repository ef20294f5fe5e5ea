---------------------------- MODULE OrderProofs ----------------------------
(***************************************************************************)
(* What the code sorts and then takes the first of, for any input.          *)
(* The candidates of a request (module Ranking): every member gets a place  *)
(* of its own in 1..n, and a better rank key gets an earlier place.  S is   *)
(* the member list, cool the cooling ones, eff their effective loads, t the *)
(* round-robin turn (Hive::candidates).  The keys (module Keys): the first  *)
(* in the list that covers a URL is the nearest (Credentials::for_url).     *)
(***************************************************************************)
EXTENDS Ranking, Keys, WellFoundedInduction, FiniteSetTheorems, SequenceTheorems, TLAPS

Ahead(S, cool, eff, b) == {c \in S : RankedBefore(cool, eff, c, b)}
Index(S, cool, eff, b) == Cardinality({c \in Tied(S, cool, eff, b) : c < b})

LEMMA SetsFinite ==
    ASSUME NEW S, IsFiniteSet(S), NEW cool, NEW eff, NEW b \in S
    PROVE  /\ IsFiniteSet(Ahead(S, cool, eff, b)) /\ IsFiniteSet(Tied(S, cool, eff, b))
           /\ Cardinality(Ahead(S, cool, eff, b)) \in Nat
           /\ Cardinality(Tied(S, cool, eff, b)) \in Nat \ {0}
<1>1. Ahead(S, cool, eff, b) \subseteq S /\ Tied(S, cool, eff, b) \subseteq S
  BY DEF Ahead, Tied
<1>2. IsFiniteSet(Ahead(S, cool, eff, b)) /\ IsFiniteSet(Tied(S, cool, eff, b))
  BY <1>1, FS_Subset
<1>3. Tied(S, cool, eff, b) # {}
  BY DEF Tied
<1> QED BY <1>2, <1>3, FS_CardinalityType, FS_EmptySet

LEMMA IndexInRun ==
    ASSUME NEW S \in SUBSET Nat, IsFiniteSet(S), NEW cool, NEW eff, NEW b \in S
    PROVE  Index(S, cool, eff, b) \in 0..(Cardinality(Tied(S, cool, eff, b)) - 1)
<1> DEFINE run == Tied(S, cool, eff, b)
           below == {c \in run : c < b}
<1>1. IsFiniteSet(run) /\ Cardinality(run) \in Nat \ {0}
  BY SetsFinite
<1>2. b \in run /\ b \notin below /\ below \subseteq run
  BY DEF Tied
<1>3. IsFiniteSet(below) /\ Cardinality(below) \in Nat /\ Cardinality(below) <= Cardinality(run)
  <2> HIDE DEF run, below
  <2> QED BY <1>1, <1>2, FS_Subset, FS_CardinalityType
<1>4. Cardinality(below) # Cardinality(run)
  <2> HIDE DEF run, below
  <2> QED BY <1>1, <1>2, FS_Subset
<1>5. Index(S, cool, eff, b) = Cardinality(below)
  BY DEF Index
<1> HIDE DEF run, below
<1>6. Cardinality(below) \in 0..(Cardinality(run) - 1)
  BY <1>1, <1>3, <1>4
<1> QED BY <1>5, <1>6 DEF run

\* Rotation: the offset of an index in its run.
LEMMA OffsetInRun ==
    ASSUME NEW n \in Nat \ {0}, NEW i \in Int
    PROVE  i % n \in 0..(n - 1)
OBVIOUS

\* Two numbers that leave the same remainder are a multiple of n apart.
LEMMA SameRemainder ==
    ASSUME NEW n \in Nat \ {0}, NEW x \in Int, NEW y \in Int, x % n = y % n,
           x - y < n, y - x < n
    PROVE  x = y
<1>1. x = n * (x \div n) + (x % n) /\ y = n * (y \div n) + (y % n)
  OBVIOUS
<1>2. x \div n \in Int /\ y \div n \in Int
  OBVIOUS
<1>3. x - y = n * ((x \div n) - (y \div n))
  BY <1>1, <1>2
<1> DEFINE d == (x \div n) - (y \div n)
<1>4. d \in Int /\ x - y = n * d
  BY <1>2, <1>3
<1> HIDE DEF d
<1>5. CASE d >= 1
  <2>1. n * d >= n
    BY <1>4, <1>5
  <2> QED BY <1>4, <2>1
<1>6. CASE d <= -1
  <2>1. n * d <= -n
    BY <1>4, <1>6
  <2> QED BY <1>4, <2>1
<1>7. CASE d = 0
  BY <1>4, <1>7
<1> QED BY <1>4, <1>5, <1>6, <1>7

\* Two places of a run, rotated alike, stay apart.
LEMMA OffsetsDiffer ==
    ASSUME NEW n \in Nat \ {0}, NEW i \in 0..(n - 1), NEW j \in 0..(n - 1), NEW t \in Int,
           (i - t) % n = (j - t) % n
    PROVE  i = j
<1>1. i - t \in Int /\ j - t \in Int
  OBVIOUS
<1>2. (i - t) - (j - t) < n /\ (j - t) - (i - t) < n
  OBVIOUS
<1>3. i - t = j - t
  BY <1>1, <1>2, SameRemainder
<1> QED BY <1>3

\* Fewer than a run's length apart, two turns put the same place elsewhere.
LEMMA TurnsDiffer ==
    ASSUME NEW n \in Nat \ {0}, NEW i \in Int, NEW t \in Int, NEW u \in Int,
           t - u < n, u - t < n, (i - t) % n = (i - u) % n
    PROVE  t = u
<1>1. i - t \in Int /\ i - u \in Int
  OBVIOUS
<1>2. (i - t) - (i - u) < n /\ (i - u) - (i - t) < n
  OBVIOUS
<1>3. i - t = i - u
  BY <1>1, <1>2, SameRemainder
<1> QED BY <1>3

\* The place of a backend in terms of the two sets.
LEMMA PlaceSplit ==
    ASSUME NEW S, NEW cool, NEW eff, NEW t, NEW b
    PROVE  Place(S, cool, eff, t, b) =
               1 + Cardinality(Ahead(S, cool, eff, b))
                 + ((Index(S, cool, eff, b) - t) % Cardinality(Tied(S, cool, eff, b)))
BY DEF Place, Ahead, Index


\* A candidate's place is a natural number.
LEMMA PlaceIsNat ==
    ASSUME NEW S \in SUBSET Nat, IsFiniteSet(S), NEW cool, NEW eff, NEW t \in Int, NEW b \in S
    PROVE  Place(S, cool, eff, t, b) \in Nat
<1> DEFINE a == Cardinality(Ahead(S, cool, eff, b))
           n == Cardinality(Tied(S, cool, eff, b))
           i == Index(S, cool, eff, b)
<1>1. a \in Nat /\ n \in Nat \ {0}
  BY SetsFinite
<1>2. i \in 0..(n - 1)
  BY IndexInRun
<1>3. Place(S, cool, eff, t, b) = 1 + a + ((i - t) % n)
  BY PlaceSplit
<1> HIDE DEF a, n, i
<1>4. (i - t) % n \in 0..(n - 1)
  <2>1. i - t \in Int
    BY <1>1, <1>2
  <2> QED BY <1>1, <2>1, OffsetInRun
<1> QED BY <1>1, <1>3, <1>4

\* Members of one run have different indices in it.
LEMMA IndicesDiffer ==
    ASSUME NEW S \in SUBSET Nat, IsFiniteSet(S), NEW cool, NEW eff,
           NEW b \in S, NEW c \in S, b # c,
           b \in cool <=> c \in cool, eff[b] = eff[c]
    PROVE  Index(S, cool, eff, b) # Index(S, cool, eff, c)
<1>1. ASSUME NEW x \in S, NEW y \in S, x < y,
             x \in cool <=> y \in cool, eff[x] = eff[y]
      PROVE  Index(S, cool, eff, x) # Index(S, cool, eff, y)
  <2> DEFINE X == {d \in Tied(S, cool, eff, x) : d < x}
             Y == {d \in Tied(S, cool, eff, y) : d < y}
  <2>1. Tied(S, cool, eff, x) = Tied(S, cool, eff, y)
    BY <1>1 DEF Tied
  <2>2. X \subseteq Y
    <3>1. Tied(S, cool, eff, x) \subseteq Nat /\ x \in Nat /\ y \in Nat
      BY DEF Tied
    <3> QED BY <1>1, <2>1, <3>1
  <2>3. x \in Y /\ x \notin X
    BY <1>1 DEF Tied
  <2>4. Y \subseteq S
    BY DEF Tied
  <2>5. Index(S, cool, eff, x) = Cardinality(X) /\ Index(S, cool, eff, y) = Cardinality(Y)
    BY DEF Index
  <2> HIDE DEF X, Y
  <2>6. IsFiniteSet(Y)
    BY <2>4, FS_Subset
  <2>7. Cardinality(Y) # Cardinality(X)
    BY <2>2, <2>3, <2>6, FS_Subset
  <2> QED BY <2>5, <2>7
<1>2. b < c \/ c < b
  OBVIOUS
<1> QED BY <1>1, <1>2

-----------------------------------------------------------------------------
\* Whoever is ranked before c, or is tied with someone who is, is ahead of c.
LEMMA AheadGrows ==
    ASSUME NEW S, IsFiniteSet(S), NEW cool, NEW eff, \A d \in S : eff[d] \in Int,
           NEW b \in S, NEW c \in S, RankedBefore(cool, eff, b, c)
    PROVE  Cardinality(Ahead(S, cool, eff, b)) + Cardinality(Tied(S, cool, eff, b))
               <= Cardinality(Ahead(S, cool, eff, c))
<1> DEFINE A == Ahead(S, cool, eff, b)
           R == Tied(S, cool, eff, b)
           C == Ahead(S, cool, eff, c)
<1>1. IsFiniteSet(A) /\ IsFiniteSet(R) /\ Cardinality(A) \in Nat /\ Cardinality(R) \in Nat
  BY SetsFinite
<1>2. IsFiniteSet(C) /\ Cardinality(C) \in Nat
  BY SetsFinite
<1>3. A \cap R = {}
  BY DEF Ahead, Tied, RankedBefore
<1>4. A \cup R \subseteq C
  BY DEF Ahead, Tied, RankedBefore
<1> HIDE DEF A, R, C
<1>5. Cardinality(A \cup R) = Cardinality(A) + Cardinality(R)
  <2>1. Cardinality(A \cap R) = 0
    BY <1>3, FS_EmptySet
  <2>2. Cardinality(A \cup R) = Cardinality(A) + Cardinality(R) - Cardinality(A \cap R)
    BY <1>1, FS_Union
  <2> QED BY <1>1, <2>1, <2>2
<1>6. Cardinality(A \cup R) <= Cardinality(C)
  BY <1>2, <1>4, FS_Subset
<1> QED BY <1>1, <1>2, <1>5, <1>6 DEF A, R, C

\* A candidate whose (cooling, effective load) is smaller is placed first,
\* whatever the rotation.
THEOREM BetterIsFirst ==
    ASSUME NEW S \in SUBSET Nat, IsFiniteSet(S), NEW cool, NEW eff,
           \A d \in S : eff[d] \in Int, NEW t \in Int,
           NEW b \in S, NEW c \in S, RankedBefore(cool, eff, b, c)
    PROVE  Place(S, cool, eff, t, b) < Place(S, cool, eff, t, c)
<1> DEFINE a == Cardinality(Ahead(S, cool, eff, b))
           n == Cardinality(Tied(S, cool, eff, b))
           o == (Index(S, cool, eff, b) - t) % n
           a2 == Cardinality(Ahead(S, cool, eff, c))
           n2 == Cardinality(Tied(S, cool, eff, c))
           o2 == (Index(S, cool, eff, c) - t) % n2
<1>1. a \in Nat /\ n \in Nat \ {0} /\ a2 \in Nat /\ n2 \in Nat \ {0}
  BY SetsFinite
<1>2. a + n <= a2
  BY AheadGrows
<1>3. Index(S, cool, eff, b) - t \in Int /\ Index(S, cool, eff, c) - t \in Int
  <2>1. Index(S, cool, eff, b) \in 0..(n - 1) /\ Index(S, cool, eff, c) \in 0..(n2 - 1)
    BY IndexInRun
  <2> QED BY <1>1, <2>1
<1>4. o \in 0..(n - 1) /\ o2 \in 0..(n2 - 1)
  <2> HIDE DEF n, n2
  <2> QED BY <1>1, <1>3, OffsetInRun
<1>5. Place(S, cool, eff, t, b) = 1 + a + o /\ Place(S, cool, eff, t, c) = 1 + a2 + o2
  BY PlaceSplit
<1> HIDE DEF a, n, o, a2, n2, o2
<1> QED BY <1>1, <1>2, <1>4, <1>5

\* Two candidates never share a place.
THEOREM PlacesDiffer ==
    ASSUME NEW S \in SUBSET Nat, IsFiniteSet(S), NEW cool, NEW eff,
           \A d \in S : eff[d] \in Int, NEW t \in Int,
           NEW b \in S, NEW c \in S, b # c
    PROVE  Place(S, cool, eff, t, b) # Place(S, cool, eff, t, c)
<1>1. CASE RankedBefore(cool, eff, b, c) \/ RankedBefore(cool, eff, c, b)
  <2>1. /\ Cardinality(Ahead(S, cool, eff, b)) \in Nat
        /\ Cardinality(Ahead(S, cool, eff, c)) \in Nat
        /\ Cardinality(Tied(S, cool, eff, b)) \in Nat \ {0}
        /\ Cardinality(Tied(S, cool, eff, c)) \in Nat \ {0}
    BY SetsFinite
  <2>2. Place(S, cool, eff, t, b) < Place(S, cool, eff, t, c)
        \/ Place(S, cool, eff, t, c) < Place(S, cool, eff, t, b)
    BY <1>1, BetterIsFirst
  <2>3. Place(S, cool, eff, t, b) \in Nat /\ Place(S, cool, eff, t, c) \in Nat
    BY PlaceIsNat
  <2> QED BY <2>2, <2>3
<1>2. CASE ~RankedBefore(cool, eff, b, c) /\ ~RankedBefore(cool, eff, c, b)
  <2>1. (b \in cool <=> c \in cool) /\ eff[b] = eff[c]
    BY <1>2 DEF RankedBefore
  <2>2. Ahead(S, cool, eff, b) = Ahead(S, cool, eff, c)
    BY <2>1 DEF Ahead, RankedBefore
  <2>3. Tied(S, cool, eff, b) = Tied(S, cool, eff, c)
    BY <2>1 DEF Tied
  <2> DEFINE n == Cardinality(Tied(S, cool, eff, b))
             i == Index(S, cool, eff, b)
             j == Index(S, cool, eff, c)
             a == Cardinality(Ahead(S, cool, eff, b))
  <2>4. n \in Nat \ {0} /\ a \in Nat
    BY SetsFinite
  <2>5. i \in 0..(n - 1) /\ j \in 0..(n - 1)
    BY <2>3, IndexInRun
  <2>6. i # j
    BY <2>1, IndicesDiffer
  <2>7. Place(S, cool, eff, t, b) = 1 + a + ((i - t) % n)
        /\ Place(S, cool, eff, t, c) = 1 + a + ((j - t) % n)
    BY <2>2, <2>3, PlaceSplit
  <2> HIDE DEF n, i, j, a
  <2>8. (i - t) % n # (j - t) % n
    BY <2>4, <2>5, <2>6, OffsetsDiffer
  <2>9. (i - t) % n \in Int /\ (j - t) % n \in Int
    <3>1. i - t \in Int /\ j - t \in Int
      BY <2>5
    <3> QED BY <2>4, <3>1, OffsetInRun
  <2> QED BY <2>4, <2>7, <2>8, <2>9
<1> QED BY <1>1, <1>2

\* A place is one of 1..n, n the number of members.
THEOREM PlaceInRange ==
    ASSUME NEW S \in SUBSET Nat, IsFiniteSet(S), NEW cool, NEW eff,
           \A d \in S : eff[d] \in Int, NEW t \in Int, NEW b \in S
    PROVE  Place(S, cool, eff, t, b) \in 1..Cardinality(S)
<1> DEFINE A == Ahead(S, cool, eff, b)
           R == Tied(S, cool, eff, b)
           i == Index(S, cool, eff, b)
<1>1. /\ IsFiniteSet(A) /\ IsFiniteSet(R)
      /\ Cardinality(A) \in Nat /\ Cardinality(R) \in Nat \ {0}
  BY SetsFinite
<1>2. A \cap R = {} /\ A \cup R \subseteq S
  BY DEF Ahead, Tied, RankedBefore
<1>3. i \in 0..(Cardinality(R) - 1)
  BY IndexInRun
<1>4. Place(S, cool, eff, t, b) = 1 + Cardinality(A) + ((i - t) % Cardinality(R))
  BY PlaceSplit
<1> HIDE DEF A, R, i
<1>5. Cardinality(A) + Cardinality(R) <= Cardinality(S)
  <2>1. Cardinality(A \cup R) = Cardinality(A) + Cardinality(R)
    <3>1. Cardinality(A \cap R) = 0
      BY <1>2, FS_EmptySet
    <3>2. Cardinality(A \cup R) = Cardinality(A) + Cardinality(R) - Cardinality(A \cap R)
      BY <1>1, FS_Union
    <3> QED BY <1>1, <3>1, <3>2
  <2>2. Cardinality(A \cup R) <= Cardinality(S)
    BY <1>2, FS_Subset
  <2> QED BY <2>1, <2>2
<1>6. (i - t) % Cardinality(R) \in 0..(Cardinality(R) - 1)
  <2>1. i - t \in Int
    BY <1>1, <1>3
  <2> QED BY <1>1, <2>1, OffsetInRun
<1>7. Cardinality(S) \in Nat
  BY FS_CardinalityType
<1> QED BY <1>1, <1>4, <1>5, <1>6, <1>7

\* The candidate list is the members in the order of their places: every
\* place is taken, by exactly one member.
THEOREM CandidatesArePlaced ==
    ASSUME NEW S \in SUBSET Nat, IsFiniteSet(S), NEW cool, NEW eff,
           \A d \in S : eff[d] \in Int, NEW t \in Int
    PROVE  LET C == Candidates(S, cool, eff, t)
           IN  /\ C \in [1..Cardinality(S) -> S]
               /\ \A i \in 1..Cardinality(S) : Place(S, cool, eff, t, C[i]) = i
               /\ \A b \in S : C[Place(S, cool, eff, t, b)] = b
<1> DEFINE n == Cardinality(S)
           f == [b \in S |-> Place(S, cool, eff, t, b)]
           C == Candidates(S, cool, eff, t)
<1>1. n \in Nat
  BY FS_CardinalityType
<1>2. f \in Injection(S, 1..n)
  BY PlaceInRange, PlacesDiffer DEF Injection, IsInjective
<1>3. IsFiniteSet(1..n) /\ Cardinality(1..n) = n
  BY <1>1, FS_Interval
<1>4. f \in Surjection(S, 1..n)
  BY <1>2, <1>3, FS_Injection
<1>5. \A i \in 1..n : \E b \in S : Place(S, cool, eff, t, b) = i
  BY <1>4 DEF Surjection
<1>6. C = [i \in 1..n |-> CHOOSE b \in S : Place(S, cool, eff, t, b) = i]
  BY DEF Candidates
<1>7. \A i \in 1..n : C[i] \in S /\ Place(S, cool, eff, t, C[i]) = i
  BY <1>5, <1>6
<1>8. \A b \in S : C[Place(S, cool, eff, t, b)] = b
  <2> SUFFICES ASSUME NEW b \in S PROVE C[Place(S, cool, eff, t, b)] = b
    OBVIOUS
  <2> DEFINE i == Place(S, cool, eff, t, b)
  <2>1. i \in 1..n
    BY PlaceInRange
  <2>2. C[i] \in S /\ Place(S, cool, eff, t, C[i]) = i
    BY <1>7, <2>1
  <2> QED BY <2>2, PlacesDiffer
<1>9. C \in [1..n -> S]
  <2> HIDE DEF n
  <2> QED BY <1>6, <1>7
<1> QED BY <1>7, <1>8, <1>9

-----------------------------------------------------------------------------
\* The first place is taken with nobody ahead, at the start of the rotation.
LEMMA FirstPlace ==
    ASSUME NEW S \in SUBSET Nat, IsFiniteSet(S), NEW cool, NEW eff, NEW t \in Int,
           NEW b \in S, Place(S, cool, eff, t, b) = 1
    PROVE  /\ Ahead(S, cool, eff, b) = {}
           /\ (Index(S, cool, eff, b) - t) % Cardinality(Tied(S, cool, eff, b)) = 0
<1> DEFINE A == Ahead(S, cool, eff, b)
           n == Cardinality(Tied(S, cool, eff, b))
           i == Index(S, cool, eff, b)
<1>1. IsFiniteSet(A) /\ Cardinality(A) \in Nat /\ n \in Nat \ {0}
  BY SetsFinite
<1>2. i \in 0..(n - 1)
  BY IndexInRun
<1>3. 1 = 1 + Cardinality(A) + ((i - t) % n)
  BY PlaceSplit
<1> HIDE DEF A, n, i
<1>4. (i - t) % n \in 0..(n - 1)
  <2>1. i - t \in Int
    BY <1>1, <1>2
  <2> QED BY <1>1, <2>1, OffsetInRun
<1>5. Cardinality(A) = 0 /\ (i - t) % n = 0
  BY <1>1, <1>3, <1>4
<1>6. A = {}
  BY <1>1, <1>5, FS_EmptySet
<1> QED BY <1>5, <1>6 DEF A, n, i

\* Whoever has nobody ahead is tied with the others who have nobody ahead.
LEMMA BestAreTied ==
    ASSUME NEW S, NEW cool, NEW eff, \A d \in S : eff[d] \in Int,
           NEW b \in S, NEW c \in S,
           Ahead(S, cool, eff, b) = {}, Ahead(S, cool, eff, c) = {}
    PROVE  Tied(S, cool, eff, b) = Tied(S, cool, eff, c)
<1>1. ~RankedBefore(cool, eff, b, c) /\ ~RankedBefore(cool, eff, c, b)
  BY DEF Ahead
<1>2. (b \in cool <=> c \in cool) /\ eff[b] = eff[c]
  BY <1>1 DEF RankedBefore
<1> QED BY <1>2 DEF Tied

\* One backend is first again only after as many turns as there are tied
\* for first.
THEOREM FirstAgain ==
    ASSUME NEW S \in SUBSET Nat, IsFiniteSet(S), NEW cool, NEW eff,
           NEW t \in Int, NEW u \in Int, NEW b \in S,
           Place(S, cool, eff, t, b) = 1, Place(S, cool, eff, u, b) = 1,
           t < u
    PROVE  u - t >= Cardinality(Tied(S, cool, eff, b))
<1> DEFINE n == Cardinality(Tied(S, cool, eff, b))
           i == Index(S, cool, eff, b)
<1>1. (i - t) % n = 0 /\ (i - u) % n = 0
  BY FirstPlace
<1>2. n \in Nat \ {0}
  BY SetsFinite
<1>3. i \in Int
  <2>1. i \in 0..(n - 1)
    BY IndexInRun
  <2> QED BY <2>1
<1> HIDE DEF n, i
<1>4. SUFFICES ASSUME u - t < n PROVE FALSE
  BY <1>2 DEF n
<1>5. t = u
  <2>1. t - u < n /\ (i - t) % n = (i - u) % n
    BY <1>1, <1>2
  <2> QED BY <1>2, <1>3, <1>4, <2>1, TurnsDiffer
<1> QED BY <1>5

-----------------------------------------------------------------------------
(* Induction: a set of counterexamples has a least element.                 *)

LEMMA LeastExists ==
    ASSUME NEW T \in SUBSET Nat, T # {}
    PROVE  \E x \in T : \A y \in T : x <= y
<1>1. \E x \in T : \A y \in T : <<y, x>> \notin OpToRel(<, Nat)
  BY WFMin, NatLessThanWellFounded
<1>2. \A x, y \in Nat : y < x => <<y, x>> \in OpToRel(<, Nat)
  BY DEF OpToRel
<1>3. \A x, y \in Nat : x <= y \/ y < x
  OBVIOUS
<1>4. PICK x \in T : \A y \in T : <<y, x>> \notin OpToRel(<, Nat)
  BY <1>1
<1>5. \A y \in T : x \in Nat /\ y \in Nat
  OBVIOUS
<1> HIDE DEF OpToRel
<1> QED BY <1>2, <1>3, <1>4, <1>5, Zenon

LEMMA EveryNumber ==
    ASSUME NEW G, 0 \in G, \A n \in Nat : n \in G => n + 1 \in G
    PROVE  Nat \subseteq G
<1> DEFINE T == {n \in Nat : n \notin G}
<1> SUFFICES ASSUME T # {} PROVE FALSE
  OBVIOUS
<1>1. PICK n \in T : \A m \in T : n <= m
  <2>1. T \in SUBSET Nat
    OBVIOUS
  <2> HIDE DEF T
  <2> QED BY <2>1, LeastExists
<1>2. n \in Nat /\ n # 0 /\ n - 1 \in Nat /\ (n - 1) + 1 = n
  OBVIOUS
<1>3. n - 1 \notin T
  BY <1>1, <1>2
<1> QED BY <1>2, <1>3

LEMMA EverySequence ==
    ASSUME NEW X, NEW G, <<>> \in G, \A s \in Seq(X), x \in X : s \in G => Append(s, x) \in G
    PROVE  Seq(X) \subseteq G
<1> DEFINE H == {n \in Nat : \A s \in Seq(X) : Len(s) = n => s \in G}
<1>1. 0 \in H
  <2>1. \A s \in Seq(X) : Len(s) = 0 => s = <<>>
    OBVIOUS
  <2> QED BY <2>1
<1>2. ASSUME NEW n \in Nat, n \in H PROVE n + 1 \in H
  <2> SUFFICES ASSUME NEW s \in Seq(X), Len(s) = n + 1 PROVE s \in G
    OBVIOUS
  <2> DEFINE t == [i \in 1..n |-> s[i]]
  <2>1. t \in Seq(X) /\ Len(t) = n /\ s[n + 1] \in X
    OBVIOUS
  <2>2. Append(t, s[n + 1]) = s
    OBVIOUS
  <2>3. t \in G
    BY <1>2, <2>1
  <2> HIDE DEF t
  <2> QED BY <2>1, <2>2, <2>3
<1>3. Nat \subseteq H
  <2> HIDE DEF H
  <2> QED BY <1>1, <1>2, EveryNumber
<1> QED BY <1>3

LEMMA LeastIs ==
    ASSUME NEW S \in SUBSET Nat, S # {}
    PROVE  Min(S) \in S /\ \A n \in S : Min(S) <= n
<1>1. PICK x \in S : \A y \in S : x <= y
  BY LeastExists
<1> QED BY <1>1 DEF Min

LEMMA GreatestIs ==
    ASSUME NEW b \in Nat, NEW S \in SUBSET (0..b), S # {}
    PROVE  Max(S) \in S /\ \A n \in S : n <= Max(S)
<1> DEFINE D == {b - n : n \in S}
<1>1. D \in SUBSET Nat
  <2> SUFFICES ASSUME NEW n \in S PROVE b - n \in Nat
    OBVIOUS
  <2> QED OBVIOUS
<1>2. D # {}
  <2>1. PICK n \in S : TRUE
    OBVIOUS
  <2>2. b - n \in D
    OBVIOUS
  <2> QED BY <2>2
<1>3. PICK d \in D : \A e \in D : d <= e
  <2> HIDE DEF D
  <2> QED BY <1>1, <1>2, LeastExists
<1>4. PICK g \in S : d = b - g
  OBVIOUS
<1>5. \A n \in S : n <= g
  <2> SUFFICES ASSUME NEW n \in S PROVE n <= g
    OBVIOUS
  <2>1. b - n \in D
    OBVIOUS
  <2>2. d <= b - n
    BY <1>3, <2>1
  <2> QED BY <1>4, <2>2
<1>6. \A n \in S : g >= n
  BY <1>5
<1> QED BY <1>6 DEF Max

-----------------------------------------------------------------------------
(* Flattening a sequence of sequences, one element at a time.               *)

LEMMA AppendedLater ==
    ASSUME NEW Y, NEW s \in Seq(Y), NEW t \in Seq(Y), NEW x \in Y
    PROVE  s \o Append(t, x) = Append(s \o t, x) /\ s \o t \in Seq(Y)
<1>1. <<x>> \in Seq(Y) /\ s \o t \in Seq(Y)
  OBVIOUS
<1>2. t \o <<x>> = Append(t, x) /\ (s \o t) \o <<x>> = Append(s \o t, x)
  BY <1>1, AppendIsConcat
<1>3. (s \o t) \o <<x>> = s \o (t \o <<x>>)
  BY <1>1, ConcatAssociative
<1> QED BY <1>1, <1>2, <1>3

IsFlat(f, s, n) == f = [k \in 1..n |-> IF k = 1 THEN s[k] ELSE f[k - 1] \o s[k]]

LEMMA FlatExists ==
    ASSUME NEW s, NEW n \in Nat
    PROVE  \E f : IsFlat(f, s, n)
<1> DEFINE G == {k \in Nat : \E f : IsFlat(f, s, k)}
<1>1. 0 \in G
  <2> DEFINE f == [l \in 1..0 |-> s[l]]
  <2>1. f = [l \in 1..0 |-> IF l = 1 THEN s[l] ELSE f[l - 1] \o s[l]]
    OBVIOUS
  <2>2. IsFlat(f, s, 0)
    BY <2>1 DEF IsFlat
  <2> QED BY <2>2
<1>2. ASSUME NEW k \in Nat, k \in G PROVE k + 1 \in G
  <2>1. PICK old : IsFlat(old, s, k)
    BY <1>2
  <2> DEFINE new == IF k = 0 THEN s[k + 1] ELSE old[k] \o s[k + 1]
             f == [l \in 1..(k + 1) |-> IF l = k + 1 THEN new ELSE old[l]]
  <2>2. ASSUME NEW l \in 1..(k + 1)
        PROVE  f[l] = IF l = 1 THEN s[l] ELSE f[l - 1] \o s[l]
    <3>1. CASE l = k + 1
      <4>1. l = 1 <=> k = 0
        BY <1>2, <3>1
      <4>2. l # 1 => l - 1 = k /\ l - 1 \in 1..(k + 1) /\ l - 1 # k + 1
        BY <1>2, <3>1
      <4>3. l # 1 => f[l - 1] = old[k]
        BY <4>2
      <4>4. f[l] = new
        BY <3>1
      <4> HIDE DEF f
      <4> QED BY <3>1, <4>1, <4>3, <4>4
    <3>2. CASE l # k + 1
      <4>1. l \in 1..k /\ f[l] = old[l]
        BY <1>2, <3>2
      <4>2. l # 1 => l - 1 \in 1..(k + 1) /\ l - 1 # k + 1
        BY <1>2, <3>2
      <4>3. l # 1 => f[l - 1] = old[l - 1]
        BY <4>2
      <4>4. old[l] = IF l = 1 THEN s[l] ELSE old[l - 1] \o s[l]
        BY <2>1, <4>1 DEF IsFlat
      <4> HIDE DEF f
      <4> QED BY <4>1, <4>3, <4>4
    <3> QED BY <3>1, <3>2
  <2>3. f = [l \in 1..(k + 1) |-> f[l]]
    OBVIOUS
  <2> HIDE DEF f
  <2>4. IsFlat(f, s, k + 1)
    BY <2>2, <2>3 DEF IsFlat
  <2> QED BY <1>2, <2>4
<1>3. Nat \subseteq G
  <2> HIDE DEF G
  <2> QED BY <1>1, <1>2, EveryNumber
<1> QED BY <1>3

Flat(s) == CHOOSE f : IsFlat(f, s, Len(s))

LEMMA FlattenIs ==
    ASSUME NEW X, NEW s \in Seq(Seq(X)), s # <<>>
    PROVE  /\ FlattenSeq(s) = Flat(s)[Len(s)]
           /\ Len(s) \in Nat /\ Len(s) >= 1
           /\ \A k \in 1..Len(s) : s[k] \in Seq(X)
           /\ \A k \in 1..Len(s) :
                Flat(s)[k] = IF k = 1 THEN s[k] ELSE Flat(s)[k - 1] \o s[k]
<1> DEFINE Y == Seq(X)
<1>1. Len(s) \in Nat /\ Len(s) # 0 /\ \A k \in 1..Len(s) : s[k] \in Y
  <2>1. s \in Seq(Y)
    OBVIOUS
  <2> HIDE DEF Y
  <2> QED BY <2>1
<1>2. FlattenSeq(s) = Flat(s)[Len(s)]
  BY <1>1 DEF FlattenSeq, Flat, IsFlat
<1>3. IsFlat(Flat(s), s, Len(s))
  BY <1>1, FlatExists DEF Flat
<1> DEFINE f == Flat(s)
<1> HIDE DEF f
<1>4. f = [k \in 1..Len(s) |-> IF k = 1 THEN s[k] ELSE f[k - 1] \o s[k]]
  BY <1>3 DEF IsFlat, f
<1>5. \A k \in 1..Len(s) : f[k] = IF k = 1 THEN s[k] ELSE f[k - 1] \o s[k]
  BY <1>4
<1>6. Len(s) >= 1
  BY <1>1
<1> QED BY <1>1, <1>2, <1>5, <1>6 DEF f

LEMMA FlattenType ==
    ASSUME NEW X, NEW s \in Seq(Seq(X))
    PROVE  FlattenSeq(s) \in Seq(X)
<1>1. CASE s = <<>>
  BY <1>1 DEF FlattenSeq
<1>2. CASE s # <<>>
  <2> DEFINE f == Flat(s)
             G == {k \in Nat : k + 1 <= Len(s) => f[k + 1] \in Seq(X)}
  <2>1. /\ FlattenSeq(s) = f[Len(s)] /\ Len(s) \in Nat /\ Len(s) >= 1
        /\ (\A k \in 1..Len(s) : s[k] \in Seq(X))
        /\ (\A k \in 1..Len(s) : f[k] = IF k = 1 THEN s[k] ELSE f[k - 1] \o s[k])
    BY <1>2, FlattenIs
  <2> HIDE DEF f
  <2>2. 0 \in G
    <3>1. 1 \in 1..Len(s) /\ 0 + 1 = 1
      BY <2>1
    <3>2. f[1] = s[1] /\ s[1] \in Seq(X)
      BY <2>1, <3>1
    <3> QED BY <3>1, <3>2
  <2>3. ASSUME NEW k \in Nat, k \in G PROVE k + 1 \in G
    <3> SUFFICES ASSUME (k + 1) + 1 <= Len(s) PROVE f[(k + 1) + 1] \in Seq(X)
      OBVIOUS
    <3>1. (k + 1) + 1 \in 1..Len(s) /\ (k + 1) + 1 # 1 /\ ((k + 1) + 1) - 1 = k + 1 /\ k + 1 <= Len(s)
      BY <2>1
    <3>2. f[k + 1] \in Seq(X)
      BY <2>3, <3>1
    <3>3. f[(k + 1) + 1] = f[k + 1] \o s[(k + 1) + 1] /\ s[(k + 1) + 1] \in Seq(X)
      BY <2>1, <3>1
    <3> QED BY <3>2, <3>3
  <2>4. Nat \subseteq G
    <3> HIDE DEF G
    <3> QED BY <2>2, <2>3, EveryNumber
  <2>5. Len(s) - 1 \in Nat /\ (Len(s) - 1) + 1 = Len(s) /\ Len(s) <= Len(s)
    BY <2>1
  <2>6. Len(s) - 1 \in G
    BY <2>4, <2>5
  <2>7. f[Len(s)] \in Seq(X)
    BY <2>5, <2>6
  <2> QED BY <2>1, <2>7
<1> QED BY <1>1, <1>2

LEMMA FlattenNext ==
    ASSUME NEW X, NEW s \in Seq(Seq(X)), NEW x \in Seq(X)
    PROVE  FlattenSeq(Append(s, x)) = FlattenSeq(s) \o x
<1> DEFINE t == Append(s, x)
           f == Flat(s)
           g == Flat(t)
           n == Len(s)
<1>1. t \in Seq(Seq(X)) /\ t # <<>> /\ Len(t) = n + 1 /\ n \in Nat /\ t[n + 1] = x
      /\ \A k \in 1..n : t[k] = s[k]
  <2> DEFINE Y == Seq(X)
  <2>1. s \in Seq(Y) /\ x \in Y
    OBVIOUS
  <2> HIDE DEF Y
  <2>2. t \in Seq(Y) /\ t # <<>> /\ Len(t) = n + 1 /\ n \in Nat /\ t[n + 1] = x
        /\ \A k \in 1..n : t[k] = s[k]
    BY <2>1, AppendProperties, LenProperties
  <2> QED BY <2>2 DEF Y
<1> HIDE DEF t
<1>2. /\ FlattenSeq(t) = g[Len(t)]
      /\ \A k \in 1..Len(t) : g[k] = IF k = 1 THEN t[k] ELSE g[k - 1] \o t[k]
  BY <1>1, FlattenIs
<1> HIDE DEF g
<1>3. CASE s = <<>>
  <2>1. n = 0 /\ FlattenSeq(s) = <<>>
    BY <1>3 DEF FlattenSeq
  <2>2. Len(t) = 1 /\ 1 \in 1..Len(t)
    BY <1>1, <2>1
  <2>3. FlattenSeq(t) = t[1] /\ t[1] = x
    BY <1>1, <1>2, <2>1, <2>2
  <2>4. <<>> \o x = x
    OBVIOUS
  <2> QED BY <2>1, <2>3, <2>4 DEF t
<1>4. CASE s # <<>>
  <2>1. /\ FlattenSeq(s) = f[n] /\ n >= 1
        /\ \A k \in 1..n : f[k] = IF k = 1 THEN s[k] ELSE f[k - 1] \o s[k]
    BY <1>4, FlattenIs
  <2> HIDE DEF f, n
  <2> DEFINE G == {k \in Nat : k + 1 <= n => f[k + 1] = g[k + 1]}
  <2>2. 0 \in G
    <3>1. 1 \in 1..n /\ 1 \in 1..Len(t) /\ 0 + 1 = 1
      BY <1>1, <2>1
    <3>2. f[1] = s[1] /\ g[1] = t[1] /\ t[1] = s[1]
      BY <1>1, <1>2, <2>1, <3>1
    <3> QED BY <3>1, <3>2
  <2>3. ASSUME NEW k \in Nat, k \in G PROVE k + 1 \in G
    <3> SUFFICES ASSUME (k + 1) + 1 <= n PROVE f[(k + 1) + 1] = g[(k + 1) + 1]
      OBVIOUS
    <3>1. (k + 1) + 1 \in 1..n /\ (k + 1) + 1 \in 1..Len(t) /\ (k + 1) + 1 # 1
          /\ ((k + 1) + 1) - 1 = k + 1 /\ k + 1 <= n
      BY <1>1
    <3>2. f[k + 1] = g[k + 1] /\ t[(k + 1) + 1] = s[(k + 1) + 1]
      BY <1>1, <2>3, <3>1
    <3>3. f[(k + 1) + 1] = f[k + 1] \o s[(k + 1) + 1]
      BY <2>1, <3>1
    <3>4. g[(k + 1) + 1] = g[k + 1] \o t[(k + 1) + 1]
      BY <1>2, <3>1
    <3> QED BY <3>2, <3>3, <3>4
  <2>4. Nat \subseteq G
    <3> HIDE DEF G
    <3> QED BY <2>2, <2>3, EveryNumber
  <2>5. f[n] = g[n]
    <3>1. n - 1 \in Nat /\ (n - 1) + 1 = n
      BY <1>1, <2>1
    <3> QED BY <2>4, <3>1
  <2>6. g[n + 1] = g[n] \o x
    <3>1. n + 1 \in 1..Len(t) /\ n + 1 # 1 /\ (n + 1) - 1 = n
      BY <1>1, <2>1
    <3> QED BY <1>1, <1>2, <3>1
  <2> QED BY <1>1, <1>2, <2>1, <2>5, <2>6 DEF t
<1> QED BY <1>3, <1>4

LEMMA FlattenEmpty == FlattenSeq(<<>>) = <<>>
BY DEF FlattenSeq

-----------------------------------------------------------------------------
(* What is picked from the elements of a sequence, one element at a time.   *)

Mapped(F, s) == [n \in DOMAIN s |-> F[s[n]]]
Picked(F, s) == FlattenSeq(Mapped(F, s))

LEMMA MappedType ==
    ASSUME NEW A, NEW B, NEW F \in [A -> B], NEW s \in Seq(A)
    PROVE  Mapped(F, s) \in Seq(B)
<1>1. DOMAIN s = 1..Len(s) /\ Len(s) \in Nat /\ \A n \in 1..Len(s) : F[s[n]] \in B
  OBVIOUS
<1> QED BY <1>1 DEF Mapped

LEMMA MappedNext ==
    ASSUME NEW A, NEW B, NEW F \in [A -> B], NEW s \in Seq(A), NEW x \in A
    PROVE  Mapped(F, Append(s, x)) = Append(Mapped(F, s), F[x])
<1> DEFINE m(t) == [n \in 1..Len(t) |-> F[t[n]]]
<1>1. ASSUME NEW t \in Seq(A) PROVE Mapped(F, t) = m(t) /\ m(t) \in Seq(B) /\ Len(m(t)) = Len(t)
  <2>1. DOMAIN t = 1..Len(t) /\ Len(t) \in Nat /\ \A n \in 1..Len(t) : F[t[n]] \in B
    OBVIOUS
  <2> QED BY <2>1 DEF Mapped
<1>2. /\ Append(s, x) \in Seq(A) /\ Len(Append(s, x)) = Len(s) + 1 /\ Len(s) \in Nat
      /\ Append(s, x)[Len(s) + 1] = x
      /\ \A n \in 1..Len(s) : Append(s, x)[n] = s[n]
  BY AppendProperties, LenProperties
<1>3. F[x] \in B
  OBVIOUS
<1> DEFINE u == m(Append(s, x))
           v == Append(m(s), F[x])
<1>4. u \in Seq(B) /\ Len(u) = Len(s) + 1
  BY <1>1, <1>2
<1>5. /\ v \in Seq(B) /\ Len(v) = Len(s) + 1 /\ v[Len(s) + 1] = F[x]
      /\ \A n \in 1..Len(s) : v[n] = m(s)[n]
  <2>1. m(s) \in Seq(B) /\ Len(m(s)) = Len(s)
    BY <1>1
  <2> HIDE DEF m
  <2> QED BY <1>3, <2>1, AppendProperties
<1>6. \A n \in 1..(Len(s) + 1) : u[n] = v[n]
  <2> SUFFICES ASSUME NEW n \in 1..(Len(s) + 1) PROVE u[n] = v[n]
    OBVIOUS
  <2>1. u[n] = F[Append(s, x)[n]]
    BY <1>2
  <2>2. CASE n = Len(s) + 1
    BY <1>2, <1>5, <2>1, <2>2
  <2>3. CASE n # Len(s) + 1
    <3>1. n \in 1..Len(s)
      BY <1>2, <2>3
    <3>2. m(s)[n] = F[s[n]]
      BY <3>1
    <3> QED BY <1>2, <1>5, <2>1, <3>1, <3>2
  <2> QED BY <2>2, <2>3
<1> HIDE DEF u, v
<1>7. u = v
  BY <1>4, <1>5, <1>6, SeqEqual
<1> QED BY <1>1, <1>2, <1>7 DEF u, v

LEMMA PickedType ==
    ASSUME NEW A, NEW X, NEW F \in [A -> Seq(X)], NEW s \in Seq(A)
    PROVE  Picked(F, s) \in Seq(X)
<1> DEFINE B == Seq(X)
<1>1. F \in [A -> B]
  OBVIOUS
<1> HIDE DEF B
<1>2. Mapped(F, s) \in Seq(B)
  BY <1>1, MappedType
<1>3. Mapped(F, s) \in Seq(Seq(X))
  BY <1>2 DEF B
<1> QED BY <1>3, FlattenType DEF Picked

LEMMA PickedNext ==
    ASSUME NEW A, NEW X, NEW F \in [A -> Seq(X)], NEW s \in Seq(A), NEW x \in A
    PROVE  Picked(F, Append(s, x)) = Picked(F, s) \o F[x]
<1> DEFINE B == Seq(X)
<1>1. F \in [A -> B] /\ F[x] \in Seq(X)
  OBVIOUS
<1> HIDE DEF B
<1>2. F \in [A -> B]
  BY <1>1
<1>3. Mapped(F, s) \in Seq(B) /\ Mapped(F, Append(s, x)) = Append(Mapped(F, s), F[x])
  <2>1. Mapped(F, s) \in Seq(B)
    BY <1>2, MappedType
  <2>2. Mapped(F, Append(s, x)) = Append(Mapped(F, s), F[x])
    BY <1>2, MappedNext
  <2> QED BY <2>1, <2>2
<1>4. Mapped(F, s) \in Seq(Seq(X))
  BY <1>3 DEF B
<1> QED BY <1>1, <1>3, <1>4, FlattenNext DEF Picked

LEMMA PickedFirst == \A F : Mapped(F, <<>>) = <<>> /\ Picked(F, <<>>) = <<>>
<1>1. \A F : Mapped(F, <<>>) = <<>>
  BY DEF Mapped
<1> QED BY <1>1, FlattenEmpty DEF Picked

\* The first n of g's sequences, one after the other.
Joined(g, n) == FlattenSeq([j \in 1..n |-> g[j]])

LEMMA JoinedNone == \A g : Joined(g, 0) = <<>>
<1> SUFFICES ASSUME NEW g PROVE Joined(g, 0) = <<>>
  OBVIOUS
<1>1. [j \in 1..0 |-> g[j]] = <<>>
  OBVIOUS
<1> QED BY <1>1, FlattenEmpty DEF Joined

LEMMA JoinedNext ==
    ASSUME NEW X, NEW n \in Nat, NEW g, \A j \in 1..(n + 1) : g[j] \in Seq(X)
    PROVE  /\ Joined(g, n) \in Seq(X)
           /\ Joined(g, n + 1) = Joined(g, n) \o g[n + 1]
<1> DEFINE Y == Seq(X)
           s == [j \in 1..n |-> g[j]]
           t == [j \in 1..(n + 1) |-> g[j]]
<1>1. \A j \in 1..(n + 1) : g[j] \in Y
  OBVIOUS
<1> HIDE DEF Y
<1>2. s \in Seq(Y) /\ g[n + 1] \in Y /\ t = Append(s, g[n + 1])
  <2>1. s \in Seq(Y) /\ Len(s) = n /\ g[n + 1] \in Y /\ t \in Seq(Y) /\ Len(t) = n + 1
    BY <1>1
  <2>2. /\ Append(s, g[n + 1]) \in Seq(Y) /\ Len(Append(s, g[n + 1])) = n + 1
        /\ Append(s, g[n + 1])[n + 1] = g[n + 1]
        /\ \A j \in 1..n : Append(s, g[n + 1])[j] = s[j]
    <3> HIDE DEF s
    <3> QED BY <2>1, AppendProperties
  <2>3. \A j \in 1..(n + 1) : t[j] = Append(s, g[n + 1])[j]
    <3> SUFFICES ASSUME NEW j \in 1..(n + 1) PROVE t[j] = Append(s, g[n + 1])[j]
      OBVIOUS
    <3>1. j = n + 1 \/ j \in 1..n
      OBVIOUS
    <3>2. t[j] = g[j] /\ (j \in 1..n => s[j] = g[j])
      OBVIOUS
    <3> HIDE DEF s, t
    <3> QED BY <2>2, <3>1, <3>2
  <2> HIDE DEF s, t
  <2>4. t = Append(s, g[n + 1])
    BY <2>1, <2>2, <2>3, SeqEqual
  <2> QED BY <2>1, <2>4
<1>3. s \in Seq(Seq(X)) /\ g[n + 1] \in Seq(X)
  BY <1>2 DEF Y
<1> HIDE DEF s, t
<1>4. FlattenSeq(s) \in Seq(X)
  BY <1>3, FlattenType
<1>5. FlattenSeq(Append(s, g[n + 1])) = FlattenSeq(s) \o g[n + 1]
  BY <1>3, FlattenNext
<1> QED BY <1>2, <1>4, <1>5 DEF Joined, s, t

LEMMA JoinedType ==
    ASSUME NEW X, NEW n \in Nat, NEW g, \A j \in 1..n : g[j] \in Seq(X)
    PROVE  Joined(g, n) \in Seq(X)
<1>1. CASE n = 0
  <2>1. Joined(g, 0) = <<>> /\ <<>> \in Seq(X)
    BY JoinedNone
  <2> QED BY <1>1, <2>1
<1>2. CASE n # 0
  <2>1. n - 1 \in Nat /\ (n - 1) + 1 = n /\ n \in 1..n
    BY <1>2
  <2>2. Joined(g, n - 1) \in Seq(X) /\ Joined(g, n) = Joined(g, n - 1) \o g[n]
    <3>1. \A j \in 1..((n - 1) + 1) : g[j] \in Seq(X)
      BY <2>1
    <3>2. Joined(g, n - 1) \in Seq(X) /\ Joined(g, (n - 1) + 1) = Joined(g, n - 1) \o g[(n - 1) + 1]
      BY <2>1, <3>1, JoinedNext
    <3> QED BY <2>1, <3>2
  <2>3. g[n] \in Seq(X)
    BY <2>1
  <2> QED BY <2>2, <2>3
<1> QED BY <1>1, <1>2

LEMMA JoinedEmpty ==
    ASSUME NEW X, NEW a \in Nat, NEW b \in Nat, NEW g, a <= b,
           \A j \in 1..b : g[j] \in Seq(X),
           \A j \in (a + 1)..b : g[j] = <<>>
    PROVE  Joined(g, b) = Joined(g, a)
<1> DEFINE G == {n \in Nat : a + n <= b => Joined(g, a + n) = Joined(g, a)}
<1>1. 0 \in G
  OBVIOUS
<1>2. ASSUME NEW n \in Nat, n \in G PROVE n + 1 \in G
  <2> SUFFICES ASSUME a + (n + 1) <= b PROVE Joined(g, a + (n + 1)) = Joined(g, a)
    OBVIOUS
  <2> DEFINE k == a + n
  <2>1. k \in Nat /\ k + 1 = a + (n + 1) /\ k + 1 \in (a + 1)..b /\ k <= b
    OBVIOUS
  <2>2. Joined(g, k) = Joined(g, a)
    BY <1>2, <2>1
  <2> HIDE DEF k
  <2>3. \A j \in 1..(k + 1) : g[j] \in Seq(X)
    BY <2>1
  <2>4. Joined(g, k) \in Seq(X) /\ Joined(g, k + 1) = Joined(g, k) \o g[k + 1]
    BY <2>1, <2>3, JoinedNext
  <2>5. g[k + 1] = <<>>
    BY <2>1
  <2>6. Joined(g, k) \o <<>> = Joined(g, k)
    BY <2>4, ConcatEmptySeq
  <2> QED BY <2>1, <2>2, <2>4, <2>5, <2>6
<1>3. Nat \subseteq G
  <2> HIDE DEF G
  <2> QED BY <1>1, <1>2, EveryNumber
<1>4. b - a \in Nat /\ a + (b - a) = b
  OBVIOUS
<1> QED BY <1>3, <1>4

-----------------------------------------------------------------------------
(* Keys, for any alphabet, any entries and any URL.                         *)

LEMMA NormalizedIsUrl ==
    ASSUME NEW Chars, NEW url \in Seq(Chars)
    PROVE  Normalized(url) \in Seq(Chars)
<1> DEFINE S == {0} \cup {i \in DOMAIN url : url[i] # "/"}
<1>1. Len(url) \in Nat /\ DOMAIN url = 1..Len(url)
  BY LenProperties
<1>2. S \in SUBSET (0..Len(url)) /\ S # {}
  BY <1>1
<1>3. Max(S) \in 0..Len(url)
  <2> HIDE DEF S
  <2> QED BY <1>1, <1>2, GreatestIs
<1> HIDE DEF S
<1>4. \A i \in 1..Max(S) : url[i] \in Chars
  BY <1>1, <1>3, ElementOfSeq
<1>5. SubSeq(url, 1, Max(S)) \in Seq(Chars)
  BY <1>3, <1>4, SubSeqProperties
<1> QED BY <1>5 DEF Normalized, S

\* A key covers the URLs on whose way up it lies: their own, or their start up
\* to a slash.
LEMMA CoversIsAbove ==
    ASSUME NEW Chars, NEW prefix \in Seq(Chars), NEW url \in Seq(Chars)
    PROVE  /\ Covers(prefix, url) =>
                /\ Len(prefix) \in 0..Len(url)
                /\ Len(prefix) = Len(url) \/ url[Len(prefix) + 1] = "/"
                /\ prefix = SubSeq(url, 1, Len(prefix))
           /\ \A n \in 0..Len(url) :
                /\ n = Len(url) \/ url[n + 1] = "/"
                /\ prefix = SubSeq(url, 1, n)
                => Covers(prefix, url) /\ Len(prefix) = n
<1>1. Len(prefix) \in Nat /\ Len(url) \in Nat
  BY LenProperties
<1>2. SubSeq(prefix, 1, Len(prefix)) = prefix
  BY SubSeqFull
<1>3. ASSUME Covers(prefix, url)
      PROVE  /\ Len(prefix) \in 0..Len(url)
             /\ Len(prefix) = Len(url) \/ url[Len(prefix) + 1] = "/"
             /\ prefix = SubSeq(url, 1, Len(prefix))
  BY <1>1, <1>2, <1>3 DEF Covers, IsPrefix
<1>4. ASSUME NEW n \in 0..Len(url), n = Len(url) \/ url[n + 1] = "/",
             prefix = SubSeq(url, 1, n)
      PROVE  Covers(prefix, url) /\ Len(prefix) = n
  <2>1. \A i \in 1..n : url[i] \in Chars
    BY <1>1, ElementOfSeq
  <2>2. Len(SubSeq(url, 1, n)) = IF 1 <= n THEN n - 1 + 1 ELSE 0
    BY <2>1, SubSeqProperties
  <2>3. Len(prefix) = n
    BY <1>4, <2>2
  <2> QED BY <1>1, <1>2, <1>4, <2>3 DEF Covers, IsPrefix
<1> QED BY <1>3, <1>4

NotAfter(entries, i) == {j \in DOMAIN entries : j = i \/ Longer(entries, j, i)}

\* Longer is a total order of the entries.
LEMMA LongerOrders ==
    ASSUME NEW Chars, NEW entries \in Seq(Seq(Chars))
    PROVE  /\ DOMAIN entries = 1..Len(entries) /\ Len(entries) \in Nat
           /\ \A i \in DOMAIN entries :
                /\ Normalized(entries[i]) \in Seq(Chars)
                /\ Len(Normalized(entries[i])) \in Nat
                /\ ~Longer(entries, i, i)
           /\ \A i, j \in DOMAIN entries :
                i # j => Longer(entries, i, j) \/ Longer(entries, j, i)
           /\ \A i, j, k \in DOMAIN entries :
                Longer(entries, i, j) /\ Longer(entries, j, k) => Longer(entries, i, k)
<1> DEFINE L(i) == Len(Normalized(entries[i]))
<1>1. DOMAIN entries = 1..Len(entries) /\ Len(entries) \in Nat
  BY LenProperties
<1>2. \A i \in DOMAIN entries : Normalized(entries[i]) \in Seq(Chars) /\ L(i) \in Nat
  <2> SUFFICES ASSUME NEW i \in DOMAIN entries
               PROVE  Normalized(entries[i]) \in Seq(Chars) /\ L(i) \in Nat
    OBVIOUS
  <2>1. entries[i] \in Seq(Chars)
    BY <1>1, ElementOfSeq
  <2>2. Normalized(entries[i]) \in Seq(Chars)
    BY <2>1, NormalizedIsUrl
  <2> QED BY <2>2, LenProperties
<1>3. \A i, j : Longer(entries, i, j) <=> L(i) > L(j) \/ (L(i) = L(j) /\ i < j)
  BY DEF Longer
<1>4. \A i \in DOMAIN entries : i \in Nat /\ L(i) \in Nat
  BY <1>1, <1>2
<1> HIDE DEF L
<1>5. \A i \in DOMAIN entries : ~Longer(entries, i, i)
  BY <1>3, <1>4
<1>6. \A i, j \in DOMAIN entries :
          i # j => Longer(entries, i, j) \/ Longer(entries, j, i)
  <2> SUFFICES ASSUME NEW i \in DOMAIN entries, NEW j \in DOMAIN entries, i # j
               PROVE  Longer(entries, i, j) \/ Longer(entries, j, i)
    OBVIOUS
  <2>1. L(i) > L(j) \/ L(j) > L(i) \/ (L(i) = L(j) /\ (i < j \/ j < i))
    BY <1>4
  <2> QED BY <1>3, <2>1
<1>7. \A i, j, k \in DOMAIN entries :
          Longer(entries, i, j) /\ Longer(entries, j, k) => Longer(entries, i, k)
  BY <1>3, <1>4
<1> QED BY <1>1, <1>2, <1>5, <1>6, <1>7 DEF L

\* The entry that comes first has the lower position.
LEMMA PositionsRise ==
    ASSUME NEW Chars, NEW entries \in Seq(Seq(Chars)), NEW i \in DOMAIN entries
    PROVE  /\ Cardinality(NotAfter(entries, i)) \in 1..Len(entries)
           /\ \A j \in DOMAIN entries :
                Longer(entries, i, j) =>
                    Cardinality(NotAfter(entries, i)) < Cardinality(NotAfter(entries, j))
<1>1. /\ IsFiniteSet(DOMAIN entries) /\ Cardinality(DOMAIN entries) = Len(entries)
      /\ Len(entries) \in Nat
  <2>1. DOMAIN entries = 1..Len(entries) /\ Len(entries) \in Nat
    BY LongerOrders
  <2>2. \A n \in Nat : IsFiniteSet(1..n) /\ Cardinality(1..n) = n
    BY FS_Interval
  <2> QED BY <2>1, <2>2
<1>2. \A j \in DOMAIN entries :
        /\ NotAfter(entries, j) \subseteq DOMAIN entries
        /\ IsFiniteSet(NotAfter(entries, j))
        /\ Cardinality(NotAfter(entries, j)) \in Nat
        /\ Cardinality(NotAfter(entries, j)) <= Len(entries)
  <2> SUFFICES ASSUME NEW j \in DOMAIN entries
               PROVE  /\ NotAfter(entries, j) \subseteq DOMAIN entries
                      /\ IsFiniteSet(NotAfter(entries, j))
                      /\ Cardinality(NotAfter(entries, j)) \in Nat
                      /\ Cardinality(NotAfter(entries, j)) <= Len(entries)
    OBVIOUS
  <2>1. NotAfter(entries, j) \subseteq DOMAIN entries
    BY DEF NotAfter
  <2> QED BY <1>1, <2>1, FS_Subset, FS_CardinalityType
<1>3. Cardinality(NotAfter(entries, i)) >= 1
  <2>1. i \in NotAfter(entries, i)
    BY DEF NotAfter
  <2>2. Cardinality(NotAfter(entries, i)) # 0
    BY <1>2, <2>1, FS_EmptySet
  <2> QED BY <1>2, <2>2
<1>4. ASSUME NEW j \in DOMAIN entries, Longer(entries, i, j)
      PROVE  Cardinality(NotAfter(entries, i)) < Cardinality(NotAfter(entries, j))
  <2>1. ~Longer(entries, j, i) /\ i # j
    BY <1>4, LongerOrders
  <2>2. j \in NotAfter(entries, j) /\ j \notin NotAfter(entries, i)
    BY <2>1 DEF NotAfter
  <2>3. NotAfter(entries, i) \subseteq NotAfter(entries, j)
    BY <1>4, LongerOrders DEF NotAfter
  <2>4. Cardinality(NotAfter(entries, i)) <= Cardinality(NotAfter(entries, j))
    BY <1>2, <2>3, FS_Subset
  <2>5. Cardinality(NotAfter(entries, i)) # Cardinality(NotAfter(entries, j))
    BY <1>2, <2>2, <2>3, FS_Subset
  <2> QED BY <1>2, <2>4, <2>5
<1>5. Cardinality(NotAfter(entries, i)) \in Nat
  BY <1>2
<1> QED BY <1>1, <1>2, <1>3, <1>4, <1>5

\* Credentials::new: every entry is in the list, the longer ones first.
THEOREM KeysAreOrdered ==
    ASSUME NEW Chars, NEW entries \in Seq(Seq(Chars))
    PROVE  LET order == Ordered(entries)
           IN  /\ DOMAIN order = DOMAIN entries
               /\ \A n \in DOMAIN order : order[n] \in DOMAIN entries
               /\ \A i \in DOMAIN entries : \E n \in DOMAIN order : order[n] = i
               /\ \A m, n \in DOMAIN order : m < n => Longer(entries, order[m], order[n])
<1> DEFINE D == DOMAIN entries
           P(i) == Cardinality(NotAfter(entries, i))
           order == Ordered(entries)
           f == [i \in D |-> P(i)]
<1>1. D = 1..Len(entries) /\ Len(entries) \in Nat
  BY LongerOrders
<1>2. IsFiniteSet(D) /\ Cardinality(D) = Len(entries)
  BY <1>1, FS_Interval
<1>3. \A i \in D : P(i) \in D
  BY <1>1, PositionsRise
<1>4. \A i, j \in D : Longer(entries, i, j) => P(i) < P(j)
  BY PositionsRise
<1>5. order = [n \in D |-> CHOOSE i \in D : P(i) = n]
  BY DEF Ordered, NotAfter
<1>6. \A i, j \in D : P(i) = P(j) => i = j
  <2> SUFFICES ASSUME NEW i \in D, NEW j \in D, i # j PROVE P(i) # P(j)
    OBVIOUS
  <2>1. Longer(entries, i, j) \/ Longer(entries, j, i)
    BY LongerOrders
  <2>2. P(i) < P(j) \/ P(j) < P(i)
    BY <1>4, <2>1
  <2>3. P(i) \in Nat /\ P(j) \in Nat
    BY <1>1, <1>3
  <2> HIDE DEF P
  <2> QED BY <2>2, <2>3
<1> HIDE DEF P, order
<1>7. f \in Injection(D, D)
  <2>1. f \in [D -> D]
    BY <1>3
  <2>2. \A i, j \in D : f[i] = f[j] => i = j
    BY <1>6
  <2> HIDE DEF f, D
  <2> QED BY <2>1, <2>2 DEF Injection, IsInjective
<1>8. f \in Surjection(D, D)
  <2> HIDE DEF f, D
  <2> QED BY <1>2, <1>7, FS_Injection
<1>9. \A n \in D : \E i \in D : P(i) = n
  <2>1. \A n \in D : \E i \in D : f[i] = n
    <3> HIDE DEF f, D
    <3> QED BY <1>8 DEF Surjection
  <2> QED BY <2>1
<1>10. \A n \in D : order[n] \in D /\ P(order[n]) = n
  BY <1>5, <1>9
<1>11. DOMAIN order = D
  BY <1>5
<1>12. \A i \in D : \E n \in D : order[n] = i
  BY <1>3, <1>6, <1>10
<1>13. \A m, n \in D : m < n => Longer(entries, order[m], order[n])
  <2> SUFFICES ASSUME NEW m \in D, NEW n \in D, m < n
               PROVE  Longer(entries, order[m], order[n])
    OBVIOUS
  <2>1. order[m] # order[n] /\ ~(P(order[n]) < P(order[m]))
    BY <1>1, <1>10
  <2> QED BY <1>4, <1>10, <2>1, LongerOrders
<1> QED BY <1>10, <1>11, <1>12, <1>13 DEF order

KeyCovers(entries, url, i) == Covers(Normalized(entries[i]), Normalized(url))

\* The entry that for_url answers comes before all others that cover the URL.
LEMMA ForUrlIsFirst ==
    ASSUME NEW Chars, NEW entries \in Seq(Seq(Chars)), NEW url
    PROVE  \/ /\ ForUrl(entries, url) = 0
              /\ \A i \in DOMAIN entries : ~KeyCovers(entries, url, i)
           \/ /\ ForUrl(entries, url) \in DOMAIN entries
              /\ KeyCovers(entries, url, ForUrl(entries, url))
              /\ \A i \in DOMAIN entries :
                    KeyCovers(entries, url, i) =>
                        i = ForUrl(entries, url) \/ Longer(entries, ForUrl(entries, url), i)
<1> DEFINE order == Ordered(entries)
           hits == {n \in DOMAIN order : KeyCovers(entries, url, order[n])}
<1>1. /\ DOMAIN order = DOMAIN entries
      /\ \A n \in DOMAIN order : order[n] \in DOMAIN entries
      /\ \A i \in DOMAIN entries : \E n \in DOMAIN order : order[n] = i
      /\ \A m, n \in DOMAIN order : m < n => Longer(entries, order[m], order[n])
  BY KeysAreOrdered
<1>2. ForUrl(entries, url) = IF hits = {} THEN 0 ELSE order[Min(hits)]
  BY DEF ForUrl, KeyCovers
<1>3. hits \in SUBSET Nat
  <2>1. DOMAIN order = 1..Len(entries)
    <3> HIDE DEF order
    <3> QED BY <1>1, LongerOrders
  <2>2. \A n \in DOMAIN order : n \in Nat
    BY <2>1
  <2> QED BY <2>2
<1>4. \A n \in DOMAIN order : n \in hits <=> KeyCovers(entries, url, order[n])
  OBVIOUS
<1>5. hits \subseteq DOMAIN order
  OBVIOUS
<1> HIDE DEF order, hits
<1>6. CASE hits = {}
  BY <1>1, <1>2, <1>4, <1>6
<1>7. CASE hits # {}
  <2>1. Min(hits) \in hits /\ \A n \in hits : Min(hits) <= n
    BY <1>3, <1>7, LeastIs
  <2>2. ForUrl(entries, url) = order[Min(hits)]
    BY <1>2, <1>7
  <2>3. order[Min(hits)] \in DOMAIN entries /\ KeyCovers(entries, url, order[Min(hits)])
    BY <1>1, <1>4, <1>5, <2>1
  <2>4. ASSUME NEW i \in DOMAIN entries, KeyCovers(entries, url, i)
        PROVE  i = order[Min(hits)] \/ Longer(entries, order[Min(hits)], i)
    <3>1. PICK n \in DOMAIN order : order[n] = i
      BY <1>1
    <3>2. n \in hits
      BY <1>4, <2>4, <3>1
    <3>3. n \in Nat /\ Min(hits) \in Nat /\ Min(hits) <= n
      BY <1>3, <2>1, <3>2
    <3>4. n = Min(hits) \/ Min(hits) < n
      BY <3>3
    <3> QED BY <1>1, <1>5, <2>1, <3>1, <3>4
  <2> QED BY <2>2, <2>3, <2>4
<1> QED BY <1>6, <1>7

\* for_url sends the key of the nearest URL on the way up that has one, and of
\* none that only begins like it, whatever the entries and their order.
THEOREM ForUrlIsNearest ==
    ASSUME NEW Chars, NEW entries \in Seq(Seq(Chars)), NEW url \in Seq(Chars)
    PROVE  ForUrl(entries, url) = Nearest(entries, url)
<1> DEFINE own == Normalized(url)
           key(i) == Normalized(entries[i])
           above == {n \in 0..Len(own) : n = Len(own) \/ own[n + 1] = "/"}
           At(n) == {i \in DOMAIN entries : key(i) = SubSeq(own, 1, n)}
           having == {n \in above : At(n) # {}}
           i0 == ForUrl(entries, url)
<1>1. Nearest(entries, url) = IF having = {} THEN 0 ELSE Min(At(Max(having)))
  BY DEF Nearest
<1>2. own \in Seq(Chars) /\ Len(own) \in Nat
  <2>1. own \in Seq(Chars)
    BY NormalizedIsUrl
  <2> HIDE DEF own
  <2> QED BY <2>1, LenProperties
<1>3. \A i \in DOMAIN entries : i \in Nat /\ key(i) \in Seq(Chars) /\ Len(key(i)) \in Nat
  BY LongerOrders
<1>4. \A i, j : Longer(entries, i, j) <=>
                  Len(key(i)) > Len(key(j)) \/ (Len(key(i)) = Len(key(j)) /\ i < j)
  BY DEF Longer
<1>5. \/ /\ i0 = 0
         /\ \A i \in DOMAIN entries : ~Covers(key(i), own)
      \/ /\ i0 \in DOMAIN entries
         /\ Covers(key(i0), own)
         /\ \A i \in DOMAIN entries : Covers(key(i), own) => i = i0 \/ Longer(entries, i0, i)
  BY ForUrlIsFirst DEF KeyCovers
<1> HIDE DEF own, key, i0
\* Who covers the URL is at a place above it, and the other way round.
<1>6. \A i \in DOMAIN entries :
        Covers(key(i), own) => Len(key(i)) \in having /\ i \in At(Len(key(i)))
  <2> SUFFICES ASSUME NEW i \in DOMAIN entries, Covers(key(i), own)
               PROVE  Len(key(i)) \in having /\ i \in At(Len(key(i)))
    OBVIOUS
  <2>1. key(i) \in Seq(Chars)
    BY <1>3
  <2>2. /\ Len(key(i)) \in 0..Len(own)
        /\ Len(key(i)) = Len(own) \/ own[Len(key(i)) + 1] = "/"
        /\ key(i) = SubSeq(own, 1, Len(key(i)))
    BY <1>2, <2>1, CoversIsAbove
  <2>3. i \in At(Len(key(i)))
    BY <2>2
  <2> QED BY <2>2, <2>3
<1>7. \A n \in above : \A i \in At(n) : Covers(key(i), own) /\ Len(key(i)) = n
  <2> SUFFICES ASSUME NEW n \in above, NEW i \in At(n)
               PROVE  Covers(key(i), own) /\ Len(key(i)) = n
    OBVIOUS
  <2>1. key(i) \in Seq(Chars) /\ key(i) = SubSeq(own, 1, n)
    BY <1>3
  <2>2. n \in 0..Len(own) /\ (n = Len(own) \/ own[n + 1] = "/")
    OBVIOUS
  <2> QED BY <1>2, <2>1, <2>2, CoversIsAbove
<1>8. having \in SUBSET (0..Len(own)) /\ having \subseteq above
  OBVIOUS
<1>9. \A n : At(n) \subseteq DOMAIN entries
  OBVIOUS
<1>10. \A n \in having : At(n) # {}
  OBVIOUS
<1> HIDE DEF above, At, having
<1>11. CASE i0 = 0 /\ \A i \in DOMAIN entries : ~Covers(key(i), own)
  <2>1. having = {}
    BY <1>7, <1>8, <1>9, <1>10, <1>11
  <2> QED BY <1>1, <1>11, <2>1 DEF i0
<1>12. CASE /\ i0 \in DOMAIN entries
            /\ Covers(key(i0), own)
            /\ \A i \in DOMAIN entries : Covers(key(i), own) => i = i0 \/ Longer(entries, i0, i)
  <2> DEFINE m == Len(key(i0))
  <2>1. m \in having /\ i0 \in At(m)
    BY <1>6, <1>12
  <2>2. ASSUME NEW n \in having PROVE n <= m
    <3>1. PICK i \in At(n) : TRUE
      BY <1>10
    <3>2. i \in DOMAIN entries /\ Covers(key(i), own) /\ Len(key(i)) = n
      BY <1>7, <1>8, <1>9, <3>1
    <3>3. i = i0 \/ Longer(entries, i0, i)
      BY <1>12, <3>2
    <3>4. n \in Nat /\ m \in Nat
      BY <1>3, <1>12, <3>2
    <3>5. Longer(entries, i0, i) => m > Len(key(i)) \/ m = Len(key(i))
      BY <1>4
    <3>6. i = i0 => n = m
      BY <3>2
    <3> HIDE DEF m
    <3> QED BY <3>2, <3>3, <3>4, <3>5, <3>6
  <2>3. Max(having) \in having /\ \A n \in having : n <= Max(having)
    BY <1>2, <1>8, <2>1, GreatestIs
  <2>4. Max(having) = m
    <3>1. Max(having) <= m /\ m <= Max(having)
      BY <2>1, <2>2, <2>3
    <3>2. Max(having) \in Nat /\ m \in Nat
      <4>1. Max(having) \in 0..Len(own) /\ m \in 0..Len(own)
        BY <1>8, <2>1, <2>3
      <4> QED BY <1>2, <4>1
    <3> QED BY <3>1, <3>2
  <2>5. ASSUME NEW i \in At(m) PROVE i0 <= i
    <3>1. i \in DOMAIN entries /\ Covers(key(i), own) /\ Len(key(i)) = m
      BY <1>7, <1>8, <1>9, <2>1
    <3>2. i = i0 \/ Longer(entries, i0, i)
      BY <1>12, <3>1
    <3>3. i \in Nat /\ i0 \in Nat /\ m \in Nat
      BY <1>3, <1>12, <3>1
    <3>4. Longer(entries, i0, i) => m > Len(key(i)) \/ i0 < i
      BY <1>4
    <3> HIDE DEF m
    <3> QED BY <3>1, <3>2, <3>3, <3>4
  <2>6. At(m) \in SUBSET Nat
    BY <1>3, <1>9
  <2>7. Min(At(m)) \in At(m) /\ \A i \in At(m) : Min(At(m)) <= i
    BY <2>1, <2>6, LeastIs
  <2>8. Min(At(m)) = i0
    <3>1. Min(At(m)) <= i0 /\ i0 <= Min(At(m))
      BY <2>1, <2>5, <2>7
    <3>2. Min(At(m)) \in Nat /\ i0 \in Nat
      BY <2>1, <2>6, <2>7
    <3> QED BY <3>1, <3>2
  <2>9. having # {}
    BY <2>1
  <2> HIDE DEF m
  <2> QED BY <1>1, <2>4, <2>8, <2>9 DEF i0
<1> QED BY <1>5, <1>11, <1>12
=============================================================================
