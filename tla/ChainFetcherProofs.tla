------------------------- MODULE ChainFetcherProofs -------------------------
(***************************************************************************)
(* Proofs about the strike ladder, for every step, window and set of       *)
(* listed strikes, and about the chain fetcher and its registry, for any   *)
(* expiries, listings, levels, batch size and number of ticks and builds.  *)
(*                                                                         *)
(* The ladder: sorting sorts, the ATM is a strike of the backbone, and the *)
(* slice that the code cuts out of the sorted backbone is the set of the   *)
(* strikes nearest to the ATM.  Sorted places an element by the number of  *)
(* those below it, so that it is a one-to-one map between two sets of one  *)
(* size, hence onto; nothing here needs an induction but that a set of     *)
(* numbers has a least one.                                                *)
(*                                                                         *)
(* The fetcher: what is requested is the window at every moment because    *)
(* the batches still planned are those of what is left of the request      *)
(* (Requested); that a chain is whole follows.                             *)
(***************************************************************************)
EXTENDS ChainFetcher, SequenceTheorems, FiniteSetTheorems, WellFoundedInduction, TLAPS

\* The order of the numbers, as a relation.
LEMMA NumbersWellFounded == IsWellFoundedOn({p \in Nat \X Nat : p[1] < p[2]}, Nat)
  BY NatLessThanWellFounded DEF OpToRel

LEMMA LeastNumber ==
    ASSUME NEW T, T \subseteq Nat, T # {}
    PROVE  \E m \in T : \A k \in T : m <= k
<1> DEFINE R == {p \in Nat \X Nat : p[1] < p[2]}
<1>1. PICK m \in T : \A k \in T : <<k, m>> \notin R
  BY NumbersWellFounded, WFMin
<1>2. \A k \in T : ~(k < m)
  BY <1>1
<1> QED
  BY <1>1, <1>2, SMT

-----------------------------------------------------------------------------
\* The elements of S up to s, s included or not.
Below(S, s) == {t \in S : t < s}
Upto(S, s)  == {t \in S : t <= s}

LEMMA Counts ==
    ASSUME NEW S, S \subseteq Nat, IsFiniteSet(S), NEW s \in S
    PROVE  /\ IsFiniteSet(Below(S, s)) /\ IsFiniteSet(Upto(S, s))
           /\ Cardinality(Below(S, s)) \in Nat /\ Cardinality(Upto(S, s)) \in Nat
           /\ Cardinality(Below(S, s)) \in 0..(Cardinality(S) - 1)
           /\ Cardinality(Upto(S, s)) = Cardinality(Below(S, s)) + 1
<1>1. Cardinality(S) \in Nat
  BY FS_CardinalityType
<1>2. Below(S, s) \in SUBSET (S \ {s}) /\ s \notin Below(S, s)
  BY SMT DEF Below
<1>3. IsFiniteSet(S \ {s}) /\ Cardinality(S \ {s}) = Cardinality(S) - 1
  BY FS_RemoveElement
<1>4. /\ IsFiniteSet(Below(S, s)) /\ Cardinality(Below(S, s)) <= Cardinality(S) - 1
      /\ Cardinality(Below(S, s)) \in Nat
  BY <1>2, <1>3, FS_Subset, FS_CardinalityType
<1>5. Upto(S, s) = Below(S, s) \union {s}
  <2>1. \A t \in S : t <= s <=> t < s \/ t = s
    BY SMT
  <2> QED
    BY <2>1 DEF Upto, Below
<1>6. /\ IsFiniteSet(Upto(S, s))
      /\ Cardinality(Upto(S, s)) = Cardinality(Below(S, s)) + 1
  BY <1>2, <1>4, <1>5, FS_AddElement
<1> QED
  BY <1>1, <1>4, <1>6, SMT

\* Of two elements, the greater one has more of them below it.
LEMMA CountsGrow ==
    ASSUME NEW S, S \subseteq Nat, IsFiniteSet(S), NEW s \in S, NEW t \in S, s < t
    PROVE  Cardinality(Below(S, s)) < Cardinality(Below(S, t))
<1>1. Upto(S, s) \in SUBSET Below(S, t)
  <2>1. \A x \in S : x <= s => x < t
    BY SMT
  <2> QED
    BY <2>1 DEF Upto, Below
<1>2. Cardinality(Upto(S, s)) <= Cardinality(Below(S, t))
  BY <1>1, Counts, FS_Subset
<1>3. /\ Cardinality(Below(S, s)) \in Nat /\ Cardinality(Below(S, t)) \in Nat
      /\ Cardinality(Upto(S, s)) = Cardinality(Below(S, s)) + 1
  BY Counts
<1> QED
  BY <1>2, <1>3, SMT

\* Every number below the size of S is the count of one of its elements.
LEMMA Placed ==
    ASSUME NEW S, S \subseteq Nat, IsFiniteSet(S), NEW i \in 1..Cardinality(S)
    PROVE  \E s \in S : Cardinality(Below(S, s)) = i - 1
<1> DEFINE n == Cardinality(S)
           count == [s \in S |-> Cardinality(Below(S, s))]
<1>1. n \in Nat
  BY FS_CardinalityType
<1>2. count \in [S -> 0..(n - 1)]
  BY Counts
<1>3. \A s, t \in S : s # t => count[s] # count[t]
  <2> SUFFICES ASSUME NEW s \in S, NEW t \in S, s # t PROVE count[s] # count[t]
    OBVIOUS
  <2>1. s < t \/ t < s
    BY SMT
  <2>2. count[s] \in Int /\ count[t] \in Int
    BY <1>1, <1>2, SMT
  <2>3. count[s] < count[t] \/ count[t] < count[s]
    BY <2>1, CountsGrow
  <2> QED
    BY <2>2, <2>3, SMT
<1>4. IsFiniteSet(0..(n - 1)) /\ Cardinality(0..(n - 1)) = n
  <2>1. 0 \in Int /\ n - 1 \in Int
    BY <1>1, SMT
  <2>2. /\ IsFiniteSet(0..(n - 1))
        /\ Cardinality(0..(n - 1)) = IF 0 > n - 1 THEN 0 ELSE (n - 1) - 0 + 1
    BY <2>1, FS_Interval
  <2> QED
    BY <1>1, <2>2, SMT
<1> HIDE DEF count, n
<1>5. count \in Injection(S, 0..(n - 1))
  BY <1>2, <1>3 DEF Injection, IsInjective
<1>6. count \in Surjection(S, 0..(n - 1))
  <2>1. Cardinality(S) = Cardinality(0..(n - 1))
    BY <1>4 DEF n
  <2> QED
    BY <1>4, <1>5, <2>1, FS_Injection
<1>7. i - 1 \in 0..(n - 1)
  BY <1>1, SMT DEF n
<1>8. PICK s \in S : count[s] = i - 1
  BY <1>6, <1>7 DEF Surjection
<1> QED
  BY <1>8 DEF count

(***************************************************************************)
(* Sorted(S) holds each element of S once, in increasing order.            *)
(***************************************************************************)
THEOREM SortedSorts ==
    ASSUME NEW S, S \subseteq Nat, IsFiniteSet(S)
    PROVE  /\ Cardinality(S) \in Nat /\ Len(Sorted(S)) = Cardinality(S)
           /\ Sorted(S) \in Seq(S) /\ Sorted(S) \in [1..Cardinality(S) -> S]
           /\ \A i, j \in 1..Cardinality(S) : i < j => Sorted(S)[i] < Sorted(S)[j]
           /\ \A s \in S : /\ Cardinality(Below(S, s)) + 1 \in 1..Cardinality(S)
                           /\ Sorted(S)[Cardinality(Below(S, s)) + 1] = s
           /\ \A i \in 1..Cardinality(S) : Cardinality(Below(S, Sorted(S)[i])) = i - 1
<1> DEFINE n == Cardinality(S)
           sorted == Sorted(S)
<1>1. n \in Nat
  BY FS_CardinalityType
<1>2. \A i \in 1..n : sorted[i] \in S /\ Cardinality(Below(S, sorted[i])) = i - 1
  <2> SUFFICES ASSUME NEW i \in 1..n
               PROVE  sorted[i] \in S /\ Cardinality(Below(S, sorted[i])) = i - 1
    OBVIOUS
  <2>1. sorted[i] = CHOOSE s \in S : Cardinality(Below(S, s)) = i - 1
    BY DEF Sorted, Below
  <2> QED
    BY <2>1, Placed
<1>3. sorted \in [1..n -> S]
  BY <1>2 DEF Sorted
<1>4. sorted \in Seq(S) /\ Len(sorted) = n
  <2>1. sorted \in Seq(S)
    BY <1>1, <1>3, SeqDef
  <2>2. DOMAIN sorted = 1..n
    BY <1>3
  <2> QED
    BY <1>1, <2>1, <2>2, LenProperties, SMT
<1>5. ASSUME NEW i \in 1..n, NEW j \in 1..n, i < j PROVE sorted[i] < sorted[j]
  <2>1. i - 1 < j - 1 /\ i - 1 \in Int /\ j - 1 \in Int
    BY <1>1, <1>5, SMT
  <2>2. /\ sorted[i] \in S /\ Cardinality(Below(S, sorted[i])) = i - 1
        /\ sorted[j] \in S /\ Cardinality(Below(S, sorted[j])) = j - 1
    BY <1>2
  <2> HIDE DEF sorted
  <2>3. ~(sorted[j] < sorted[i])
    <3> SUFFICES ASSUME sorted[j] < sorted[i] PROVE FALSE
      OBVIOUS
    <3>1. j - 1 < i - 1
      BY <2>2, CountsGrow
    <3> QED
      BY <2>1, <3>1, SMT
  <2>4. sorted[i] # sorted[j]
    <3>1. i - 1 # j - 1
      BY <2>1, SMT
    <3> QED
      BY <2>2, <3>1
  <2>5. sorted[i] \in Nat /\ sorted[j] \in Nat
    BY <2>2
  <2> QED
    BY <2>3, <2>4, <2>5, SMT
<1>6. ASSUME NEW s \in S
      PROVE  Cardinality(Below(S, s)) + 1 \in 1..n /\ sorted[Cardinality(Below(S, s)) + 1] = s
  <2> DEFINE c == Cardinality(Below(S, s))
  <2>1. c \in 0..(n - 1)
    BY Counts
  <2> HIDE DEF c
  <2>2. c + 1 \in 1..n /\ (c + 1) - 1 = c
    BY <1>1, <2>1, SMT
  <2>3. sorted[c + 1] \in S /\ Cardinality(Below(S, sorted[c + 1])) = c
    BY <1>2, <2>2
  <2>4. c = Cardinality(Below(S, s))
    BY DEF c
  <2> HIDE DEF sorted
  <2>5. ~(c < c)
    BY <1>1, <2>1, SMT
  <2>6. ~(sorted[c + 1] < s) /\ ~(s < sorted[c + 1])
    BY <2>3, <2>4, <2>5, CountsGrow
  <2>7. sorted[c + 1] \in Nat /\ s \in Nat
    BY <2>3
  <2>8. sorted[c + 1] = s
    BY <2>6, <2>7, SMT
  <2> QED
    BY <2>2, <2>4, <2>8
<1> QED
  BY <1>1, <1>2, <1>3, <1>4, <1>5, <1>6

-----------------------------------------------------------------------------
LEMMA Division ==
    ASSUME NEW n \in Int
    PROVE  /\ n \div Step \in Int /\ n % Step \in 0..(Step - 1)
           /\ n = (n \div Step) * Step + (n % Step)
  BY LadderAssumption, SMT

\* The arithmetic ATM is within half a step of the level.
LEMMA AtmRounds ==
    ASSUME NEW n \in Int
    PROVE  AtmCandidate(n) \in Int /\ 2 * Abs(AtmCandidate(n) - n) <= Step
<1> DEFINE q == n \div Step
           r == n % Step
<1>1. /\ q \in Int /\ r \in 0..(Step - 1) /\ n = q * Step + r
  BY Division
<1>2. \/ RoundDiv(n) = q /\ 2 * r <= Step
      \/ RoundDiv(n) = q + 1 /\ Step <= 2 * r
  <2>1. 2 * r < Step \/ 2 * r = Step \/ Step < 2 * r
    BY <1>1, LadderAssumption, SMT
  <2>2. 2 * r < Step => 2 * r <= Step
    BY <1>1, LadderAssumption, SMT
  <2>3. 2 * r = Step => 2 * r <= Step /\ Step <= 2 * r
    BY <1>1, LadderAssumption, SMT
  <2>4. Step < 2 * r => Step <= 2 * r /\ ~(2 * r < Step) /\ 2 * r # Step
    BY <1>1, LadderAssumption, SMT
  <2> QED
    BY <2>1, <2>2, <2>3, <2>4 DEF RoundDiv
<1>3. (q + 1) * Step = q * Step + Step /\ q * Step \in Int
  BY <1>1, LadderAssumption, SMT
<1> HIDE DEF q, r
<1>4. \/ AtmCandidate(n) = q * Step /\ 2 * r <= Step
      \/ AtmCandidate(n) = q * Step + Step /\ Step <= 2 * r
  BY <1>2, <1>3 DEF AtmCandidate
<1> QED
  BY <1>1, <1>3, <1>4, LadderAssumption, SMT DEF Abs

-----------------------------------------------------------------------------
\* A listed set of strikes, as the search reports it.
IsListing(S) == S \subseteq Nat /\ IsFiniteSet(S) /\ S # {}

LEMMA BackboneListed ==
    ASSUME NEW listed, IsListing(listed)
    PROVE  Backbone(listed) \subseteq listed /\ IsListing(Backbone(listed))
<1>1. Min(listed) \in listed
  BY LeastNumber DEF IsListing, Min
<1>2. (Min(listed) - Min(listed)) % Step = 0
  <2>1. Min(listed) \in Nat
    BY <1>1 DEF IsListing
  <2>2. Min(listed) - Min(listed) = 0
    BY <2>1, SMT
  <2>3. 0 % Step = 0
    BY LadderAssumption, SMT
  <2> QED
    BY <2>2, <2>3
<1>3. Backbone(listed) \in SUBSET listed /\ Min(listed) \in Backbone(listed)
  BY <1>1, <1>2 DEF Backbone
<1>4. IsFiniteSet(Backbone(listed))
  BY <1>3, FS_Subset DEF IsListing
<1> QED
  BY <1>3, <1>4 DEF IsListing

\* The ATM is a backbone strike, none is nearer to the candidate.
LEMMA AtmResolves ==
    ASSUME NEW listed, IsListing(listed), NEW level \in Nat
    PROVE  /\ ResolvedAtm(listed, level) \in Backbone(listed)
           /\ \A t \in Backbone(listed) :
                 Abs(ResolvedAtm(listed, level) - AtmCandidate(level)) <= Abs(t - AtmCandidate(level))
<1> DEFINE gap(s) == Abs(s - AtmCandidate(level))
           B == Backbone(listed)
           Best(s) == \A t \in B : gap(s) < gap(t) \/ (gap(s) = gap(t) /\ s <= t)
<1>1. B \subseteq Nat /\ B # {}
  BY BackboneListed DEF IsListing
<1>2. \A s \in B : gap(s) \in Nat
  <2> SUFFICES ASSUME NEW s \in B PROVE gap(s) \in Nat
    OBVIOUS
  <2>1. s \in Int /\ AtmCandidate(level) \in Int
    BY <1>1, AtmRounds
  <2> QED
    BY <2>1, SMT DEF Abs
<1>3. PICK g \in {gap(s) : s \in B} : \A k \in {gap(s) : s \in B} : g <= k
  <2>1. {gap(s) : s \in B} \subseteq Nat /\ {gap(s) : s \in B} # {}
    BY <1>1, <1>2
  <2> QED
    BY <2>1, LeastNumber
<1>4. PICK s \in {t \in B : gap(t) = g} : \A t \in {u \in B : gap(u) = g} : s <= t
  <2>1. {t \in B : gap(t) = g} \subseteq Nat /\ {t \in B : gap(t) = g} # {}
    BY <1>1, <1>3
  <2> QED
    BY <2>1, LeastNumber
<1>5. Best(s)
  <2> SUFFICES ASSUME NEW t \in B
               PROVE  gap(s) < gap(t) \/ (gap(s) = gap(t) /\ s <= t)
    OBVIOUS
  <2>1. gap(s) = g /\ g <= gap(t) /\ g \in Nat /\ gap(t) \in Nat
    BY <1>2, <1>3, <1>4
  <2>2. g < gap(t) \/ g = gap(t)
    BY <2>1, SMT
  <2> QED
    BY <1>4, <2>1, <2>2
<1>6. ResolvedAtm(listed, level) = CHOOSE x \in B : Best(x)
  BY DEF ResolvedAtm
<1> HIDE DEF Best
<1>7. ResolvedAtm(listed, level) \in B /\ Best(ResolvedAtm(listed, level))
  BY <1>4, <1>5, <1>6
<1>8. ASSUME NEW t \in B PROVE gap(ResolvedAtm(listed, level)) <= gap(t)
  <2>1. gap(ResolvedAtm(listed, level)) \in Nat /\ gap(t) \in Nat
    BY <1>2, <1>7
  <2>2. gap(ResolvedAtm(listed, level)) < gap(t) \/ gap(ResolvedAtm(listed, level)) = gap(t)
    BY <1>7 DEF Best
  <2> QED
    BY <2>1, <2>2, SMT
<1> QED
  BY <1>7, <1>8

(***************************************************************************)
(* A level between two neighbours of the backbone resolves to a strike     *)
(* within one step of it, although it is rounded twice.                    *)
(***************************************************************************)
THEOREM AtmWithinStep ==
    ASSUME NEW listed, IsListing(listed), NEW level \in Nat,
           NEW a \in Backbone(listed), a + Step \in Backbone(listed),
           a <= level, level <= a + Step
    PROVE  Abs(ResolvedAtm(listed, level) - level) <= Step
<1>1. PICK c \in Int : c = AtmCandidate(level) /\ 2 * Abs(c - level) <= Step
  BY AtmRounds
<1>2. PICK atm \in Nat : /\ atm = ResolvedAtm(listed, level)
                         /\ Abs(atm - c) <= Abs(a - c) /\ Abs(atm - c) <= Abs((a + Step) - c)
  BY <1>1, AtmResolves, BackboneListed DEF IsListing
<1>3. a \in Nat /\ Step \in Nat
  BY LadderAssumption, BackboneListed DEF IsListing
<1>4. Abs(atm - level) <= Step
  BY <1>1, <1>2, <1>3, SMT DEF Abs
<1> QED
  BY <1>2, <1>4

-----------------------------------------------------------------------------
\* How many strikes lie between two of them is the distance of their places.
LEMMA Apart ==
    ASSUME NEW S, S \subseteq Nat, IsFiniteSet(S), NEW a \in S, NEW b \in S
    PROVE  Cardinality(Between(S, a, b)) =
             Abs(Cardinality(Below(S, b)) - Cardinality(Below(S, a)))
<1>1. ASSUME NEW x \in S, NEW y \in S, x <= y
      PROVE  /\ Cardinality(Upto(S, y) \ Upto(S, x)) =
                  Cardinality(Below(S, y)) - Cardinality(Below(S, x))
             /\ Cardinality(Below(S, x)) <= Cardinality(Below(S, y))
  <2>1. Upto(S, x) \in SUBSET Upto(S, y)
    <3>1. \A t \in S : t <= x => t <= y
      BY <1>1, SMT
    <3> QED
      BY <3>1 DEF Upto
  <2>2. Upto(S, y) \intersect Upto(S, x) = Upto(S, x)
    BY <2>1
  <2>3. Cardinality(Upto(S, y) \ Upto(S, x)) = Cardinality(Upto(S, y)) - Cardinality(Upto(S, x))
    <3>1. IsFiniteSet(Upto(S, y))
      BY Counts
    <3>2. Cardinality(Upto(S, y) \ Upto(S, x)) =
            Cardinality(Upto(S, y)) - Cardinality(Upto(S, y) \intersect Upto(S, x))
      BY <3>1, FS_Difference
    <3> QED
      BY <2>2, <3>2
  <2>4. Cardinality(Upto(S, x)) <= Cardinality(Upto(S, y))
    BY <2>1, Counts, FS_Subset
  <2>5. /\ Cardinality(Below(S, x)) \in Nat /\ Cardinality(Below(S, y)) \in Nat
        /\ Cardinality(Upto(S, x)) = Cardinality(Below(S, x)) + 1
        /\ Cardinality(Upto(S, y)) = Cardinality(Below(S, y)) + 1
    BY Counts
  <2> QED
    BY <2>3, <2>4, <2>5, SMT
<1>2. Cardinality(Below(S, a)) \in Nat /\ Cardinality(Below(S, b)) \in Nat
  BY Counts
<1>3. CASE a <= b
  <2>1. \A t \in S : (a < t /\ t <= b) \/ (b <= t /\ t < a) <=> t <= b /\ ~(t <= a)
    BY <1>3, SMT
  <2>2. Between(S, a, b) = Upto(S, b) \ Upto(S, a)
    BY <2>1 DEF Between, Upto
  <2> QED
    BY <1>1, <1>2, <1>3, <2>2, SMT DEF Abs
<1>4. CASE b < a
  <2>1. \A t \in S : (a < t /\ t <= b) \/ (b <= t /\ t < a) <=> t < a /\ ~(t < b)
    BY <1>4, SMT
  <2>2. Between(S, a, b) = Below(S, a) \ Below(S, b)
    BY <2>1 DEF Between, Below
  <2>3. Below(S, b) \in SUBSET Below(S, a)
    <3>1. \A t \in S : t < b => t < a
      BY <1>4, SMT
    <3> QED
      BY <3>1 DEF Below
  <2>4. Below(S, a) \intersect Below(S, b) = Below(S, b)
    BY <2>3
  <2>5. Cardinality(Between(S, a, b)) = Cardinality(Below(S, a)) - Cardinality(Below(S, b))
    <3>1. IsFiniteSet(Below(S, a))
      BY Counts
    <3>2. Cardinality(Below(S, a) \ Below(S, b)) =
            Cardinality(Below(S, a)) - Cardinality(Below(S, a) \intersect Below(S, b))
      BY <3>1, FS_Difference
    <3> QED
      BY <2>2, <2>4, <3>2
  <2>6. Cardinality(Below(S, b)) < Cardinality(Below(S, a))
    BY <1>4, CountsGrow
  <2> QED
    BY <1>2, <2>5, <2>6, SMT DEF Abs
<1>5. a <= b \/ b < a
  BY SMT
<1> QED
  BY <1>3, <1>4, <1>5

(***************************************************************************)
(* What the code cuts out of the sorted backbone is what the window is     *)
(* meant to be: the strikes with at most WindowSteps of the backbone       *)
(* between them and the ATM, each once and in order, cut at both ends of   *)
(* the backbone and never empty.                                           *)
(***************************************************************************)
THEOREM WindowIsNearest ==
    ASSUME NEW listed, IsListing(listed), NEW level \in Nat
    PROVE  /\ Window(listed, level) \in Seq(Nat) /\ Window(listed, level) # <<>>
           /\ \A i, j \in DOMAIN Window(listed, level) :
                 i < j => Window(listed, level)[i] < Window(listed, level)[j]
           /\ {Window(listed, level)[i] : i \in DOMAIN Window(listed, level)}
                = WindowStrikes(listed, level)
<1> DEFINE B == Backbone(listed)
           n == Cardinality(B)
           L == Sorted(B)
           atm == ResolvedAtm(listed, level)
           idx == CHOOSE i \in DOMAIN L : L[i] = atm
           lo == IF idx - WindowSteps < 1 THEN 1 ELSE idx - WindowSteps
           hi == IF idx + WindowSteps > Len(L) THEN Len(L) ELSE idx + WindowSteps
           W == Window(listed, level)
           place(s) == Cardinality(Below(B, s)) + 1
<1>1. B \subseteq Nat /\ IsFiniteSet(B) /\ atm \in B
  BY BackboneListed, AtmResolves DEF IsListing
<1>2. /\ n \in Nat /\ Len(L) = n /\ DOMAIN L = 1..n /\ L \in [1..n -> Nat]
      /\ \A i, j \in 1..n : i < j => L[i] < L[j]
      /\ \A s \in B : place(s) \in 1..n /\ L[place(s)] = s
      /\ \A i \in 1..n : L[i] \in B /\ place(L[i]) = i
  <2>1. /\ n \in Nat /\ Len(L) = n /\ L \in [1..n -> B]
        /\ \A i, j \in 1..n : i < j => L[i] < L[j]
        /\ \A s \in B : place(s) \in 1..n /\ L[place(s)] = s
        /\ \A i \in 1..n : Cardinality(Below(B, L[i])) = i - 1
    BY <1>1, SortedSorts
  <2>2. \A i \in 1..n : place(L[i]) = i
    <3> SUFFICES ASSUME NEW i \in 1..n PROVE place(L[i]) = i
      OBVIOUS
    <3>1. Cardinality(Below(B, L[i])) = i - 1
      BY <2>1
    <3>2. (i - 1) + 1 = i
      BY <2>1, SMT
    <3> QED
      BY <3>1, <3>2
  <2> QED
    BY <1>1, <2>1, <2>2
<1> HIDE DEF B, n, L, atm, place
<1>3. idx \in 1..n /\ L[idx] = atm /\ place(atm) = idx
  <2>1. \E i \in DOMAIN L : L[i] = atm
    BY <1>1, <1>2
  <2>2. idx \in DOMAIN L /\ L[idx] = atm
    BY <2>1
  <2> QED
    BY <1>2, <2>2
<1>4. W = SubSeq(L, lo, hi)
  <2>1. listed # {}
    BY DEF IsListing
  <2> QED
    BY <2>1 DEF Window, L, B, atm
<1> HIDE DEF idx, W
<1>5. /\ lo \in 1..idx /\ hi \in idx..n
      /\ \A j \in 1..n : (lo <= j /\ j <= hi) <=> Abs(j - idx) <= WindowSteps
  BY <1>2, <1>3, LadderAssumption, SMT DEF Abs
<1> HIDE DEF lo, hi
<1>6. /\ lo \in Int /\ hi \in Int /\ lo <= hi /\ \A i \in lo..hi : i \in 1..n /\ L[i] \in Nat
      /\ n \in Nat /\ 1 <= lo /\ hi <= n
  BY <1>2, <1>3, <1>5, SMT
<1>7. /\ W \in Seq(Nat) /\ Len(W) = hi - lo + 1
      /\ \A i \in 1..(hi - lo + 1) : W[i] = L[lo + i - 1]
  <2>1. /\ SubSeq(L, lo, hi) \in Seq(Nat)
        /\ Len(SubSeq(L, lo, hi)) = IF lo <= hi THEN hi - lo + 1 ELSE 0
        /\ \A i \in 1..(hi - lo + 1) : SubSeq(L, lo, hi)[i] = L[lo + i - 1]
    BY <1>6, SubSeqProperties
  <2> QED
    BY <1>4, <1>6, <2>1
<1>8. DOMAIN W = 1..(hi - lo + 1)
  BY <1>7, LenProperties
<1>9. W # <<>>
  BY <1>6, <1>7, EmptySeq, SMT
<1>10. ASSUME NEW i \in DOMAIN W, NEW j \in DOMAIN W, i < j PROVE W[i] < W[j]
  <2>1. /\ lo + i - 1 \in 1..n /\ lo + j - 1 \in 1..n /\ lo + i - 1 < lo + j - 1
    BY <1>6, <1>8, <1>10, SMT
  <2> QED
    BY <1>2, <1>7, <1>8, <2>1
<1>11. ASSUME NEW s \in B
       PROVE  s \in WindowStrikes(listed, level) <=> lo <= place(s) /\ place(s) <= hi
  <2>1. Cardinality(Between(B, atm, s)) =
          Abs(Cardinality(Below(B, s)) - Cardinality(Below(B, atm)))
    BY <1>1, Apart
  <2>2. Cardinality(Below(B, s)) \in Nat /\ Cardinality(Below(B, atm)) \in Nat
    BY <1>1, Counts
  <2>3. Cardinality(Below(B, s)) - Cardinality(Below(B, atm)) = place(s) - idx
    BY <1>3, <2>2, SMT DEF place
  <2>4. Cardinality(Between(B, atm, s)) = Abs(place(s) - idx)
    BY <2>1, <2>3
  <2>5. s \in WindowStrikes(listed, level) <=> Cardinality(Between(B, atm, s)) <= WindowSteps
    BY DEF WindowStrikes, B, atm
  <2> QED
    BY <1>2, <1>5, <2>4, <2>5
<1>12. ASSUME NEW i \in DOMAIN W PROVE W[i] \in WindowStrikes(listed, level)
  <2>1. /\ lo + i - 1 \in 1..n /\ lo <= lo + i - 1 /\ lo + i - 1 <= hi
    BY <1>6, <1>8, SMT
  <2>2. W[i] \in B /\ place(W[i]) = lo + i - 1
    BY <1>2, <1>7, <1>8, <2>1
  <2> QED
    BY <1>11, <2>1, <2>2
<1>13. ASSUME NEW s \in WindowStrikes(listed, level) PROVE \E i \in DOMAIN W : W[i] = s
  <2>1. s \in B /\ lo <= place(s) /\ place(s) <= hi
    BY <1>11 DEF WindowStrikes, B
  <2>2. place(s) \in 1..n /\ L[place(s)] = s
    BY <1>2, <2>1
  <2>3. /\ place(s) - lo + 1 \in 1..(hi - lo + 1)
        /\ lo + (place(s) - lo + 1) - 1 = place(s)
    BY <1>6, <2>1, <2>2, SMT
  <2> QED
    BY <1>7, <1>8, <2>2, <2>3
<1> QED
  BY <1>7, <1>9, <1>10, <1>12, <1>13 DEF W

-----------------------------------------------------------------------------
\* The batches of n instruments are so many.
Count(n) == (n + BatchSize - 1) \div BatchSize

LEMMA Multiples ==
    ASSUME NEW a \in Int, NEW b \in Int
    PROVE  /\ a * BatchSize \in Int /\ (a + 1) * BatchSize = a * BatchSize + BatchSize
           /\ (a - 1) * BatchSize = a * BatchSize - BatchSize
           /\ a <= b => a * BatchSize <= b * BatchSize
<1>1. BatchSize \in Nat /\ BatchSize > 0
  BY ChainFetcherAssumption, SMT
<1>2. a <= b => a * BatchSize <= b * BatchSize
  <2>1. \A d \in Nat : 0 <= d * BatchSize
    BY <1>1, SMT
  <2>2. a <= b => b - a \in Nat /\ b * BatchSize = a * BatchSize + (b - a) * BatchSize
    BY <1>1, SMT
  <2>3. a * BatchSize \in Int /\ b * BatchSize \in Int /\ (b - a) * BatchSize \in Int
    BY <1>1, SMT
  <2> QED
    BY <2>1, <2>2, <2>3, SMT
<1> QED
  BY <1>1, <1>2, SMT

LEMMA CountIs ==
    ASSUME NEW n \in Nat
    PROVE  /\ Count(n) \in Nat /\ n <= Count(n) * BatchSize
           /\ n > 0 => (Count(n) - 1) * BatchSize < n /\ Count(n) > 0
           /\ n = 0 => Count(n) = 0
<1> DEFINE q == Count(n)
           r == (n + BatchSize - 1) % BatchSize
<1>1. BatchSize \in Nat /\ BatchSize > 0
  BY ChainFetcherAssumption, SMT
<1>2. q \in Int /\ r \in 0..(BatchSize - 1) /\ n + BatchSize - 1 = q * BatchSize + r
  BY <1>1, SMT DEF Count
<1> HIDE DEF q, r
<1>3. q * BatchSize \in Int /\ (q - 1) * BatchSize = q * BatchSize - BatchSize
  BY <1>2, Multiples
<1>4. n <= q * BatchSize /\ (n > 0 => (q - 1) * BatchSize < n)
  BY <1>1, <1>2, <1>3, SMT
<1>5. ~(q <= -1)
  <2>1. q <= -1 => q * BatchSize <= (-1) * BatchSize
    BY <1>2, Multiples
  <2>2. (-1) * BatchSize < 0
    BY <1>1, SMT
  <2> QED
    BY <1>1, <1>3, <1>4, <2>1, <2>2, SMT
<1>6. n > 0 => q > 0
  <2>1. q <= 0 => q * BatchSize <= 0 * BatchSize
    BY <1>2, Multiples
  <2>2. 0 * BatchSize = 0
    BY <1>1, SMT
  <2> QED
    BY <1>2, <1>3, <1>4, <2>1, <2>2, SMT
<1>7. n = 0 => q = 0
  <2>1. 1 <= q => 1 * BatchSize <= q * BatchSize
    BY <1>2, Multiples
  <2>2. 1 * BatchSize = BatchSize
    BY <1>1, SMT
  <2> QED
    BY <1>1, <1>2, <1>3, <1>5, <2>1, <2>2, SMT
<1>8. q \in Nat
  BY <1>2, <1>5, SMT
<1> QED
  BY <1>4, <1>6, <1>7, <1>8 DEF q

LEMMA CountFits ==
    ASSUME NEW n \in Nat, NEW m \in Nat, n <= m * BatchSize,
           IF n > 0 THEN (m - 1) * BatchSize < n ELSE m = 0
    PROVE  Count(n) = m
<1>1. CASE n = 0
  BY <1>1, CountIs, SMT
<1>2. CASE n > 0
  <2> DEFINE q == Count(n)
  <2>1. q \in Nat /\ n <= q * BatchSize /\ (q - 1) * BatchSize < n
    BY <1>2, CountIs
  <2> HIDE DEF q
  <2>2. /\ q <= m - 1 => q * BatchSize <= (m - 1) * BatchSize
        /\ m <= q - 1 => m * BatchSize <= (q - 1) * BatchSize
    <3>1. q \in Int /\ m \in Int /\ q - 1 \in Int /\ m - 1 \in Int
      BY <2>1, SMT
    <3> QED
      BY <3>1, Multiples
  <2>3. q * BatchSize \in Int /\ m * BatchSize \in Int /\ (m - 1) * BatchSize \in Int
        /\ (q - 1) * BatchSize \in Int
    BY <2>1, Multiples, SMT
  <2>4. ~(q <= m - 1) /\ ~(m <= q - 1)
    BY <1>2, <2>1, <2>2, <2>3, SMT
  <2>5. q = m
    BY <2>1, <2>4, SMT
  <2> QED
    BY <2>5 DEF q
<1> QED
  BY <1>1, <1>2, SMT

-----------------------------------------------------------------------------
\* The bounds of the i-th batch of n instruments.
From(i)    == (i - 1) * BatchSize + 1
Till(i, n) == IF i * BatchSize < n THEN i * BatchSize ELSE n

LEMMA Cuts ==
    ASSUME NEW n \in Nat, NEW i \in 1..Count(n)
    PROVE  /\ From(i) \in 1..n /\ Till(i, n) \in From(i)..n
           /\ Till(i, n) - From(i) + 1 \in 1..BatchSize
           /\ i * BatchSize \in Int /\ (i - 1) * BatchSize \in Nat
           /\ i * BatchSize = (i - 1) * BatchSize + BatchSize
<1>1. Count(n) \in Nat /\ n <= Count(n) * BatchSize
      /\ (n > 0 => (Count(n) - 1) * BatchSize < n) /\ (n = 0 => Count(n) = 0)
  BY CountIs
<1>2. i \in Int /\ i - 1 \in Int /\ Count(n) - 1 \in Int /\ 0 <= i - 1 /\ i - 1 <= Count(n) - 1
  BY <1>1, SMT
<1>3. /\ i * BatchSize \in Int /\ (i - 1) * BatchSize \in Int
      /\ (i - 1) * BatchSize = i * BatchSize - BatchSize
      /\ (i - 1) * BatchSize <= (Count(n) - 1) * BatchSize
      /\ 0 * BatchSize <= (i - 1) * BatchSize
      /\ (Count(n) - 1) * BatchSize \in Int
  BY <1>2, Multiples
<1>4. 0 * BatchSize = 0 /\ BatchSize \in Nat /\ BatchSize > 0
  BY ChainFetcherAssumption, SMT
<1>5. n > 0
  BY <1>1, <1>2, SMT
<1>6. 0 <= (i - 1) * BatchSize /\ (i - 1) * BatchSize < n
  BY <1>1, <1>3, <1>4, <1>5, SMT
<1> QED
  BY <1>3, <1>4, <1>6, SMT DEF From, Till

LEMMA BatchesAre ==
    ASSUME NEW I, NEW s \in Seq(I)
    PROVE  /\ Batches(s) \in Seq(Seq(I)) /\ Len(Batches(s)) = Count(Len(s))
           /\ \A i \in 1..Count(Len(s)) :
                /\ Batches(s)[i] = SubSeq(s, From(i), Till(i, Len(s)))
                /\ Batches(s)[i] \in Seq(I)
                /\ Len(Batches(s)[i]) = Till(i, Len(s)) - From(i) + 1
                /\ 1 <= Len(Batches(s)[i]) /\ Len(Batches(s)[i]) <= BatchSize
<1> DEFINE n == Len(s)
           N == Count(n)
<1>1. n \in Nat /\ N \in Nat
  BY LenProperties, CountIs
<1>2. ASSUME NEW i \in 1..N
      PROVE  /\ Batches(s)[i] = SubSeq(s, From(i), Till(i, n))
             /\ Batches(s)[i] \in Seq(I)
             /\ Len(Batches(s)[i]) = Till(i, n) - From(i) + 1
             /\ 1 <= Len(Batches(s)[i]) /\ Len(Batches(s)[i]) <= BatchSize
  <2>1. Batches(s)[i] = SubSeq(s, From(i), Till(i, n))
    BY DEF Batches, From, Till, Count
  <2>2. /\ From(i) \in 1..n /\ Till(i, n) \in From(i)..n
        /\ Till(i, n) - From(i) + 1 \in 1..BatchSize
    BY <1>1, Cuts
  <2>3. /\ From(i) \in Int /\ Till(i, n) \in Int /\ From(i) <= Till(i, n)
        /\ \A j \in From(i)..Till(i, n) : j \in 1..n
    BY <1>1, <2>2, SMT
  <2>4. \A j \in From(i)..Till(i, n) : s[j] \in I
    BY <2>3, ElementOfSeq
  <2> HIDE DEF n
  <2>5. /\ SubSeq(s, From(i), Till(i, n)) \in Seq(I)
        /\ Len(SubSeq(s, From(i), Till(i, n))) = Till(i, n) - From(i) + 1
    BY <2>3, <2>4, SubSeqProperties
  <2>6. 1 <= Till(i, n) - From(i) + 1 /\ Till(i, n) - From(i) + 1 <= BatchSize
    BY <2>2, ChainFetcherAssumption, SMT
  <2> QED
    BY <2>1, <2>5, <2>6
<1>3. Batches(s) \in [1..N -> Seq(I)]
  BY <1>2 DEF Batches, Count
<1>4. Batches(s) \in Seq(Seq(I))
  BY <1>1, <1>3, SeqDef
<1>5. DOMAIN Batches(s) = 1..N
  BY <1>3
<1>6. Len(Batches(s)) = N
  BY <1>1, <1>4, <1>5, LenProperties, SMT
<1> QED
  BY <1>2, <1>4, <1>6

(***************************************************************************)
(* The first of the batches is followed by the batches of the rest.        *)
(***************************************************************************)
LEMMA BatchesUnfold ==
    ASSUME NEW I, NEW s \in Seq(I), Batches(s) # <<>>
    PROVE  \E rest \in Seq(I) : /\ s = Head(Batches(s)) \o rest
                                /\ Tail(Batches(s)) = Batches(rest)
<1> DEFINE n == Len(s)
           h == Till(1, n)
           rest == SubSeq(s, h + 1, n)
           m == Len(rest)
<1>1. n \in Nat
  BY LenProperties
<1>2. Count(n) \in Nat \ {0}
  BY BatchesAre, EmptySeq
<1>3. n > 0 /\ 1 \in 1..Count(n)
  <2>1. Count(n) # 0 /\ (n = 0 => Count(n) = 0)
    BY <1>1, <1>2, CountIs
  <2> QED
    BY <1>1, <1>2, <2>1, SMT
<1>4. BatchSize \in Nat /\ BatchSize > 0 /\ 1 * BatchSize = BatchSize /\ 0 * BatchSize = 0
  BY ChainFetcherAssumption, SMT
<1>5. From(1) = 1 /\ h \in 1..n /\ (h = BatchSize \/ h = n) /\ h <= BatchSize
      /\ (BatchSize < n => h = BatchSize)
  <2>1. 1 - 1 = 0
    BY SMT
  <2> QED
    BY <1>1, <1>3, <1>4, <2>1, SMT DEF From, Till
<1> HIDE DEF h
<1>6. Head(Batches(s)) = SubSeq(s, 1, h)
  <2>1. Head(Batches(s)) = Batches(s)[1]
    BY BatchesAre, SMT
  <2> QED
    BY <1>3, <1>5, <2>1, BatchesAre DEF h
<1>7. /\ rest \in Seq(I) /\ m = n - h /\ m \in Nat
      /\ \A i \in 1..m : rest[i] = s[h + i]
  <2>1. \A i \in (h + 1)..n : s[i] \in I
    BY <1>1, <1>5, ElementOfSeq, SMT
  <2>2. h + 1 \in Int /\ n \in Int
    BY <1>1, <1>5
  <2>3. /\ rest \in Seq(I) /\ m = IF h + 1 <= n THEN n - (h + 1) + 1 ELSE 0
        /\ \A i \in 1..(n - (h + 1) + 1) : rest[i] = s[(h + 1) + i - 1]
    BY <2>1, <2>2, SubSeqProperties
  <2> HIDE DEF rest, n, m
  <2>4. m = n - h /\ m \in Nat /\ n - (h + 1) + 1 = n - h
    BY <1>1, <1>5, <2>3, SMT
  <2>5. \A i \in 1..m : rest[i] = s[h + i]
    <3> SUFFICES ASSUME NEW i \in 1..m PROVE rest[i] = s[h + i]
      OBVIOUS
    <3>1. (h + 1) + i - 1 = h + i
      BY <1>5, <2>4, SMT
    <3> QED
      BY <2>3, <2>4, <3>1
  <2> QED
    BY <2>3, <2>4, <2>5
<1>8. s = Head(Batches(s)) \o rest
  <2>1. /\ 1 \in 1..Len(s) + 1 /\ h \in (1 - 1)..Len(s) /\ Len(s) \in h..Len(s)
    BY <1>1, <1>5, SMT
  <2>2. SubSeq(s, 1, h) \o SubSeq(s, h + 1, Len(s)) = SubSeq(s, 1, Len(s))
    BY <2>1, ConcatAdjacentSubSeq
  <2> QED
    BY <1>6, <2>2, SubSeqFull
<1> HIDE DEF rest
<1>9. Count(m) = Count(n) - 1
  <2> DEFINE c == Count(n) - 1
  <2>1. c \in Nat /\ c + 1 = Count(n)
    BY <1>2, SMT
  <2> HIDE DEF c
  <2>2. /\ c * BatchSize \in Int /\ (c - 1) * BatchSize = c * BatchSize - BatchSize
        /\ (c + 1) * BatchSize = c * BatchSize + BatchSize
    BY <2>1, Multiples
  <2>3. n <= (c + 1) * BatchSize /\ c * BatchSize < n
    <3>1. n <= Count(n) * BatchSize /\ (Count(n) - 1) * BatchSize < n
      BY <1>1, <1>3, CountIs
    <3> QED
      BY <2>1, <3>1 DEF c
  <2>4. c = 0 \/ 1 * BatchSize <= c * BatchSize
    <3>1. c = 0 \/ 1 <= c
      BY <2>1, SMT
    <3> QED
      BY <2>1, <3>1, Multiples
  <2>5. c = 0 => c * BatchSize = 0
    BY <1>4, <2>1, SMT
  <2>6. m <= c * BatchSize
    BY <1>1, <1>4, <1>5, <1>7, <2>2, <2>3, <2>4, <2>5, SMT
  <2>7. IF m > 0 THEN (c - 1) * BatchSize < m ELSE c = 0
    <3> HIDE DEF n, m
    <3>1. m > 0 => m = n - BatchSize
      <4>1. m > 0 => h # n
        BY <1>1, <1>5, <1>7, SMT
      <4> QED
        BY <1>5, <1>7, <4>1
    <3>2. m > 0 => (c - 1) * BatchSize < m
      BY <1>1, <1>4, <2>2, <2>3, <3>1, SMT
    <3>3. ~(m > 0) => n <= BatchSize
      BY <1>1, <1>4, <1>5, <1>7, SMT
    <3>4. ~(m > 0) => c = 0
      BY <1>1, <1>4, <2>2, <2>3, <2>4, <3>3, SMT
    <3> QED
      BY <3>2, <3>4
  <2>8. Count(m) = c
    BY <1>7, <2>1, <2>6, <2>7, CountFits
  <2> QED
    BY <2>8 DEF c
<1>10. Tail(Batches(s)) = Batches(rest)
  <2>1. /\ Tail(Batches(s)) \in Seq(Seq(I)) /\ Len(Tail(Batches(s))) = Count(n) - 1
        /\ \A i \in 1..(Count(n) - 1) : Tail(Batches(s))[i] = Batches(s)[i + 1]
    BY BatchesAre, HeadTailProperties
  <2>2. Batches(rest) \in Seq(Seq(I)) /\ Len(Batches(rest)) = Count(n) - 1
    BY <1>7, <1>9, BatchesAre
  <2>3. ASSUME NEW i \in 1..(Count(n) - 1) PROVE Batches(s)[i + 1] = Batches(rest)[i]
    <3>1. i \in 1..Count(m) /\ i + 1 \in 1..Count(n) /\ (i + 1) - 1 = i
      BY <1>2, <1>9, SMT
    <3> DEFINE a == From(i)
               b == Till(i, m)
    <3>2. /\ a \in 1..m /\ b \in a..m /\ i * BatchSize \in Int
          /\ i * BatchSize = (i - 1) * BatchSize + BatchSize
          /\ (i - 1) * BatchSize \in Nat
      BY <1>7, <3>1, Cuts
    <3>3. (i + 1) * BatchSize = i * BatchSize + BatchSize
      <4>1. i \in Int
        BY <1>2, SMT
      <4> QED
        BY <4>1, Multiples
    <3>4. a = (i - 1) * BatchSize + 1 /\ From(i + 1) = i * BatchSize + 1
      BY <3>1 DEF From
    <3>5. BatchSize < n /\ h = BatchSize
      BY <1>1, <1>4, <1>5, <1>7, <3>2, SMT
    <3>6. From(i + 1) = h + a
      BY <1>4, <3>2, <3>4, <3>5, SMT
    <3>7. Till(i + 1, n) = h + b
      BY <1>1, <1>4, <1>7, <3>2, <3>3, <3>5, SMT DEF Till
    <3> HIDE DEF a, b
    <3>8. Batches(s)[i + 1] = SubSeq(s, h + a, h + b)
      BY <3>1, <3>6, <3>7, BatchesAre
    <3>9. Batches(rest)[i] = SubSeq(rest, a, b)
      BY <1>7, <3>1, BatchesAre DEF a, b
    <3>10. SubSeq(rest, a, b) = SubSeq(s, h + a, h + b)
      <4>1. rest = SubSeq(s, h + 1, n)
        BY DEF rest
      <4>2. /\ h + 1 \in 1..Len(s) /\ n \in 1..Len(s)
            /\ a \in 1..(n - (h + 1) + 1) /\ b \in 1..(n - (h + 1) + 1)
        BY <1>1, <1>5, <1>7, <3>2, <3>5, SMT
      <4>3. SubSeq(SubSeq(s, h + 1, n), a, b) = SubSeq(s, (h + 1) + a - 1, (h + 1) + b - 1)
        <5>1. <<>> \in Seq(I)
          BY EmptySeq
        <5>2. ASSUME NEW x \in 1..Len(s), NEW y \in 1..Len(s),
                     NEW u \in 1..(y - x + 1), NEW v \in 1..(y - x + 1)
              PROVE  SubSeq(SubSeq(s, x, y), u, v) = SubSeq(s, x + u - 1, x + v - 1)
          BY <5>1, SubSeqOfSubSeq
        <5> HIDE DEF n, m
        <5> QED
          BY <4>2, <5>2
      <4>4. (h + 1) + a - 1 = h + a /\ (h + 1) + b - 1 = h + b
        BY <1>5, <1>7, <3>2, SMT
      <4> QED
        BY <4>1, <4>3, <4>4
    <3> QED
      BY <3>8, <3>9, <3>10
  <2> QED
    BY <2>1, <2>2, <2>3, SeqEqual
<1> QED
  BY <1>7, <1>8, <1>10

(* No batches make up no instruments. *)
LEMMA NothingFlat == FlattenSeq(<<>>) = <<>>
<1>1. Len(<<>>) = 0
  BY EmptySeq
<1> QED
  BY <1>1 DEF FlattenSeq

\* Put together again, the batches are what was cut into them.
LEMMA FlattenBatches ==
    ASSUME NEW I, NEW s \in Seq(I)
    PROVE  FlattenSeq(Batches(s)) = s
<1> DEFINE b == Batches(s)
           n == Len(s)
           N == Len(b)
           Joins(f) == f = [i \in 1..N |-> IF i = 1 THEN b[i] ELSE f[i - 1] \o b[i]]
           flat == CHOOSE f : Joins(f)
           upto == [i \in 1..N |-> SubSeq(s, 1, Till(i, n))]
<1>1. FlattenSeq(b) = IF N = 0 THEN b ELSE flat[N]
  BY DEF FlattenSeq
<1>2. /\ n \in Nat /\ N = Count(n) /\ N \in Nat
      /\ \A i \in 1..N : b[i] = SubSeq(s, From(i), Till(i, n))
  BY BatchesAre, LenProperties, CountIs
<1> HIDE DEF b, n, N
<1>3. Joins(upto)
  <2>1. ASSUME NEW i \in 1..N
        PROVE  upto[i] = IF i = 1 THEN b[i] ELSE upto[i - 1] \o b[i]
    <3>1. /\ From(i) \in 1..n /\ Till(i, n) \in From(i)..n
          /\ From(i) = (i - 1) * BatchSize + 1 /\ (i - 1) * BatchSize \in Nat
      BY <1>2, Cuts DEF From
    <3>2. CASE i = 1
      <4>1. From(1) = 1
        <5>1. 1 - 1 = 0 /\ 0 * BatchSize = 0
          BY ChainFetcherAssumption, SMT
        <5> QED
          BY <5>1, SMT DEF From
      <4> QED
        BY <1>2, <3>2, <4>1
    <3>3. CASE i # 1
      <4>1. i - 1 \in 1..N
        BY <1>2, <3>3, SMT
      <4>2. Till(i - 1, n) = From(i) - 1 /\ Till(i - 1, n) \in 0..n
        <5>1. (i - 1) * BatchSize < n
          BY <1>2, <3>1, SMT
        <5> QED
          BY <1>2, <3>1, <5>1, SMT DEF Till
      <4>3. SubSeq(s, 1, Till(i - 1, n)) \o SubSeq(s, Till(i - 1, n) + 1, Till(i, n))
              = SubSeq(s, 1, Till(i, n))
        <5> DEFINE k == Till(i - 1, n)
                   t == Till(i, n)
        <5>1. /\ 1 \in 1..Len(s) + 1 /\ k \in (1 - 1)..Len(s) /\ t \in k..Len(s)
          BY <1>2, <3>1, <4>2, SMT DEF n
        <5> HIDE DEF k, t
        <5>2. SubSeq(s, 1, k) \o SubSeq(s, k + 1, t) = SubSeq(s, 1, t)
          BY <5>1, ConcatAdjacentSubSeq
        <5> QED
          BY <5>2 DEF k, t
      <4>4. Till(i - 1, n) + 1 = From(i)
        BY <1>2, <3>1, <4>2, SMT
      <4> QED
        BY <1>2, <3>3, <4>1, <4>3, <4>4
    <3> QED
      BY <3>2, <3>3
  <2> QED
    BY <2>1
<1>4. Joins(flat)
  <2> HIDE DEF Joins
  <2> QED
    BY <1>3
<1>5. \A i \in 1..N : flat[i] = IF i = 1 THEN b[i] ELSE flat[i - 1] \o b[i]
  <2> HIDE DEF flat
  <2> QED
    BY <1>4
<1>6. \A i \in 1..N : upto[i] = IF i = 1 THEN b[i] ELSE upto[i - 1] \o b[i]
  <2> HIDE DEF upto
  <2> QED
    BY <1>3
<1> HIDE DEF flat, upto
<1>7. \A i \in 1..N : flat[i] = upto[i]
  <2> SUFFICES ASSUME {i \in 1..N : flat[i] # upto[i]} # {} PROVE FALSE
    OBVIOUS
  <2>1. {i \in 1..N : flat[i] # upto[i]} \subseteq Nat
    BY <1>2, SMT
  <2>2. PICK i \in {j \in 1..N : flat[j] # upto[j]} :
               \A j \in {k \in 1..N : flat[k] # upto[k]} : i <= j
    BY <2>1, LeastNumber
  <2>3. i # 1
    BY <1>5, <1>6, <2>2
  <2>4. i - 1 \in 1..N /\ ~(i <= i - 1)
    BY <1>2, <2>3, SMT
  <2>5. flat[i - 1] = upto[i - 1]
    BY <2>2, <2>4
  <2> QED
    BY <1>5, <1>6, <2>2, <2>3, <2>5
<1>8. CASE N = 0
  <2>1. ~(n > 0)
    <3>1. n > 0 => Count(n) > 0
      BY <1>2, CountIs
    <3> QED
      BY <1>2, <1>8, <3>1, SMT
  <2>2. s = <<>>
    BY <1>2, <2>1, EmptySeq, SMT DEF n
  <2>3. b = <<>>
    <3>1. b \in Seq(Seq(I))
      BY BatchesAre DEF b
    <3> QED
      BY <1>8, <3>1, EmptySeq DEF N
  <2> QED
    BY <1>1, <1>8, <2>2, <2>3 DEF b
<1>9. CASE N # 0
  <2>1. N \in 1..N
    BY <1>2, <1>9, SMT
  <2>2. flat[N] = SubSeq(s, 1, Till(N, n))
    BY <1>7, <2>1 DEF upto
  <2>3. Till(N, n) = n
    <3>1. n <= N * BatchSize /\ N * BatchSize \in Int
      BY <1>2, <2>1, CountIs, Cuts
    <3> QED
      BY <1>2, <3>1, SMT DEF Till
  <2> QED
    BY <1>1, <1>9, <2>2, <2>3, SubSeqFull DEF b, n
<1> QED
  BY <1>8, <1>9

-----------------------------------------------------------------------------
\* An expiry of a listing, and what of it is fetched.
IsExpiry(found) == /\ found \in [ce : SUBSET Nat, pe : SUBSET Nat]
                   /\ IsFiniteSet(found.ce) /\ IsFiniteSet(found.pe)

InOrder(whole) ==
    \A i, j \in DOMAIN whole : i < j /\ whole[i].side = whole[j].side
                                 => whole[i].strike < whole[j].strike

(***************************************************************************)
(* The request for an expiry: its window, then the puts at its strikes.    *)
(***************************************************************************)
LEMMA RequestIs ==
    ASSUME NEW found, IsExpiry(found), found.ce # {}, NEW level \in Nat
    PROVE  /\ Request(found, level) \in Seq(Instruments) /\ Request(found, level) # <<>>
           /\ StrikesOf(Request(found, level), "CE") = WindowStrikes(found.ce, level)
           /\ StrikesOf(Request(found, level), "PE")
                = WindowStrikes(found.ce, level) \intersect found.pe
           /\ InOrder(Request(found, level))
<1> DEFINE C == Window(found.ce, level)
           paired == {C[i] : i \in DOMAIN C} \intersect found.pe
           P == Sorted(paired)
           c == Len(C)
           p == Len(P)
           R == Calls(C) \o Puts(P)
<1>1. Request(found, level) = R
  BY DEF Request
<1>2. /\ C \in Seq(Nat) /\ C # <<>> /\ \A i, j \in DOMAIN C : i < j => C[i] < C[j]
      /\ {C[i] : i \in DOMAIN C} = WindowStrikes(found.ce, level)
  BY WindowIsNearest DEF IsExpiry, IsListing
<1>3. /\ c \in Nat \ {0} /\ DOMAIN C = 1..c /\ \A i \in 1..c : C[i] \in Nat
  BY <1>2, EmptySeq, LenProperties, ElementOfSeq
<1> HIDE DEF C
<1>4. /\ paired \subseteq Nat /\ IsFiniteSet(paired)
      /\ paired = WindowStrikes(found.ce, level) \intersect found.pe
  <2>1. paired \in SUBSET found.pe
    OBVIOUS
  <2> QED
    BY <1>2, <2>1, FS_Subset DEF IsExpiry
<1> HIDE DEF paired
<1>5. /\ p \in Nat /\ DOMAIN P = 1..p /\ \A i \in 1..p : P[i] \in paired
      /\ \A i, j \in 1..p : i < j => P[i] < P[j]
      /\ \A s \in paired : \E i \in 1..p : P[i] = s
  <2> DEFINE m == Cardinality(paired)
             at(s) == Cardinality(Below(paired, s)) + 1
  <2>1. /\ m \in Nat /\ Len(P) = m /\ P \in [1..m -> paired]
        /\ \A i, j \in 1..m : i < j => P[i] < P[j]
        /\ \A s \in paired : at(s) \in 1..m /\ P[at(s)] = s
    BY <1>4, SortedSorts
  <2> HIDE DEF m, at, P
  <2> QED
    BY <2>1
<1> HIDE DEF P
<1>6. /\ Calls(C) \in Seq(Instruments) /\ Len(Calls(C)) = c
      /\ \A i \in 1..c : Calls(C)[i] = [side |-> "CE", strike |-> C[i]]
  <2>1. Calls(C) \in [1..c -> Instruments]
    BY <1>3 DEF Calls, Instruments
  <2>2. Calls(C) \in Seq(Instruments)
    BY <1>3, <2>1, SeqDef
  <2>3. DOMAIN Calls(C) = 1..c
    BY <2>1
  <2>4. Len(Calls(C)) = c
    BY <1>3, <2>2, <2>3, LenProperties, SMT
  <2> QED
    BY <1>3, <2>2, <2>4 DEF Calls
<1>7. /\ Puts(P) \in Seq(Instruments) /\ Len(Puts(P)) = p
      /\ \A i \in 1..p : Puts(P)[i] = [side |-> "PE", strike |-> P[i]]
  <2>1. Puts(P) \in [1..p -> Instruments]
    BY <1>4, <1>5 DEF Puts, Instruments
  <2>2. Puts(P) \in Seq(Instruments)
    BY <1>5, <2>1, SeqDef
  <2>3. DOMAIN Puts(P) = 1..p
    BY <2>1
  <2>4. Len(Puts(P)) = p
    BY <1>5, <2>2, <2>3, LenProperties, SMT
  <2> QED
    BY <1>5, <2>2, <2>4 DEF Puts
<1> HIDE DEF c, p
<1>8. /\ R \in Seq(Instruments) /\ Len(R) = c + p /\ DOMAIN R = 1..(c + p)
      /\ \A i \in 1..(c + p) : R[i] = IF i <= c THEN Calls(C)[i] ELSE Puts(P)[i - c]
  <2>1. /\ R \in Seq(Instruments) /\ Len(R) = c + p
        /\ \A i \in 1..(c + p) : R[i] = IF i <= c THEN Calls(C)[i] ELSE Puts(P)[i - c]
    BY <1>6, <1>7, ConcatProperties
  <2>2. DOMAIN R = 1..Len(R)
    BY <2>1, LenProperties
  <2> QED
    BY <2>1, <2>2
<1> HIDE DEF R
<1>9. /\ \A i \in 1..c : i \in DOMAIN R /\ R[i].side = "CE" /\ R[i].strike = C[i]
      /\ \A i \in 1..p : c + i \in DOMAIN R /\ R[c + i].side = "PE" /\ R[c + i].strike = P[i]
      /\ \A i \in DOMAIN R : i \in 1..c \/ (i - c \in 1..p /\ i = c + (i - c))
  <2>1. ASSUME NEW i \in 1..c
        PROVE  i \in DOMAIN R /\ R[i].side = "CE" /\ R[i].strike = C[i]
    <3>1. i \in 1..(c + p) /\ i <= c
      BY <1>3, <1>5, SMT
    <3>2. R[i] = [side |-> "CE", strike |-> C[i]]
      BY <1>6, <1>8, <3>1
    <3> QED
      BY <1>8, <3>1, <3>2
  <2>2. ASSUME NEW i \in 1..p
        PROVE  c + i \in DOMAIN R /\ R[c + i].side = "PE" /\ R[c + i].strike = P[i]
    <3>1. c + i \in 1..(c + p) /\ ~(c + i <= c) /\ (c + i) - c = i
      BY <1>3, <1>5, SMT
    <3>2. R[c + i] = [side |-> "PE", strike |-> P[i]]
      BY <1>7, <1>8, <3>1
    <3> QED
      BY <1>8, <3>1, <3>2
  <2>3. \A i \in 1..(c + p) : i \in 1..c \/ (i - c \in 1..p /\ i = c + (i - c))
    BY <1>3, <1>5, SMT
  <2> QED
    BY <1>8, <2>1, <2>2, <2>3
<1>10. StrikesOf(R, "CE") = {C[i] : i \in 1..c}
  <2>1. \A i \in DOMAIN R : R[i].side = "CE" => i \in 1..c /\ R[i].strike = C[i]
    <3> SUFFICES ASSUME NEW i \in DOMAIN R, R[i].side = "CE"
                 PROVE  i \in 1..c /\ R[i].strike = C[i]
      OBVIOUS
    <3>1. CASE i \in 1..c
      BY <1>9, <3>1
    <3>2. CASE i - c \in 1..p /\ i = c + (i - c)
      BY <1>9, <3>2
    <3> QED
      BY <1>9, <3>1, <3>2
  <2>2. \A i \in 1..c : i \in DOMAIN R /\ R[i].side = "CE" /\ R[i].strike = C[i]
    BY <1>9
  <2> QED
    BY <2>1, <2>2 DEF StrikesOf
<1>11. StrikesOf(R, "PE") = paired
  <2>1. ASSUME NEW i \in DOMAIN R, R[i].side = "PE" PROVE R[i].strike \in paired
    <3>1. CASE i \in 1..c
      BY <1>9, <2>1, <3>1
    <3>2. CASE i - c \in 1..p /\ i = c + (i - c)
      <4>1. R[i].strike = P[i - c]
        BY <1>9, <3>2
      <4> QED
        BY <1>5, <3>2, <4>1
    <3> QED
      BY <1>9, <3>1, <3>2
  <2>2. ASSUME NEW s \in paired PROVE \E i \in DOMAIN R : R[i].side = "PE" /\ R[i].strike = s
    <3>1. PICK i \in 1..p : P[i] = s
      BY <1>5
    <3>2. c + i \in DOMAIN R /\ R[c + i].side = "PE" /\ R[c + i].strike = s
      BY <1>9, <3>1
    <3> QED
      BY <3>2
  <2> QED
    BY <2>1, <2>2 DEF StrikesOf
<1>12. InOrder(R)
  <2> SUFFICES ASSUME NEW i \in DOMAIN R, NEW j \in DOMAIN R, i < j, R[i].side = R[j].side
               PROVE  R[i].strike < R[j].strike
    BY DEF InOrder
  <2>1. CASE i \in 1..c /\ j \in 1..c
    <3>1. R[i].strike = C[i] /\ R[j].strike = C[j] /\ C[i] < C[j]
      BY <1>2, <1>3, <1>9, <2>1
    <3> QED
      BY <3>1
  <2>2. CASE i - c \in 1..p /\ i = c + (i - c) /\ j - c \in 1..p /\ j = c + (j - c)
    <3>1. R[i].strike = P[i - c] /\ R[j].strike = P[j - c]
      BY <1>9, <2>2
    <3>2. i - c < j - c
      BY <1>3, <1>8, SMT
    <3> QED
      BY <1>5, <2>2, <3>1, <3>2
  <2>3. ASSUME NEW x \in DOMAIN R, NEW y \in DOMAIN R,
               x \in 1..c, y - c \in 1..p, y = c + (y - c)
        PROVE  R[x].side # R[y].side
    <3>1. R[x].side = "CE"
      BY <1>9, <2>3
    <3>2. R[y].side = "PE"
      BY <1>9, <2>3
    <3> QED
      BY <3>1, <3>2
  <2> QED
    BY <1>9, <2>1, <2>2, <2>3
<1>13. R # <<>>
  BY <1>3, <1>5, <1>8, EmptySeq, SMT
<1> QED
  BY <1>1, <1>2, <1>3, <1>4, <1>8, <1>10, <1>11, <1>12, <1>13

-----------------------------------------------------------------------------
(***************************************************************************)
(* The inductive invariant: the registry is that of its last listing, the  *)
(* results are those of the expiries before pos, the expiry at pos is      *)
(* fetched for its own instruments, and the batches to come are those of   *)
(* what is left of its request.                                            *)
(***************************************************************************)
Fetching == {"expiry", "select", "batch"}

Known ==
    /\ tokens # Unresolved => resolved = {e \in ExpirySet : tokens[e].ce # {}}
    /\ wired /\ pc \in Fetching => tokens # Unresolved

InTurn ==
    pc \in Fetching =>
        /\ pos \in 1..Len(Expiries) /\ Len(results) = pos - 1
        /\ wired => \A i \in DOMAIN results : Expiries[i] \notin resolved => results[i] = Failure

Chosen ==
    pc \in {"select", "batch"} =>
        /\ IsExpiry(maps) /\ maps.ce # {}
        /\ wired => Expiries[pos] \in resolved /\ maps = tokens[Expiries[pos]]

Requested ==
    /\ pc \in {"expiry", "select"} => answered = <<>>
    /\ pc = "batch" => \E left \in Seq(Instruments) :
                          answered \o left = Request(maps, spot) /\ plan = Batches(left)

IInv == TypeOK /\ Known /\ InTurn /\ Chosen /\ Requested

LEMMA Listed ==
    ASSUME NEW listing \in Listings, NEW e \in ExpirySet
    PROVE  IsExpiry(listing[e])
  BY ChainFetcherAssumption DEF IsExpiry

LEMMA Turns ==
    /\ Len(Expiries) \in Nat \ {0} /\ DOMAIN Expiries = 1..Len(Expiries)
    /\ \A i \in 1..Len(Expiries) : Expiries[i] \in ExpirySet
  BY ChainFetcherAssumption, EmptySeq, LenProperties DEF ExpirySet

LEMMA NothingYet ==
    /\ NoMaps \in [ce : SUBSET Nat, pe : SUBSET Nat]
    /\ <<>> \in Seq(Seq(Instruments)) /\ <<>> \in Seq(Instruments)
  BY EmptySeq DEF NoMaps

LEMMA InitIInv == Init => IInv
<1> SUFFICES ASSUME Init PROVE IInv
  OBVIOUS
<1>1. 0 \in 0..MaxBuilds /\ 1 \in 1..2 /\ 0 \in 0..MaxTicks /\ 1 \in 1..(Len(Expiries) + 1)
  BY ChainFetcherAssumption, Turns, SMT
<1>2. <<>> \in Seq(Results) /\ Len(<<>>) <= Len(Expiries)
  BY Turns, EmptySeq, SMT
<1>3. TypeOK
  BY <1>1, <1>2, NothingYet DEF Init, TypeOK
<1> QED
  BY <1>3 DEF Init, IInv, Known, InTurn, Chosen, Requested, Fetching

-----------------------------------------------------------------------------
\* The steps of the registry, between two ticks.
LEMMA BuildKeeps ==
    ASSUME IInv, Build \/ SearchFails \/ SearchEmpty \/ Resolve
    PROVE  IInv'
<1> USE DEF registry, current
<1>1. pc \in {"idle", "search"} /\ pc' \in {"idle", "search"}
  BY DEF Build, SearchFails, SearchEmpty, Resolve
<1>2. /\ UNCHANGED <<wired, tick, spot, current, results>>
      /\ attempt' \in 1..2 /\ builds' \in 0..MaxBuilds
  <2>1. CASE Build
    <3>1. builds' = builds + 1 /\ builds < MaxBuilds /\ builds \in 0..MaxBuilds
      BY <2>1 DEF Build, IInv, TypeOK
    <3>2. builds' \in 0..MaxBuilds /\ 1 \in 1..2
      BY <3>1, ChainFetcherAssumption, SMT
    <3> QED
      BY <2>1, <3>2 DEF Build
  <2>2. CASE SearchFails
    <3>1. 2 \in 1..2
      BY SMT
    <3> QED
      BY <2>2, <3>1 DEF SearchFails, IInv, TypeOK
  <2>3. CASE SearchEmpty
    BY <2>3 DEF SearchEmpty, IInv, TypeOK
  <2>4. CASE Resolve
    BY <2>4 DEF Resolve, IInv, TypeOK
  <2> QED
    BY <2>1, <2>2, <2>3, <2>4
<1>3. \/ UNCHANGED <<tokens, resolved>>
      \/ /\ tokens' \in Listings /\ resolved' \subseteq ExpirySet
         /\ resolved' = {e \in ExpirySet : tokens'[e].ce # {}}
  BY DEF Build, SearchFails, SearchEmpty, Resolve
<1>4. TypeOK'
  BY <1>1, <1>2, <1>3 DEF IInv, TypeOK
<1>5. Known'
  BY <1>1, <1>2, <1>3 DEF IInv, Known, Fetching
<1>6. InTurn' /\ Chosen' /\ Requested'
  BY <1>1 DEF InTurn, Chosen, Requested, Fetching
<1> QED
  BY <1>4, <1>5, <1>6 DEF IInv

LEMMA TickKeeps ==
    ASSUME IInv, Tick
    PROVE  IInv'
<1> USE DEF registry, current
<1>1. /\ UNCHANGED <<wired, tokens, resolved, builds, attempt>>
      /\ tick' = tick + 1 /\ tick < MaxTicks /\ spot' \in Spots
      /\ pc' = "expiry" /\ pos' = 1 /\ results' = <<>>
      /\ maps' = NoMaps /\ plan' = <<>> /\ answered' = <<>> /\ rows' = {} /\ unfetched' = 0
      /\ wired => tokens # Unresolved
  BY DEF Tick, Begin
<1>2. tick' \in 0..MaxTicks
  <2>1. tick \in 0..MaxTicks
    BY DEF IInv, TypeOK
  <2> QED
    BY <1>1, <2>1, ChainFetcherAssumption, SMT
<1>3. /\ 1 \in 1..(Len(Expiries) + 1) /\ 1 \in 1..Len(Expiries) /\ Len(<<>>) <= Len(Expiries)
      /\ Len(<<>>) = 1 - 1 /\ DOMAIN <<>> = {} /\ <<>> \in Seq(Results)
  BY Turns, EmptySeq, SMT
<1>4. TypeOK'
  BY <1>1, <1>2, <1>3, NothingYet DEF IInv, TypeOK
<1>5. InTurn'
  BY <1>1, <1>3 DEF InTurn
<1> QED
  BY <1>1, <1>4, <1>5 DEF IInv, Known, Chosen, Requested, Fetching

\* fetch() returns; the registry is not touched.
LEMMA ReturnKeeps ==
    ASSUME IInv, pc \in Fetching, NEW r \in Results, Return(r),
           UNCHANGED <<registry, builds, attempt, tick, spot>>,
           wired /\ Expiries[pos] \notin resolved => r = Failure
    PROVE  IInv'
<1> USE DEF registry, current
<1>1. /\ results' = Append(results, r) /\ pos' = pos + 1
      /\ maps' = NoMaps /\ plan' = <<>> /\ answered' = <<>> /\ rows' = {} /\ unfetched' = 0
      /\ pc' = IF pos = Len(Expiries) THEN "idle" ELSE "expiry"
  BY DEF Return, Begin
<1>2. /\ pos \in 1..Len(Expiries) /\ Len(results) = pos - 1 /\ results \in Seq(Results)
      /\ wired => \A i \in DOMAIN results : Expiries[i] \notin resolved => results[i] = Failure
  BY DEF IInv, InTurn, TypeOK
<1>3. /\ pos' \in 1..(Len(Expiries) + 1)
      /\ pos # Len(Expiries) => pos' \in 1..Len(Expiries)
  <2>1. pos' = pos + 1 /\ pos \in 1..Len(Expiries) /\ Len(Expiries) \in Nat
    BY <1>1, <1>2, Turns
  <2> QED
    BY <2>1, SMT
<1>4. /\ results' \in Seq(Results) /\ Len(results') = pos /\ pos = pos' - 1
      /\ Len(results') <= Len(Expiries)
      /\ \A i \in 1..Len(results) : results'[i] = results[i]
      /\ results'[pos] = r
  <2>1. /\ Append(results, r) \in Seq(Results) /\ Len(Append(results, r)) = Len(results) + 1
        /\ \A i \in 1..Len(results) : Append(results, r)[i] = results[i]
        /\ Append(results, r)[Len(results) + 1] = r
    BY <1>2, AppendProperties
  <2>2. Len(results) + 1 = pos /\ pos = (pos + 1) - 1 /\ pos <= Len(Expiries)
    BY <1>2, Turns, SMT
  <2> QED
    BY <1>1, <2>1, <2>2
<1>5. TypeOK'
  BY <1>1, <1>3, <1>4, NothingYet DEF IInv, TypeOK
<1>6. InTurn'
  <2>1. ASSUME wired, NEW i \in DOMAIN results', Expiries[i] \notin resolved
        PROVE  results'[i] = Failure
    <3>1. i \in 1..pos
      BY <1>4, LenProperties
    <3>2. i \in 1..Len(results) \/ i = pos
      BY <1>2, <3>1, Turns, SMT
    <3>3. DOMAIN results = 1..Len(results)
      BY <1>2, LenProperties
    <3> QED
      BY <1>2, <1>4, <2>1, <3>2, <3>3
  <2> QED
    BY <1>1, <1>3, <1>4, <2>1 DEF InTurn, Fetching
<1>7. Known'
  BY <1>1 DEF IInv, Known, Fetching
<1> QED
  BY <1>1, <1>5, <1>6, <1>7 DEF IInv, Chosen, Requested

LEMMA FailureTyped == Failure \in Results
  BY DEF Failure, Results

\* The instruments found are those of the expiry at pos.
LEMMA FoundKeeps ==
    ASSUME IInv, pc = "expiry", NEW found, IsExpiry(found), Found(found),
           UNCHANGED <<registry, builds, attempt, tick, spot>>,
           wired => found = tokens[Expiries[pos]]
    PROVE  IInv'
<1>1. /\ pos \in 1..Len(Expiries) /\ Expiries[pos] \in ExpirySet
      /\ wired => (Expiries[pos] \in resolved <=> found.ce # {})
  BY Turns DEF IInv, InTurn, Known, Fetching
<1>2. CASE found.ce = {}
  BY <1>1, <1>2, FailureTyped, ReturnKeeps DEF Found, Fetching
<1>3. CASE found.ce # {}
  <2>1. /\ maps' = found /\ pc' = "select"
        /\ UNCHANGED <<registry, builds, attempt, tick, spot,
                       pos, plan, answered, rows, unfetched, results>>
    BY <1>3 DEF Found
  <2>2. TypeOK'
    BY <2>1 DEF IInv, TypeOK, registry, IsExpiry
  <2>3. Known'
    BY <2>1 DEF IInv, Known, registry, Fetching
  <2>4. InTurn'
    BY <2>1 DEF IInv, InTurn, registry, Fetching
  <2>5. Chosen'
    BY <1>1, <1>3, <2>1 DEF Chosen, registry, IsExpiry
  <2>6. Requested'
    BY <2>1 DEF IInv, Requested
  <2> QED
    BY <2>2, <2>3, <2>4, <2>5, <2>6 DEF IInv
<1> QED
  BY <1>2, <1>3

LEMMA DiscoverKeeps ==
    ASSUME IInv, Discover
    PROVE  IInv'
<1>1. /\ pc = "expiry" /\ UNCHANGED <<registry, builds, attempt, tick, spot>>
      /\ Expiries[pos] \in ExpirySet
  BY Turns DEF Discover, IInv, InTurn, Fetching
<1>2. CASE wired /\ Found(tokens[Expiries[pos]])
  <2>1. tokens \in Listings
    BY <1>1, <1>2 DEF IInv, Known, TypeOK, Fetching
  <2> QED
    BY <1>1, <1>2, <2>1, Listed, FoundKeeps
<1>3. ASSUME ~wired, NEW listing \in Listings, Found(listing[Expiries[pos]]) PROVE IInv'
  BY <1>1, <1>3, Listed, FoundKeeps
<1>4. CASE ~wired /\ Return(Failure)
  BY <1>1, <1>4, FailureTyped, ReturnKeeps DEF Fetching
<1>5. CASE pc' = "raised" /\ UNCHANGED <<current, results>>
  <2>1. TypeOK'
    BY <1>1, <1>5 DEF IInv, TypeOK, registry, current
  <2> QED
    BY <1>1, <1>5, <2>1 DEF IInv, Known, InTurn, Chosen, Requested,
                            registry, current, Fetching
<1> QED
  BY <1>2, <1>3, <1>4, <1>5 DEF Discover

LEMMA SelectKeeps ==
    ASSUME IInv, Select
    PROVE  IInv'
<1>1. /\ pc = "select" /\ pc' = "batch" /\ plan' = Batches(Request(maps, spot))
      /\ UNCHANGED <<registry, builds, attempt, tick, spot, pos, maps, answered, rows,
                     unfetched, results>>
  BY DEF Select
<1>2. IsExpiry(maps) /\ maps.ce # {} /\ answered = <<>> /\ spot \in Nat
  BY <1>1, ChainFetcherAssumption DEF IInv, TypeOK, Chosen, Requested
<1>3. Request(maps, spot) \in Seq(Instruments)
  BY <1>2, RequestIs
<1>4. Batches(Request(maps, spot)) \in Seq(Seq(Instruments))
  BY <1>3, BatchesAre
<1>5. answered \o Request(maps, spot) = Request(maps, spot)
  BY <1>2, <1>3, ConcatEmptySeq
<1>6. TypeOK'
  BY <1>1, <1>4 DEF IInv, TypeOK, registry
<1>7. Requested'
  <2>1. Request(maps, spot)' = Request(maps, spot)
    BY <1>1
  <2> QED
    BY <1>1, <1>3, <1>5, <2>1 DEF Requested
<1>8. Known' /\ InTurn' /\ Chosen'
  BY <1>1 DEF IInv, Known, InTurn, Chosen, registry, Fetching
<1> QED
  BY <1>6, <1>7, <1>8 DEF IInv

\* A batch moves from what is left of the request to what was answered.
LEMMA BatchAnsweredKeeps ==
    ASSUME IInv, BatchAnswered
    PROVE  IInv'
<1>1. /\ pc = "batch" /\ plan # <<>>
      /\ plan' = Tail(plan) /\ answered' = answered \o Head(plan)
      /\ UNCHANGED <<registry, builds, attempt, pc, tick, spot, pos, maps, results>>
  BY DEF BatchAnswered
<1>2. /\ rows' \subseteq rows \union {Head(plan)[i] : i \in DOMAIN Head(plan)} \union Strays
      /\ \E n \in Nat : unfetched' = unfetched + n
  BY ChainFetcherAssumption DEF BatchAnswered
<1>3. PICK left \in Seq(Instruments) :
        answered \o left = Request(maps, spot) /\ plan = Batches(left)
  BY <1>1 DEF IInv, Requested
<1>4. PICK rest \in Seq(Instruments) :
        left = Head(plan) \o rest /\ Tail(plan) = Batches(rest)
  BY <1>1, <1>3, BatchesUnfold
<1>5. Head(plan) \in Seq(Instruments) /\ Tail(plan) \in Seq(Seq(Instruments))
  BY <1>1, HeadTailProperties DEF IInv, TypeOK
<1>6. answered \in Seq(Instruments) /\ answered' \in Seq(Instruments)
  BY <1>1, <1>5, ConcatProperties DEF IInv, TypeOK
<1>7. answered' \o rest = Request(maps, spot)
  <2>1. (answered \o Head(plan)) \o rest = answered \o (Head(plan) \o rest)
    <3>1. PICK a \in Seq(Instruments), h \in Seq(Instruments) : a = answered /\ h = Head(plan)
      BY <1>5, <1>6
    <3>2. (a \o h) \o rest = a \o (h \o rest)
      BY ConcatAssociative
    <3> QED
      BY <3>1, <3>2
  <2> QED
    BY <1>1, <1>3, <1>4, <2>1
<1>8. rows' \subseteq Instruments /\ unfetched' \in Nat
  <2>1. rows \subseteq Instruments /\ unfetched \in Nat
    BY DEF IInv, TypeOK
  <2>2. {Head(plan)[i] : i \in DOMAIN Head(plan)} \subseteq Instruments
    BY <1>5, LenProperties, ElementOfSeq
  <2>3. Strays \subseteq Instruments
    BY ChainFetcherAssumption
  <2>4. rows' \subseteq Instruments
    BY <1>2, <2>1, <2>2, <2>3
  <2>5. unfetched' \in Nat
    BY <1>2, <2>1, SMT
  <2> QED
    BY <2>4, <2>5
<1>9. TypeOK'
  BY <1>1, <1>5, <1>6, <1>8 DEF IInv, TypeOK, registry
<1>10. Requested'
  <2>1. Request(maps, spot)' = Request(maps, spot)
    BY <1>1
  <2> QED
    BY <1>1, <1>4, <1>7, <2>1 DEF Requested
<1>11. Known' /\ InTurn' /\ Chosen'
  BY <1>1 DEF IInv, Known, InTurn, Chosen, registry, Fetching
<1> QED
  BY <1>9, <1>10, <1>11 DEF IInv

LEMMA CompleteKeeps ==
    ASSUME IInv, BatchFails \/ Complete
    PROVE  IInv'
<1>1. [success |-> rows # {}, rows |-> rows, unfetched |-> unfetched] \in Results
  BY DEF IInv, TypeOK, Results
<1>2. PICK r \in Results : Return(r)
  BY <1>1, FailureTyped DEF BatchFails, Complete
<1>3. /\ pc = "batch" /\ UNCHANGED <<registry, builds, attempt, tick, spot>>
      /\ wired => Expiries[pos] \in resolved
  BY DEF BatchFails, Complete, IInv, Chosen
<1> QED
  BY <1>2, <1>3, ReturnKeeps DEF Fetching

LEMMA StepIInv == IInv /\ [Next]_vars => IInv'
<1> SUFFICES ASSUME IInv, [Next]_vars PROVE IInv'
  OBVIOUS
<1>1. CASE UNCHANGED vars
  BY <1>1 DEF IInv, TypeOK, Known, InTurn, Chosen, Requested,
              vars, registry, current
<1> QED
  BY <1>1, BuildKeeps, TickKeeps, DiscoverKeeps, SelectKeeps, BatchAnsweredKeeps,
     CompleteKeeps DEF Next

\* IInv holds of every state of the registry and the fetchers.
THEOREM Invariance == Spec => []IInv
  BY InitIInv, StepIInv, PTL DEF Spec

-----------------------------------------------------------------------------
(***************************************************************************)
(* The variables of the registry and the fetchers keep their types; every  *)
(* configured expiry gets at most one result a tick.                       *)
(***************************************************************************)
THEOREM TypeCorrect == Spec => []TypeOK
<1>1. IInv => TypeOK
  BY DEF IInv
<1> QED
  BY <1>1, Invariance, PTL

(***************************************************************************)
(* Before, between and after the batches of an expiry, what was asked and  *)
(* what will be is the window of the calls and the puts at its strikes, in *)
(* order, in batches within the broker's limit (chain.py:311-344).         *)
(***************************************************************************)
THEOREM RequestsTheWindow == Spec => []RequestIsWindow
<1>1. IInv => RequestIsWindow
  <2> SUFFICES ASSUME IInv, pc = "batch"
               PROVE  LET whole == answered \o FlattenSeq(plan)
                      IN  /\ StrikesOf(whole, "CE") = WindowStrikes(maps.ce, spot)
                          /\ StrikesOf(whole, "PE") = WindowStrikes(maps.ce, spot) \intersect maps.pe
                          /\ InOrder(whole)
                          /\ \A i \in DOMAIN plan : 1 <= Len(plan[i]) /\ Len(plan[i]) <= BatchSize
    BY DEF RequestIsWindow, InOrder
  <2>1. PICK left \in Seq(Instruments) :
          answered \o left = Request(maps, spot) /\ plan = Batches(left)
    BY DEF IInv, Requested
  <2>2. IsExpiry(maps) /\ maps.ce # {} /\ spot \in Nat
    BY ChainFetcherAssumption DEF IInv, TypeOK, Chosen
  <2>3. answered \o FlattenSeq(plan) = Request(maps, spot)
    BY <2>1, FlattenBatches
  <2>4. DOMAIN plan = 1..Count(Len(left))
    BY <2>1, BatchesAre, LenProperties
  <2>5. \A i \in DOMAIN plan : 1 <= Len(plan[i]) /\ Len(plan[i]) <= BatchSize
    BY <2>1, <2>4, BatchesAre
  <2> QED
    BY <2>2, <2>3, <2>5, RequestIs
<1> QED
  BY <1>1, Invariance, PTL

(***************************************************************************)
(* The chains of a tick answer for their own expiry, from the last         *)
(* successful build, and an expiry it did not resolve fails unasked        *)
(* (controller.py:449, chain.py:229-247).                                  *)
(***************************************************************************)
THEOREM ChainsAnswerTheirExpiry == Spec => []UnresolvedFails
<1>1. IInv => UnresolvedFails
  <2> SUFFICES ASSUME IInv PROVE UnresolvedFails
    OBVIOUS
  <2>1. ASSUME pc = "batch", plan = <<>>, answered = <<>> PROVE FALSE
    <3>1. PICK left \in Seq(Instruments) :
            answered \o left = Request(maps, spot) /\ plan = Batches(left)
      BY <2>1 DEF IInv, Requested
    <3>2. FlattenSeq(plan) = left /\ FlattenSeq(<<>>) = <<>>
      <4>1. FlattenSeq(plan) = left
        BY <3>1, FlattenBatches
      <4> QED
        BY <4>1, NothingFlat
    <3>3. Request(maps, spot) = <<>>
      BY <2>1, <3>1, <3>2, ConcatEmptySeq
    <3>4. IsExpiry(maps) /\ maps.ce # {} /\ spot \in Nat
      BY <2>1, ChainFetcherAssumption DEF IInv, TypeOK, Chosen
    <3> QED
      BY <3>3, <3>4, RequestIs
  <2> QED
    BY <2>1 DEF IInv, InTurn, Chosen, UnresolvedFails, Fetching
<1> QED
  BY <1>1, Invariance, PTL

(***************************************************************************)
(* The ATM of every window is within one step of the index level, if the   *)
(* backbone has the two strikes next to it (strike_ladder.py:101-122).     *)
(***************************************************************************)
THEOREM WindowsCentred == Spec => []AtmNearSpot
<1>1. IInv => AtmNearSpot
  <2> SUFFICES ASSUME IInv, pc = "batch",
                      NEW a \in Backbone(maps.ce), a <= spot, a + Step \in Backbone(maps.ce),
                      spot <= a + Step
               PROVE  Abs(ResolvedAtm(maps.ce, spot) - spot) <= Step
    BY DEF AtmNearSpot
  <2>1. IsListing(maps.ce) /\ spot \in Nat
    BY ChainFetcherAssumption DEF IInv, TypeOK, Chosen, IsExpiry, IsListing
  <2> QED
    BY <2>1, AtmWithinStep
<1> QED
  BY <1>1, Invariance, PTL

(***************************************************************************)
(* A chain that is reported as fetched is whole: its window was answered,  *)
(* calls and puts, and the rows of no answer are left out (chain.py:42).   *)
(***************************************************************************)
THEOREM ChainsWhole == Spec => NoPartialChain
<1>1. IInv /\ [Next]_vars =>
        [\A i \in DOMAIN results' \ DOMAIN results :
            results'[i].success =>
               /\ plan = <<>> /\ results'[i].rows = rows
               /\ StrikesOf(answered, "CE") = WindowStrikes(maps.ce, spot)
               /\ StrikesOf(answered, "PE") =
                    WindowStrikes(maps.ce, spot) \intersect maps.pe]_results
  <2> SUFFICES ASSUME IInv, [Next]_vars, results' # results,
                      NEW i \in DOMAIN results' \ DOMAIN results, results'[i].success
               PROVE  /\ plan = <<>> /\ results'[i].rows = rows
                      /\ StrikesOf(answered, "CE") = WindowStrikes(maps.ce, spot)
                      /\ StrikesOf(answered, "PE") =
                           WindowStrikes(maps.ce, spot) \intersect maps.pe
    OBVIOUS
  <2>1. ASSUME NEW r \in Results, Return(r) PROVE results'[i] = r
    <3>1. /\ results' = Append(results, r) /\ results \in Seq(Results)
      BY <2>1 DEF Return, IInv, TypeOK
    <3>2. /\ DOMAIN results = 1..Len(results) /\ DOMAIN results' = 1..(Len(results) + 1)
          /\ results'[Len(results) + 1] = r /\ Len(results) \in Nat
      BY <3>1, AppendProperties, LenProperties
    <3>3. i = Len(results) + 1
      BY <3>2, SMT
    <3> QED
      BY <3>2, <3>3
  <2>2. ~Return(Failure)
    <3>1. ~Failure.success
      BY DEF Failure
    <3> QED
      BY <2>1, <3>1, FailureTyped
  <2>3. results' # <<>>
    BY EmptySeq
  <2>4. Complete
    BY <2>2, <2>3 DEF Next, Build, SearchFails, SearchEmpty, Resolve, Tick, Discover, Found,
                      Select, BatchFails, BatchAnswered, vars
  <2>5. [success |-> rows # {}, rows |-> rows, unfetched |-> unfetched] \in Results
    BY DEF IInv, TypeOK, Results
  <2>6. pc = "batch" /\ plan = <<>> /\ results'[i].rows = rows
    BY <2>1, <2>4, <2>5 DEF Complete
  <2>7. /\ StrikesOf(answered, "CE") = WindowStrikes(maps.ce, spot)
        /\ StrikesOf(answered, "PE") = WindowStrikes(maps.ce, spot) \intersect maps.pe
    <3>1. PICK left \in Seq(Instruments) :
            answered \o left = Request(maps, spot) /\ plan = Batches(left)
      BY <2>6 DEF IInv, Requested
    <3>2. FlattenSeq(plan) = left /\ FlattenSeq(<<>>) = <<>>
      <4>1. FlattenSeq(plan) = left
        BY <3>1, FlattenBatches
      <4> QED
        BY <4>1, NothingFlat
    <3>3. answered = Request(maps, spot)
      BY <2>6, <3>1, <3>2, ConcatEmptySeq DEF IInv, TypeOK
    <3>4. IsExpiry(maps) /\ maps.ce # {} /\ spot \in Nat
      BY <2>6, ChainFetcherAssumption DEF IInv, TypeOK, Chosen
    <3> QED
      BY <3>3, <3>4, RequestIs
  <2> QED
    BY <2>6, <2>7
<1> QED
  BY <1>1, Invariance, PTL DEF Spec, NoPartialChain

(***************************************************************************)
(* The registry implements the universe: between two ticks or before the   *)
(* first, a build replaces it as a whole, and no other step, a failed      *)
(* build among them, changes it.                                           *)
(***************************************************************************)
THEOREM RegistryImplementsUniverse == Spec => RefinesUniverse
<1>1. Init => Abstract!Init
  BY DEF Init, Abstract!Init
<1>2. [Next]_vars => [Abstract!Resolve]_tokens
  BY DEF Next, Build, SearchFails, SearchEmpty, Resolve, Tick, Discover, Select,
         BatchFails, BatchAnswered, Complete, registry, vars, Abstract!Resolve
<1> QED
  BY <1>1, <1>2, PTL DEF Spec, RefinesUniverse, Abstract!Spec
=============================================================================
