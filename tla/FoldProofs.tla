----------------------------- MODULE FoldProofs -----------------------------
(***************************************************************************)
(* What the folds do that the models are built from: facts that theorems   *)
(* of several components rest on, proved by induction over the naturals    *)
(* and over finite sets.                                                   *)
(*                                                                         *)
(* Sums over finite sets, least and greatest members, and the order of     *)
(* numbers come first, then disjoint sets: whatever pairs are united, in   *)
(* whatever order, two elements have the same root if and only if the      *)
(* pairs link them (UnitedInOrder, UnitedPairs).  Last, counting: that     *)
(* there are as many roots as groups (RootsAreGroups), and as many pairs   *)
(* below the roots as within the groups (PairsBelowRoots).                 *)
(***************************************************************************)
EXTENDS Sums, Dsu, SequencesExt, FiniteSetTheorems, WellFoundedInduction, TLAPS

-----------------------------------------------------------------------------
(* Induction over the naturals, for a set. *)

\* A relation well-founded on the naturals has a minimal element in every
\* set of naturals that is not empty.
LEMMA MinimalElement ==
  ASSUME NEW R, IsWellFoundedOn(R, Nat), NEW S, S \subseteq Nat, S # {}
  PROVE  \E x \in S : \A y \in S : ~ (<<y, x>> \in R)
BY WFMin

\* Min finds the least element of a set of naturals that is not empty.
LEMMA MinIsLeast ==
  ASSUME NEW S, S \subseteq Nat, S # {}
  PROVE  Min(S) \in S /\ \A y \in S : Min(S) <= y
<1>1. IsWellFoundedOn(OpToRel(<, Nat), Nat)
  BY NatLessThanWellFounded
<1>2. \A x, y \in Nat : x < y => <<x, y>> \in OpToRel(<, Nat)
  BY DEF OpToRel
<1>3. PICK x \in S : \A y \in S : ~ (<<y, x>> \in OpToRel(<, Nat))
  BY <1>1, MinimalElement
<1>4. ASSUME NEW y \in S PROVE x <= y
  <2>1. ~ (y < x)
    BY <1>2, <1>3
  <2>2. QED
    BY <2>1
<1>5. QED
  BY <1>4 DEF Min

\* What holds of 0 and with each number of the next holds up to n.
LEMMA Upward ==
  ASSUME NEW n \in Nat, NEW S, 0 \in S, \A k \in 1..n : k - 1 \in S => k \in S
  PROVE  0..n \subseteq S
<1> DEFINE T == (0..n) \ S
<1>1. SUFFICES ASSUME T # {} PROVE FALSE
  OBVIOUS
<1>2. IsWellFoundedOn(OpToRel(<, Nat), Nat)
  BY NatLessThanWellFounded
<1>3. \A x, y \in Nat : x < y => <<x, y>> \in OpToRel(<, Nat)
  BY DEF OpToRel
<1>4. T \subseteq Nat
  OBVIOUS
<1>5. PICK x \in T : \A y \in T : ~ (<<y, x>> \in OpToRel(<, Nat))
  <2> HIDE DEF T
  <2>1. QED
    BY <1>1, <1>2, <1>4, MinimalElement
<1> HIDE DEF OpToRel
<1>6. x \in 1..n /\ x \in Nat /\ x - 1 \in Nat /\ x - 1 < x
  OBVIOUS
<1>7. x - 1 \notin T
  <2>1. <<x - 1, x>> \in OpToRel(<, Nat)
    BY <1>3, <1>6, Zenon
  <2> HIDE DEF T
  <2>2. QED
    BY <1>5, <2>1, Zenon
<1>8. QED
  BY <1>6, <1>7

\* Max finds the greatest of a set of naturals up to n.
LEMMA MaxIsGreatest ==
  ASSUME NEW n \in Nat, NEW S, S \subseteq 0..n, S # {}
  PROVE  Max(S) \in S /\ \A y \in S : y <= Max(S)
<1> DEFINE T == {n - y : y \in S}
<1>1. T \subseteq Nat /\ T # {}
  <2>1. \A y \in S : n - y \in Nat
    OBVIOUS
  <2>2. T \subseteq Nat
    BY <2>1
  <2>3. QED
    BY <2>2
<1>2. PICK m \in T : \A t \in T : m <= t
  BY <1>1, MinIsLeast
<1>3. PICK x \in S : m = n - x
  BY <1>2
<1>4. \A y \in S : y <= x
  BY <1>2, <1>3
<1>5. QED
  BY <1>4 DEF Max

\* Members of a finite set each of which has a part L[x] of it up to itself,
\* the one inside the other: they are told apart by how large it is.
LEMMA LadderFacts ==
  ASSUME NEW S, IsFiniteSet(S), NEW L,
         \A x \in S : L[x] \subseteq S /\ x \in L[x],
         \A x, y \in S : x # y => \/ L[x] \subseteq L[y] /\ y \notin L[x]
                                  \/ L[y] \subseteq L[x] /\ x \notin L[y]
  PROVE  /\ Cardinality(S) \in Nat
         /\ \A x \in S : Cardinality(L[x]) \in 1..Cardinality(S)
         /\ \A x, y \in S : Cardinality(L[x]) = Cardinality(L[y]) => x = y
         /\ \A i \in 1..Cardinality(S) : \E x \in S : Cardinality(L[x]) = i
<1> DEFINE k == Cardinality(S)
           place == [x \in S |-> Cardinality(L[x])]
<1>1. k \in Nat
  BY FS_CardinalityType
<1>2. ASSUME NEW x \in S PROVE IsFiniteSet(L[x]) /\ Cardinality(L[x]) \in 1..k
  <2>1. IsFiniteSet(L[x]) /\ Cardinality(L[x]) <= k
    BY FS_Subset
  <2>2. Cardinality(L[x]) \in Nat /\ Cardinality(L[x]) # 0
    BY <2>1, FS_CardinalityType, FS_EmptySet
  <2>3. QED
    BY <1>1, <2>1, <2>2
<1>3. ASSUME NEW x \in S, NEW y \in S, L[x] \subseteq L[y], y \notin L[x]
      PROVE  Cardinality(L[x]) # Cardinality(L[y])
  BY <1>2, <1>3, FS_Subset
<1>4. ASSUME NEW x \in S, NEW y \in S, Cardinality(L[x]) = Cardinality(L[y]) PROVE x = y
  <2>1. ASSUME x # y PROVE FALSE
    BY <1>3, <1>4, <2>1
  <2>2. QED
    BY <2>1
<1>5. place \in Injection(S, 1..k)
  <2>1. \A x \in S : place[x] \in 1..k
    BY <1>2
  <2>2. \A x, y \in S : place[x] = place[y] => x = y
    BY <1>4
  <2>3. place = [x \in S |-> place[x]]
    OBVIOUS
  <2> HIDE DEF place, k
  <2>4. QED
    BY <2>1, <2>2, <2>3 DEF Injection, IsInjective
<1>6. IsFiniteSet(1..k) /\ Cardinality(1..k) = k
  BY <1>1, FS_Interval
<1>7. place \in Surjection(S, 1..k)
  <2> HIDE DEF place
  <2>1. QED
    BY <1>5, <1>6, FS_Injection
<1>8. ASSUME NEW i \in 1..k PROVE \E x \in S : Cardinality(L[x]) = i
  <2>1. PICK x \in S : place[x] = i
    <3> HIDE DEF place
    <3>1. QED
      BY <1>7 DEF Surjection
  <2>2. QED
    BY <2>1
<1>9. QED
  BY <1>1, <1>2, <1>4, <1>8

\* Which member of a set of numbers it is.
Place(S, n) == Cardinality({m \in S : m <= n})

LEMMA PlaceFacts ==
  ASSUME NEW S, S \subseteq Nat, IsFiniteSet(S)
  PROVE  /\ Cardinality(S) \in Nat
         /\ \A n \in S : Place(S, n) \in 1..Cardinality(S)
         /\ \A m, n \in S : Place(S, m) = Place(S, n) => m = n
         /\ \A i \in 1..Cardinality(S) : \E n \in S : Place(S, n) = i
<1> DEFINE L == [n \in S |-> {m \in S : m <= n}]
<1>1. \A n \in S : L[n] \subseteq S /\ n \in L[n]
  OBVIOUS
<1>2. ASSUME NEW m \in S, NEW n \in S, m < n PROVE L[m] \subseteq L[n] /\ n \notin L[m]
  <2>1. m \in Nat /\ n \in Nat /\ \A x \in S : x \in Nat
    OBVIOUS
  <2>2. \A x \in S : x <= m => x <= n
    BY <1>2, <2>1
  <2>3. ~ (n <= m)
    BY <1>2, <2>1
  <2>4. QED
    BY <2>2, <2>3
<1>3. ASSUME NEW m \in S, NEW n \in S, m # n
      PROVE  \/ L[m] \subseteq L[n] /\ n \notin L[m]
             \/ L[n] \subseteq L[m] /\ m \notin L[n]
  <2>1. m \in Nat /\ n \in Nat
    OBVIOUS
  <2>2. m < n \/ n < m
    BY <1>3, <2>1
  <2> HIDE DEF L
  <2>3. QED
    BY <1>2, <2>2
<1>4. \A n \in S : Place(S, n) = Cardinality(L[n])
  BY DEF Place
<1> HIDE DEF L
<1>5. /\ Cardinality(S) \in Nat
      /\ \A x \in S : Cardinality(L[x]) \in 1..Cardinality(S)
      /\ \A x, y \in S : Cardinality(L[x]) = Cardinality(L[y]) => x = y
      /\ \A i \in 1..Cardinality(S) : \E x \in S : Cardinality(L[x]) = i
  BY <1>1, <1>3, LadderFacts
<1>6. QED
  BY <1>4, <1>5

\* Every number has its place in the order.
LEMMA OrderFacts ==
  ASSUME NEW S, S \subseteq Nat, IsFiniteSet(S)
  PROVE  /\ DOMAIN InOrder(S) = 1..Cardinality(S)
         /\ \A i \in DOMAIN InOrder(S) : InOrder(S)[i] \in S /\ Place(S, InOrder(S)[i]) = i
         /\ \A n \in S : Place(S, n) \in DOMAIN InOrder(S) /\ InOrder(S)[Place(S, n)] = n
<1>1. InOrder(S) = [i \in 1..Cardinality(S) |-> CHOOSE n \in S : Place(S, n) = i]
  BY DEF InOrder, Place
<1>2. ASSUME NEW i \in 1..Cardinality(S)
      PROVE  InOrder(S)[i] \in S /\ Place(S, InOrder(S)[i]) = i
  <2>1. \E n \in S : Place(S, n) = i
    BY PlaceFacts
  <2>2. InOrder(S)[i] = CHOOSE n \in S : Place(S, n) = i
    BY <1>1
  <2>3. QED
    BY <2>1, <2>2
<1>3. DOMAIN InOrder(S) = 1..Cardinality(S)
  BY <1>1
<1>4. ASSUME NEW n \in S PROVE InOrder(S)[Place(S, n)] = n /\ Place(S, n) \in 1..Cardinality(S)
  <2>1. Place(S, n) \in 1..Cardinality(S)
    BY PlaceFacts
  <2>2. InOrder(S)[Place(S, n)] \in S /\ Place(S, InOrder(S)[Place(S, n)]) = Place(S, n)
    BY <1>2, <2>1
  <2>3. QED
    BY <2>1, <2>2, PlaceFacts
<1>5. QED
  BY <1>2, <1>3, <1>4

\* What stands at some places is there, in order.
LEMMA ChosenFacts ==
  ASSUME NEW seq, NEW S, S \subseteq Nat, IsFiniteSet(S)
  PROVE  /\ Cardinality(S) \in Nat
         /\ DOMAIN Chosen(seq, S) = 1..Cardinality(S)
         /\ \A i \in DOMAIN Chosen(seq, S) : \E s \in S : Chosen(seq, S)[i] = seq[s]
         /\ Chosen(seq, S) = [i \in 1..Cardinality(S) |-> Chosen(seq, S)[i]]
<1>1. Cardinality(S) \in Nat
  BY FS_CardinalityType
<1>2. /\ DOMAIN InOrder(S) = 1..Cardinality(S)
      /\ \A i \in DOMAIN InOrder(S) : InOrder(S)[i] \in S
  BY OrderFacts
<1>3. Chosen(seq, S) = [i \in DOMAIN InOrder(S) |-> seq[InOrder(S)[i]]]
  BY DEF Chosen
<1>4. QED
  BY <1>1, <1>2, <1>3

-----------------------------------------------------------------------------
(* Sums. *)

\* The total of f over each part of its domain, as SumOf makes it.
Totals(f) ==
  CHOOSE iter :
    iter = [s \in SUBSET DOMAIN f |->
              IF s = {} THEN 0
              ELSE iter[s \ {CHOOSE x \in s : TRUE}] + f[CHOOSE x \in s : TRUE]]

LEMMA SumIsTotal == ASSUME NEW f PROVE SumOf(f) = Totals(f)[DOMAIN f]
BY Zenon DEF SumOf, FoldSet, MapThenFoldSet, Totals

\* A total with one member taken after the other, up to n members.
Adds(h, f, n) ==
  \A s \in SUBSET DOMAIN f :
    Cardinality(s) <= n =>
      h[s] = IF s = {} THEN 0 ELSE h[s \ {CHOOSE x \in s : TRUE}] + f[CHOOSE x \in s : TRUE]

LEMMA OneLess ==
  ASSUME NEW s, IsFiniteSet(s), NEW x \in s
  PROVE  /\ Cardinality(s) \in Nat /\ Cardinality(s) > 0
         /\ IsFiniteSet(s \ {x}) /\ Cardinality(s \ {x}) = Cardinality(s) - 1
<1>1. Cardinality(s) \in Nat /\ Cardinality(s) # 0
  BY FS_CardinalityType, FS_EmptySet
<1>2. IsFiniteSet(s \ {x}) /\ Cardinality(s \ {x}) = Cardinality(s) - 1
  BY FS_RemoveElement
<1>3. QED
  BY <1>1, <1>2

LEMMA CanAdd ==
  ASSUME NEW f, IsFiniteSet(DOMAIN f), NEW n \in Nat
  PROVE  \E h : Adds(h, f, n)
<1> DEFINE D == DOMAIN f
           the(s) == CHOOSE x \in s : TRUE
           S == {m \in Nat : \E h : Adds(h, f, m)}
<1>1. \A s \in SUBSET D : IsFiniteSet(s) /\ Cardinality(s) \in Nat
  BY FS_Subset, FS_CardinalityType
<1>2. \A s \in SUBSET D : s # {} => the(s) \in s /\ s \ {the(s)} \in SUBSET D
  OBVIOUS
<1>3. ASSUME NEW s \in SUBSET D, s # {}
      PROVE  Cardinality(s) > 0 /\ Cardinality(s \ {the(s)}) = Cardinality(s) - 1
  <2>1. the(s) \in s
    BY <1>2, <1>3
  <2> HIDE DEF the
  <2>2. QED
    BY <1>1, <2>1, OneLess
<1>4. 0 \in S
  <2> DEFINE h == [s \in SUBSET D |-> 0]
  <2>1. Adds(h, f, 0)
    <3>1. ASSUME NEW s \in SUBSET D, Cardinality(s) <= 0 PROVE s = {}
      <4>1. IsFiniteSet(s) /\ Cardinality(s) \in Nat
        BY <1>1
      <4>2. Cardinality(s) = 0
        BY <3>1, <4>1
      <4>3. QED
        BY <4>1, <4>2, FS_EmptySet
    <3>2. QED
      BY <3>1 DEF Adds
  <2>2. QED
    BY <2>1
<1>5. ASSUME NEW m \in 1..n, m - 1 \in S PROVE m \in S
  <2>1. PICK h : Adds(h, f, m - 1)
    BY <1>5
  <2> DEFINE g == [s \in SUBSET D |-> IF Cardinality(s) <= m - 1 THEN h[s]
                                      ELSE h[s \ {the(s)}] + f[the(s)]]
  <2>2. ASSUME NEW s \in SUBSET D, Cardinality(s) <= m
        PROVE  g[s] = IF s = {} THEN 0 ELSE g[s \ {the(s)}] + f[the(s)]
    <3>1. CASE s = {}
      <4>1. Cardinality(s) <= m - 1
        BY <3>1, FS_EmptySet
      <4>2. h[s] = 0
        BY <2>1, <3>1, <4>1 DEF Adds
      <4>3. QED
        BY <3>1, <4>1, <4>2
    <3>2. CASE s # {}
      <4>1. s \ {the(s)} \in SUBSET D /\ Cardinality(s \ {the(s)}) <= m - 1
        BY <1>1, <1>2, <1>3, <2>2, <3>2
      <4>2. g[s \ {the(s)}] = h[s \ {the(s)}]
        BY <4>1
      <4>3. Cardinality(s) <= m - 1 => h[s] = h[s \ {the(s)}] + f[the(s)]
        BY <2>1, <3>2, Zenon DEF Adds
      <4>4. g[s] = h[s \ {the(s)}] + f[the(s)]
        BY <4>3
      <4> HIDE DEF g, the
      <4>5. QED
        BY <3>2, <4>2, <4>4
    <3>3. QED
      BY <3>1, <3>2
  <2>3. Adds(g, f, m)
    <3> HIDE DEF g
    <3>1. QED
      BY <2>2, Zenon DEF Adds
  <2>4. QED
    BY <2>3
<1>6. 0..n \subseteq S
  <2> HIDE DEF S
  <2>1. QED
    BY <1>4, <1>5, Upward
<1>7. QED
  BY <1>6

LEMMA TotalsUnfold ==
  ASSUME NEW f, IsFiniteSet(DOMAIN f)
  PROVE  /\ Totals(f)[{}] = 0
         /\ \A s \in SUBSET DOMAIN f :
              s # {} => \E x \in s : Totals(f)[s] = Totals(f)[s \ {x}] + f[x]
<1> DEFINE D == DOMAIN f
           the(s) == CHOOSE x \in s : TRUE
           n == Cardinality(D)
<1>1. n \in Nat
  BY FS_CardinalityType
<1>2. PICK h : Adds(h, f, n)
  BY <1>1, CanAdd
<1> DEFINE g == [s \in SUBSET D |-> h[s]]
<1>3. ASSUME NEW s \in SUBSET D
      PROVE  g[s] = IF s = {} THEN 0 ELSE g[s \ {the(s)}] + f[the(s)]
  <2>1. Cardinality(s) <= n
    BY FS_Subset
  <2>2. g[s] = h[s] /\ s \ {the(s)} \in SUBSET D /\ g[s \ {the(s)}] = h[s \ {the(s)}]
    OBVIOUS
  <2>3. h[s] = IF s = {} THEN 0 ELSE h[s \ {the(s)}] + f[the(s)]
    BY <1>2, <2>1, Zenon DEF Adds
  <2> HIDE DEF g, the
  <2>4. QED
    BY <2>2, <2>3
<1>4. g = [s \in SUBSET D |-> IF s = {} THEN 0 ELSE g[s \ {the(s)}] + f[the(s)]]
  <2>1. g = [s \in SUBSET D |-> g[s]]
    OBVIOUS
  <2> HIDE DEF g
  <2>2. QED
    BY <1>3, <2>1, Zenon
<1>5. Totals(f) = [s \in SUBSET D |-> IF s = {} THEN 0
                                      ELSE Totals(f)[s \ {the(s)}] + f[the(s)]]
  <2> HIDE DEF g
  <2>1. QED
    BY <1>4, Zenon DEF Totals
<1>6. Totals(f)[{}] = 0
  <2>1. {} \in SUBSET D
    OBVIOUS
  <2>2. QED
    BY <1>5, <2>1, Zenon
<1>7. ASSUME NEW s \in SUBSET D, s # {}
      PROVE  \E x \in s : Totals(f)[s] = Totals(f)[s \ {x}] + f[x]
  <2>1. the(s) \in s
    BY <1>7
  <2>2. Totals(f)[s] = Totals(f)[s \ {the(s)}] + f[the(s)]
    BY <1>5, <1>7, Zenon
  <2> HIDE DEF the
  <2>3. QED
    BY <2>1, <2>2
<1>8. QED
  BY <1>6, <1>7

\* A sum of numbers of members is the number of all of them.
Belonging(g, s, D) == {p \in s \X D : p[2] \in g[p[1]]}

LEMMA SumCounts ==
  ASSUME NEW S, IsFiniteSet(S), NEW D, IsFiniteSet(D), NEW g, \A x \in S : g[x] \subseteq D,
         NEW f, DOMAIN f = S, \A x \in S : f[x] = Cardinality(g[x])
  PROVE  SumOf(f) = Cardinality(Belonging(g, S, D))
<1> DEFINE t == Totals(f)
           Good(s) == IsFiniteSet(Belonging(g, s, D)) /\ t[s] = Cardinality(Belonging(g, s, D))
           N == {m \in Nat : \A s \in SUBSET S : Cardinality(s) = m => Good(s)}
           n == Cardinality(S)
<1>1. /\ t[{}] = 0
      /\ \A s \in SUBSET S : s # {} => \E x \in s : t[s] = t[s \ {x}] + f[x]
  BY TotalsUnfold
<1>2. \A s \in SUBSET S : IsFiniteSet(s) /\ Cardinality(s) \in Nat /\ Cardinality(s) <= n
  BY FS_Subset, FS_CardinalityType
<1>3. 0 \in N
  <2>1. ASSUME NEW s \in SUBSET S, Cardinality(s) = 0 PROVE Good(s)
    <3>1. s = {}
      BY <1>2, <2>1, FS_EmptySet
    <3>2. Belonging(g, s, D) = {}
      BY <3>1 DEF Belonging
    <3>3. QED
      BY <1>1, <3>1, <3>2, FS_EmptySet
  <2> HIDE DEF Good
  <2>2. QED
    BY <2>1
<1>4. ASSUME NEW m \in 1..n, m - 1 \in N PROVE m \in N
  <2>1. ASSUME NEW s \in SUBSET S, Cardinality(s) = m PROVE Good(s)
    <3>1. s # {}
      BY <2>1, FS_EmptySet
    <3>2. PICK x \in s : t[s] = t[s \ {x}] + f[x]
      BY <1>1, <3>1
    <3> DEFINE r == s \ {x}
               A == Belonging(g, r, D)
               B == {x} \X g[x]
    <3>3. r \in SUBSET S /\ Cardinality(r) = m - 1
      BY <1>2, <2>1, OneLess
    <3>4. Good(r)
      <4> HIDE DEF Good
      <4>1. QED
        BY <1>4, <3>3
    <3>5. IsFiniteSet(g[x]) /\ Cardinality(g[x]) \in Nat /\ f[x] = Cardinality(g[x])
      BY FS_Subset, FS_CardinalityType
    <3>6. IsFiniteSet(B) /\ Cardinality(B) = Cardinality(g[x])
      <4>1. IsFiniteSet({x}) /\ Cardinality({x}) = 1
        BY FS_Singleton
      <4>2. IsFiniteSet({x} \X g[x]) /\ Cardinality({x} \X g[x]) = 1 * Cardinality(g[x])
        BY <3>5, <4>1, FS_Product
      <4>3. QED
        BY <3>5, <4>2
    <3>7. Belonging(g, s, D) = A \cup B /\ A \cap B = {}
      BY DEF Belonging
    <3>8. IsFiniteSet(A) /\ t[r] = Cardinality(A) /\ Cardinality(A) \in Nat
      BY <3>4, FS_CardinalityType
    <3> HIDE DEF A, B, r, t
    <3>9. /\ IsFiniteSet(A \cup B)
          /\ Cardinality(A \cup B) = Cardinality(A) + Cardinality(B) - Cardinality(A \cap B)
      BY <3>6, <3>8, FS_Union
    <3>10. Cardinality(A \cap B) = 0
      BY <3>7, FS_EmptySet
    <3>11. t[s] = Cardinality(A) + Cardinality(g[x])
      BY <3>2, <3>5, <3>8 DEF r
    <3>12. QED
      BY <3>5, <3>6, <3>7, <3>8, <3>9, <3>10, <3>11
  <2> HIDE DEF Good
  <2>2. QED
    BY <2>1
<1>5. 0..n \subseteq N
  <2>1. n \in Nat
    BY FS_CardinalityType
  <2> HIDE DEF N
  <2>2. QED
    BY <1>3, <1>4, <2>1, Upward
<1>6. n \in N
  <2>1. n \in Nat
    BY FS_CardinalityType
  <2>2. QED
    BY <1>5, <2>1
<1>7. Good(S)
  <2> HIDE DEF Good
  <2>1. QED
    BY <1>6
<1>8. QED
  BY <1>7, SumIsTotal
-----------------------------------------------------------------------------
(* Induction over a finite set, for a set of its parts. *)

LEMMA SetInduction ==
  ASSUME NEW S, IsFiniteSet(S), NEW P, {} \in P,
         \A s \in SUBSET S : \A x \in S \ s : s \in P => s \cup {x} \in P
  PROVE  S \in P
<1> DEFINE N == {m \in Nat : \A s \in SUBSET S : Cardinality(s) = m => s \in P}
           n == Cardinality(S)
<1>1. \A s \in SUBSET S : IsFiniteSet(s) /\ Cardinality(s) \in Nat
  BY FS_Subset, FS_CardinalityType
<1>2. 0 \in N
  <2>1. ASSUME NEW s \in SUBSET S, Cardinality(s) = 0 PROVE s \in P
    <3>1. s = {}
      BY <1>1, <2>1, FS_EmptySet
    <3>2. QED
      BY <3>1
  <2>2. QED
    BY <2>1
<1>3. ASSUME NEW m \in 1..n, m - 1 \in N PROVE m \in N
  <2>1. ASSUME NEW s \in SUBSET S, Cardinality(s) = m PROVE s \in P
    <3>1. s # {}
      <4>1. Cardinality({}) = 0 /\ m # 0
        BY FS_EmptySet
      <4>2. QED
        BY <2>1, <4>1
    <3>2. PICK x \in s : TRUE
      BY <3>1
    <3>3. s \ {x} \in SUBSET S /\ Cardinality(s \ {x}) = m - 1
      BY <1>1, <2>1, OneLess
    <3>4. s \ {x} \in P
      BY <1>3, <3>3
    <3>5. s = (s \ {x}) \cup {x} /\ x \in S \ (s \ {x})
      OBVIOUS
    <3>6. QED
      BY <3>3, <3>4, <3>5
  <2>2. QED
    BY <2>1
<1>4. n \in Nat
  BY <1>1
<1>5. 0..n \subseteq N
  <2> HIDE DEF N, n
  <2>1. QED
    BY <1>2, <1>3, <1>4, Upward
<1>6. QED
  BY <1>4, <1>5

-----------------------------------------------------------------------------
(* Sums member by member. *)

\* A total does not depend on the order in which members are taken.
LEMMA TotalWithout ==
  ASSUME NEW f, IsFiniteSet(DOMAIN f), \A x \in DOMAIN f : f[x] \in Int
  PROVE  \A s \in SUBSET DOMAIN f :
           Totals(f)[s] \in Int /\ \A x \in s : Totals(f)[s] = Totals(f)[s \ {x}] + f[x]
<1> DEFINE D == DOMAIN f
           t == Totals(f)
           Good(s) == t[s] \in Int /\ \A x \in s : t[s] = t[s \ {x}] + f[x]
           N == {m \in Nat : \A s \in SUBSET D : Cardinality(s) <= m => Good(s)}
           n == Cardinality(D)
<1>1. t[{}] = 0 /\ \A s \in SUBSET D : s # {} => \E x \in s : t[s] = t[s \ {x}] + f[x]
  BY TotalsUnfold
<1>2. \A s \in SUBSET D : IsFiniteSet(s) /\ Cardinality(s) \in Nat /\ Cardinality(s) <= n
  BY FS_Subset, FS_CardinalityType
<1>3. 0 \in N
  <2>1. ASSUME NEW s \in SUBSET D, Cardinality(s) <= 0 PROVE Good(s)
    <3>1. Cardinality(s) = 0
      BY <1>2, <2>1
    <3>2. s = {}
      BY <1>2, <3>1, FS_EmptySet
    <3>3. QED
      BY <1>1, <3>2
  <2> HIDE DEF Good
  <2>2. QED
    BY <2>1
<1>4. ASSUME NEW m \in 1..n, m - 1 \in N PROVE m \in N
  <2>1. ASSUME NEW s \in SUBSET D, Cardinality(s) <= m, s # {} PROVE Good(s)
    <3>1. PICK y \in s : t[s] = t[s \ {y}] + f[y]
      BY <1>1, <2>1
    <3>2. ASSUME NEW x \in s PROVE s \ {x} \in SUBSET D /\ Good(s \ {x})
      <4>1. Cardinality(s \ {x}) = Cardinality(s) - 1
        BY <1>2, OneLess
      <4>2. Cardinality(s \ {x}) <= m - 1 /\ s \ {x} \in SUBSET D
        BY <1>2, <2>1, <4>1
      <4> HIDE DEF Good
      <4>3. QED
        BY <1>4, <4>2
    <3>3. ASSUME NEW x \in s PROVE t[s] = t[s \ {x}] + f[x]
      <4>1. CASE x = y
        BY <3>1, <4>1
      <4>2. CASE x # y
        <5> DEFINE r == (s \ {x}) \ {y}
        <5>1. (s \ {y}) \ {x} = r /\ r \in SUBSET D
          OBVIOUS
        <5>2. t[s \ {y}] = t[r] + f[x] /\ t[s \ {x}] = t[r] + f[y]
          BY <3>2, <4>2, <5>1
        <5>3. t[r] \in Int
          <6>1. Cardinality(r) <= m - 1
            <7>1. Cardinality(s \ {x}) = Cardinality(s) - 1 /\ IsFiniteSet(s \ {x}) /\ y \in s \ {x}
              BY <1>2, <4>2, OneLess
            <7>2. Cardinality(r) = Cardinality(s \ {x}) - 1
              BY <7>1, OneLess
            <7>3. QED
              BY <1>2, <2>1, <7>1, <7>2
          <6>2. Good(r)
            <7> HIDE DEF Good
            <7>1. QED
              BY <1>4, <5>1, <6>1
          <6>3. QED
            BY <6>2
        <5>4. f[x] \in Int /\ f[y] \in Int
          OBVIOUS
        <5> HIDE DEF t, r, Good, N
        <5>5. QED
          BY <3>1, <5>2, <5>3, <5>4
      <4>3. QED
        BY <4>1, <4>2
    <3>4. t[s \ {y}] \in Int /\ f[y] \in Int
      BY <3>2
    <3>5. t[s] \in Int
      <4> HIDE DEF t
      <4>1. QED
        BY <3>1, <3>4
    <3>6. QED
      BY <3>3, <3>5
  <2>2. Good({})
    BY <1>1
  <2> HIDE DEF Good
  <2>3. QED
    BY <2>1, <2>2
<1>5. n \in Nat
  BY FS_CardinalityType
<1>6. 0..n \subseteq N
  <2> HIDE DEF N, n
  <2>1. QED
    BY <1>3, <1>4, <1>5, Upward
<1>7. QED
  <2>1. \A s \in SUBSET D : Good(s)
    <3> HIDE DEF Good
    <3>1. QED
      BY <1>2, <1>5, <1>6
  <2>2. QED
    BY <2>1

\* The total over a part depends on the values there alone.
LEMMA TotalAgrees ==
  ASSUME NEW f, IsFiniteSet(DOMAIN f), \A x \in DOMAIN f : f[x] \in Int,
         NEW g, IsFiniteSet(DOMAIN g), \A x \in DOMAIN g : g[x] \in Int,
         NEW S \in SUBSET (DOMAIN f \cap DOMAIN g), \A x \in S : f[x] = g[x]
  PROVE  Totals(f)[S] = Totals(g)[S]
<1> DEFINE P == {s \in SUBSET S : Totals(f)[s] = Totals(g)[s]}
<1>1. IsFiniteSet(S)
  BY FS_Subset
<1>2. {} \in P
  BY TotalsUnfold
<1>3. ASSUME NEW s \in SUBSET S, NEW x \in S \ s, s \in P PROVE s \cup {x} \in P
  <2>1. s \cup {x} \in SUBSET DOMAIN f /\ s \cup {x} \in SUBSET DOMAIN g /\ (s \cup {x}) \ {x} = s
    OBVIOUS
  <2>2. Totals(f)[s \cup {x}] = Totals(f)[s] + f[x]
    BY <2>1, TotalWithout
  <2>3. Totals(g)[s \cup {x}] = Totals(g)[s] + g[x]
    BY <2>1, TotalWithout
  <2>4. QED
    BY <1>3, <2>2, <2>3
<1>4. S \in P
  <2> HIDE DEF P
  <2>1. QED
    BY <1>1, <1>2, <1>3, SetInduction
<1>5. QED
  BY <1>4

\* The sum of the values of f over a set.
Over(f, S) == SumOf([x \in S |-> f[x]])

LEMMA OverEmpty == ASSUME NEW f PROVE Over(f, {}) = 0
<1> DEFINE e == [x \in {} |-> f[x]]
<1>1. DOMAIN e = {} /\ IsFiniteSet({})
  BY FS_EmptySet
<1> HIDE DEF e
<1>2. SumOf(e) = 0
  BY <1>1, SumIsTotal, TotalsUnfold
<1>3. QED
  BY <1>2 DEF Over, e

LEMMA OverAdd ==
  ASSUME NEW S, IsFiniteSet(S), NEW x, x \notin S, NEW f, \A y \in S \cup {x} : f[y] \in Int
  PROVE  Over(f, S) \in Int /\ Over(f, S \cup {x}) = Over(f, S) + f[x]
<1> DEFINE T == S \cup {x}
           g == [y \in S |-> f[y]]
           h == [y \in T |-> f[y]]
<1>1. IsFiniteSet(T)
  BY FS_AddElement
<1>2. /\ DOMAIN g = S /\ (\A y \in S : g[y] = f[y])
      /\ DOMAIN h = T /\ (\A y \in T : h[y] = f[y])
  OBVIOUS
<1>3. Over(f, S) = SumOf(g) /\ Over(f, T) = SumOf(h)
  BY DEF Over
<1> HIDE DEF g, h
<1>4. SumOf(g) = Totals(g)[S] /\ SumOf(h) = Totals(h)[T]
  BY <1>2, SumIsTotal
<1>5. Totals(g)[S] \in Int
  BY <1>2, TotalWithout
<1>6. Totals(h)[T] = Totals(h)[S] + h[x]
  <2>1. T \ {x} = S /\ x \in T /\ T \in SUBSET T
    OBVIOUS
  <2>2. \A y \in T : h[y] \in Int
    BY <1>2
  <2> HIDE DEF T
  <2>3. \A s \in SUBSET T : \A y \in s : Totals(h)[s] = Totals(h)[s \ {y}] + h[y]
    <3>1. IsFiniteSet(DOMAIN h) /\ \A y \in DOMAIN h : h[y] \in Int
      BY <1>1, <1>2, <2>2
    <3>2. QED
      BY <1>2, <3>1, TotalWithout
  <2>4. QED
    BY <2>1, <2>3
<1>7. Totals(g)[S] = Totals(h)[S]
  <2>1. S \in SUBSET (DOMAIN g \cap DOMAIN h)
    BY <1>2
  <2>2. (\A y \in DOMAIN g : g[y] \in Int) /\ (\A y \in DOMAIN h : h[y] \in Int)
    BY <1>2
  <2>3. \A y \in S : g[y] = h[y]
    BY <1>2
  <2> HIDE DEF T
  <2>4. QED
    BY <1>1, <1>2, <2>1, <2>2, <2>3, TotalAgrees
<1>8. h[x] = f[x]
  BY <1>2
<1>9. QED
  BY <1>3, <1>4, <1>5, <1>6, <1>7, <1>8

LEMMA OverInt ==
  ASSUME NEW S, IsFiniteSet(S), NEW f, \A y \in S : f[y] \in Int
  PROVE  Over(f, S) \in Int
<1> DEFINE P == {s \in SUBSET S : Over(f, s) \in Int}
<1>1. {} \in P
  BY OverEmpty
<1>2. ASSUME NEW s \in SUBSET S, NEW x \in S \ s, s \in P PROVE s \cup {x} \in P
  <2>1. IsFiniteSet(s)
    BY FS_Subset
  <2>2. Over(f, s \cup {x}) = Over(f, s) + f[x] /\ f[x] \in Int
    BY <2>1, OverAdd
  <2>3. QED
    BY <1>2, <2>2
<1>3. S \in P
  <2> HIDE DEF P
  <2>1. QED
    BY <1>1, <1>2, SetInduction
<1>4. QED
  BY <1>3
-----------------------------------------------------------------------------
(* Sums of sums. *)

LEMMA OverSame ==
  ASSUME NEW S, NEW f, NEW g, \A x \in S : f[x] = g[x]
  PROVE  Over(f, S) = Over(g, S)
<1>1. [x \in S |-> f[x]] = [x \in S |-> g[x]]
  OBVIOUS
<1>2. QED
  BY <1>1, Zenon DEF Over

LEMMA OverOne ==
  ASSUME NEW x, NEW f, f[x] \in Int
  PROVE  Over(f, {x}) = f[x]
<1>1. IsFiniteSet({}) /\ x \notin {} /\ {} \cup {x} = {x}
  BY FS_EmptySet
<1>2. Over(f, {} \cup {x}) = Over(f, {}) + f[x]
  BY <1>1, OverAdd
<1>3. QED
  BY <1>1, <1>2, OverEmpty

LEMMA OverPlus ==
  ASSUME NEW S, IsFiniteSet(S), NEW f, NEW g, NEW h,
         \A x \in S : f[x] \in Int /\ g[x] \in Int /\ h[x] = f[x] + g[x]
  PROVE  Over(h, S) = Over(f, S) + Over(g, S)
<1> DEFINE P == {s \in SUBSET S : Over(h, s) = Over(f, s) + Over(g, s)}
<1>1. {} \in P
  BY OverEmpty
<1>2. ASSUME NEW s \in SUBSET S, NEW x \in S \ s, s \in P PROVE s \cup {x} \in P
  <2>1. IsFiniteSet(s) /\ x \notin s
    BY FS_Subset
  <2>2. \A y \in s \cup {x} : f[y] \in Int /\ g[y] \in Int /\ h[y] \in Int
    OBVIOUS
  <2>3. Over(f, s \cup {x}) = Over(f, s) + f[x] /\ Over(f, s) \in Int
    BY <2>1, <2>2, OverAdd
  <2>4. Over(g, s \cup {x}) = Over(g, s) + g[x] /\ Over(g, s) \in Int
    BY <2>1, <2>2, OverAdd
  <2>5. Over(h, s \cup {x}) = Over(h, s) + h[x] /\ Over(h, s) \in Int
    BY <2>1, <2>2, OverAdd
  <2>6. h[x] = f[x] + g[x] /\ f[x] \in Int /\ g[x] \in Int
    OBVIOUS
  <2>7. Over(h, s) = Over(f, s) + Over(g, s)
    BY <1>2
  <2>8. Over(h, s \cup {x}) = Over(f, s \cup {x}) + Over(g, s \cup {x})
    BY <2>3, <2>4, <2>5, <2>6, <2>7
  <2>9. QED
    BY <2>8
<1>3. S \in P
  <2> HIDE DEF P
  <2>1. QED
    BY <1>1, <1>2, SetInduction
<1>4. QED
  BY <1>3

LEMMA Distributes ==
  ASSUME NEW a \in Int, NEW b \in Int, NEW c \in Int
  PROVE  a * (b + c) = a * b + a * c /\ a * b \in Int /\ a * c \in Int
OBVIOUS

LEMMA OverTimes ==
  ASSUME NEW S, IsFiniteSet(S), NEW f, NEW k \in Int, NEW h,
         \A x \in S : f[x] \in Int /\ h[x] = k * f[x]
  PROVE  Over(h, S) = k * Over(f, S)
<1> DEFINE P == {s \in SUBSET S : Over(h, s) = k * Over(f, s)}
<1>1. {} \in P
  BY OverEmpty
<1>2. ASSUME NEW s \in SUBSET S, NEW x \in S \ s, s \in P PROVE s \cup {x} \in P
  <2>1. IsFiniteSet(s) /\ x \notin s
    BY FS_Subset
  <2>2. \A y \in s \cup {x} : f[y] \in Int /\ h[y] \in Int
    BY Distributes
  <2>3. Over(f, s \cup {x}) = Over(f, s) + f[x] /\ Over(f, s) \in Int /\ f[x] \in Int
    BY <2>1, <2>2, OverAdd
  <2>4. Over(h, s \cup {x}) = Over(h, s) + h[x]
    BY <2>1, <2>2, OverAdd
  <2>5. k * Over(f, s \cup {x}) = k * Over(f, s) + k * f[x]
    BY <2>3, Distributes
  <2>6. Over(h, s) = k * Over(f, s) /\ h[x] = k * f[x]
    BY <1>2
  <2>7. Over(h, s \cup {x}) = k * Over(f, s \cup {x})
    BY <2>4, <2>5, <2>6
  <2>8. QED
    BY <2>7
<1>3. S \in P
  <2> HIDE DEF P
  <2>1. QED
    BY <1>1, <1>2, SetInduction
<1>4. QED
  BY <1>3

LEMMA OverMinus ==
  ASSUME NEW S, IsFiniteSet(S), NEW f, NEW g, NEW h,
         \A x \in S : f[x] \in Int /\ g[x] \in Int /\ h[x] = f[x] - g[x]
  PROVE  Over(h, S) = Over(f, S) - Over(g, S)
<1>1. \A x \in S : h[x] \in Int /\ g[x] \in Int /\ f[x] = h[x] + g[x]
  OBVIOUS
<1>2. Over(f, S) = Over(h, S) + Over(g, S)
  BY <1>1, OverPlus
<1>3. Over(f, S) \in Int /\ Over(g, S) \in Int /\ Over(h, S) \in Int
  BY <1>1, OverInt
<1>4. QED
  BY <1>2, <1>3

LEMMA OverUnion ==
  ASSUME NEW S, IsFiniteSet(S), NEW T, IsFiniteSet(T), S \cap T = {},
         NEW f, \A x \in S \cup T : f[x] \in Int
  PROVE  Over(f, S \cup T) = Over(f, S) + Over(f, T)
<1> DEFINE P == {t \in SUBSET T : Over(f, S \cup t) = Over(f, S) + Over(f, t)}
<1>1. Over(f, S) \in Int
  BY OverInt
<1>2. {} \in P
  <2>1. S \cup {} = S /\ {} \in SUBSET T
    OBVIOUS
  <2>2. QED
    BY <1>1, <2>1, OverEmpty
<1>3. ASSUME NEW t \in SUBSET T, NEW x \in T \ t, t \in P PROVE t \cup {x} \in P
  <2>1. IsFiniteSet(t) /\ x \notin t /\ x \notin S \cup t /\ S \cup (t \cup {x}) = (S \cup t) \cup {x}
    BY FS_Subset
  <2>2. IsFiniteSet(S \cup t)
    BY <2>1, FS_Union
  <2>3. \A y \in (S \cup t) \cup {x} : f[y] \in Int
    OBVIOUS
  <2>4. Over(f, (S \cup t) \cup {x}) = Over(f, S \cup t) + f[x]
    BY <2>1, <2>2, <2>3, OverAdd
  <2>5. Over(f, t \cup {x}) = Over(f, t) + f[x] /\ Over(f, t) \in Int /\ f[x] \in Int
    BY <2>1, <2>3, OverAdd
  <2>6. Over(f, S \cup t) = Over(f, S) + Over(f, t)
    BY <1>3
  <2>7. Over(f, S \cup (t \cup {x})) = Over(f, S) + Over(f, t \cup {x})
    <3> DEFINE all == Over(f, S \cup (t \cup {x}))
               some == Over(f, t \cup {x})
    <3>1. all = Over(f, S \cup t) + f[x] /\ some = Over(f, t) + f[x]
      BY <2>1, <2>4, <2>5
    <3> HIDE DEF all, some, P
    <3>2. all = Over(f, S) + some
      BY <1>1, <2>5, <2>6, <3>1
    <3>3. QED
      BY <3>2 DEF all, some
  <2>8. QED
    BY <2>7
<1>4. T \in P
  <2> HIDE DEF P
  <2>1. QED
    BY <1>2, <1>3, SetInduction
<1>5. QED
  BY <1>4

\* Members that add nothing can be left out.
LEMMA OverPart ==
  ASSUME NEW S, IsFiniteSet(S), NEW T \in SUBSET S,
         NEW f, \A x \in S : f[x] \in Int, \A x \in S \ T : f[x] = 0
  PROVE  Over(f, T) = Over(f, S)
<1> DEFINE R == S \ T
<1>1. IsFiniteSet(T) /\ IsFiniteSet(R) /\ T \cap R = {} /\ T \cup R = S
  BY FS_Subset
<1>2. Over(f, S) = Over(f, T) + Over(f, R)
  <2>1. Over(f, T \cup R) = Over(f, T) + Over(f, R)
    <3> HIDE DEF R
    <3>1. QED
      BY <1>1, OverUnion
  <2>2. QED
    BY <1>1, <2>1
<1>3. Over(f, R) = 0
  <2> DEFINE P == {r \in SUBSET R : Over(f, r) = 0}
  <2>1. {} \in P
    BY OverEmpty
  <2>2. ASSUME NEW r \in SUBSET R, NEW x \in R \ r, r \in P PROVE r \cup {x} \in P
    <3>1. IsFiniteSet(r) /\ x \notin r /\ \A y \in r \cup {x} : f[y] \in Int
      BY <1>1, FS_Subset
    <3>2. Over(f, r \cup {x}) = Over(f, r) + f[x] /\ f[x] = 0
      BY <3>1, OverAdd
    <3>3. QED
      BY <2>2, <3>2
  <2>3. R \in P
    <3> HIDE DEF P, R
    <3>1. QED
      BY <1>1, <2>1, <2>2, SetInduction
  <2>4. QED
    BY <2>3
<1>4. Over(f, T) \in Int
  BY <1>1, OverInt
<1>5. QED
  BY <1>2, <1>3, <1>4
\* The members of S that h takes to c.
Fiber(S, h, c) == {x \in S : h[x] = c}

\* A sum group by group, for groups of members told apart by h.
LEMMA OverFibers ==
  ASSUME NEW S, IsFiniteSet(S), NEW K, IsFiniteSet(K), NEW h, \A x \in S : h[x] \in K,
         NEW f, \A x \in S : f[x] \in Int,
         NEW F, \A c \in K : F[c] = Over(f, Fiber(S, h, c))
  PROVE  Over(f, S) = Over(F, K)
<1> DEFINE Of(k) == {x \in S : h[x] \in k}
           P == {k \in SUBSET K : Over(f, Of(k)) = Over(F, k)}
<1>1. ASSUME NEW c \in K
      PROVE  IsFiniteSet(Fiber(S, h, c)) /\ F[c] \in Int
  <2>1. Fiber(S, h, c) \subseteq S
    BY DEF Fiber
  <2>2. IsFiniteSet(Fiber(S, h, c))
    BY <2>1, FS_Subset
  <2>3. Over(f, Fiber(S, h, c)) \in Int
    BY <2>1, <2>2, OverInt
  <2>4. QED
    BY <2>2, <2>3
<1>2. {} \in P
  <2>1. Of({}) = {}
    OBVIOUS
  <2>2. QED
    BY <2>1, OverEmpty
<1>3. ASSUME NEW k \in SUBSET K, NEW c \in K \ k, k \in P PROVE k \cup {c} \in P
  <2> DEFINE A == Of(k)
             B == Fiber(S, h, c)
  <2>1. Of(k \cup {c}) = A \cup B /\ A \cap B = {} /\ A \subseteq S /\ B \subseteq S
    BY DEF Fiber
  <2>2. IsFiniteSet(A) /\ IsFiniteSet(B) /\ IsFiniteSet(k)
    BY <2>1, FS_Subset
  <2>3. Over(f, A \cup B) = Over(f, A) + Over(f, B)
    <3>1. \A x \in A \cup B : f[x] \in Int
      BY DEF Fiber
    <3> HIDE DEF A, B
    <3>2. QED
      BY <2>1, <2>2, <3>1, OverUnion
  <2>4. Over(F, k \cup {c}) = Over(F, k) + F[c]
    <3>1. \A d \in k \cup {c} : F[d] \in Int
      BY <1>1
    <3>2. QED
      BY <2>2, <3>1, OverAdd
  <2>5. Over(f, A) = Over(F, k) /\ Over(f, B) = F[c]
    BY <1>3
  <2> HIDE DEF A, B, Of
  <2>6. Over(f, Of(k \cup {c})) = Over(F, k \cup {c})
    BY <2>1, <2>3, <2>4, <2>5
  <2>7. QED
    BY <2>6
<1>4. K \in P
  <2> HIDE DEF P
  <2>1. QED
    BY <1>2, <1>3, SetInduction
<1>5. Of(K) = S
  OBVIOUS
<1>6. QED
  BY <1>4, <1>5

\* A sum over members under other names.
LEMMA OverRenamed ==
  ASSUME NEW S, IsFiniteSet(S), NEW T, IsFiniteSet(T), NEW f, \A x \in S : f[x] \in Int,
         NEW there, \A x \in S : there[x] \in T,
         NEW back, \A y \in T : back[y] \in S /\ there[back[y]] = y,
         \A x \in S : back[there[x]] = x,
         NEW g, \A y \in T : g[y] = f[back[y]]
  PROVE  Over(f, S) = Over(g, T)
<1>1. ASSUME NEW y \in T PROVE g[y] = Over(f, Fiber(S, there, y))
  <2>1. Fiber(S, there, y) = {back[y]}
    BY DEF Fiber
  <2>2. Over(f, {back[y]}) = f[back[y]]
    BY OverOne
  <2>3. QED
    BY <2>1, <2>2
<1>2. QED
  BY <1>1, OverFibers

\* A sum over pairs, and sums of sums.
AllPairs(S, T) == S \X T
At(f, x, y) == f[<<x, y>>]

LEMMA PairsFacts ==
  ASSUME NEW S, NEW T
  PROVE  /\ \A x \in S : \A y \in T : <<x, y>> \in AllPairs(S, T)
         /\ \A p \in AllPairs(S, T) : p[1] \in S /\ p[2] \in T /\ p = <<p[1], p[2]>>
         /\ IsFiniteSet(S) /\ IsFiniteSet(T) => IsFiniteSet(AllPairs(S, T))
<1>1. IsFiniteSet(S) /\ IsFiniteSet(T) => IsFiniteSet(S \X T)
  BY FS_Product
<1>2. QED
  BY <1>1 DEF AllPairs

LEMMA PairIn ==
  ASSUME NEW S, NEW T, NEW p, p = <<p[1], p[2]>>, p[1] \in S, p[2] \in T
  PROVE  p \in AllPairs(S, T)
<1>1. <<p[1], p[2]>> \in AllPairs(S, T)
  BY PairsFacts
<1>2. QED
  BY <1>1

LEMMA ImageFacts ==
  ASSUME NEW S, IsFiniteSet(S), NEW f
  PROVE  IsFiniteSet({f[x] : x \in S}) /\ Cardinality({f[x] : x \in S}) <= Cardinality(S)
<1> DEFINE T == {f[x] : x \in S}
           g == [x \in S |-> f[x]]
<1>1. g \in Surjection(S, T)
  BY DEF Surjection
<1>2. QED
  BY <1>1, FS_Surjection

LEMMA PairsInt ==
  ASSUME NEW S, NEW T, NEW f, \A x \in S : \A y \in T : At(f, x, y) \in Int
  PROVE  \A p \in AllPairs(S, T) : f[p] \in Int
<1>1. ASSUME NEW p \in AllPairs(S, T) PROVE f[p] \in Int
  <2>1. p[1] \in S /\ p[2] \in T /\ p = <<p[1], p[2]>>
    BY PairsFacts
  <2>2. At(f, p[1], p[2]) \in Int
    BY <2>1
  <2>3. QED
    BY <2>1, <2>2, Zenon DEF At
<1>2. QED
  BY <1>1

LEMMA OverPairs ==
  ASSUME NEW S, IsFiniteSet(S), NEW T, IsFiniteSet(T),
         NEW f, NEW row, \A x \in S : \A y \in T : At(f, x, y) \in Int /\ row[x][y] = At(f, x, y),
         NEW F, \A x \in S : F[x] = Over(row[x], T)
  PROVE  Over(f, AllPairs(S, T)) = Over(F, S)
<1> DEFINE D == AllPairs(S, T)
           h == [p \in D |-> p[1]]
<1>1. IsFiniteSet(D)
  BY PairsFacts
<1>2. \A p \in D : f[p] \in Int
  BY PairsInt
<1>3. \A p \in D : h[p] \in S
  BY PairsFacts
<1>4. ASSUME NEW x \in S PROVE F[x] = Over(f, Fiber(D, h, x))
  <2> DEFINE A == Fiber(D, h, x)
             there == [p \in A |-> p[2]]
             back == [y \in T |-> <<x, y>>]
  <2>1. A \subseteq D /\ (\A p \in A : p = <<x, p[2]>> /\ p[2] \in T) /\ \A y \in T : <<x, y>> \in A
    BY DEF Fiber, AllPairs
  <2>2. IsFiniteSet(A) /\ \A p \in A : f[p] \in Int
    BY <1>1, <1>2, <2>1, FS_Subset
  <2> HIDE DEF A
  <2>3. \A p \in A : there[p] \in T /\ back[there[p]] = p
    BY <2>1
  <2>4. \A y \in T : back[y] \in A /\ there[back[y]] = y
    BY <2>1
  <2>5. ASSUME NEW y \in T PROVE row[x][y] = f[back[y]]
    <3>1. back[y] = <<x, y>>
      OBVIOUS
    <3>2. row[x][y] = At(f, x, y)
      OBVIOUS
    <3>3. QED
      BY <3>1, <3>2, Zenon DEF At
  <2> HIDE DEF there, back
  <2>6. Over(f, A) = Over(row[x], T)
    BY <2>2, <2>3, <2>4, <2>5, OverRenamed
  <2>7. QED
    BY <2>6 DEF A
<1> HIDE DEF h, D
<1>5. Over(f, D) = Over(F, S)
  BY <1>1, <1>2, <1>3, <1>4, OverFibers
<1>6. QED
  BY <1>5 DEF D

LEMMA SumOfSums ==
  ASSUME NEW S, IsFiniteSet(S), NEW T, IsFiniteSet(T),
         NEW f, \A x \in S : \A y \in T : At(f, x, y) \in Int
  PROVE  SumOf([x \in S |-> SumOf([y \in T |-> f[<<x, y>>]])]) = Over(f, AllPairs(S, T))
<1> DEFINE row == [x \in S |-> [y \in T |-> At(f, x, y)]]
           F == [x \in S |-> Over(row[x], T)]
<1>1. \A x \in S : \A y \in T : At(f, x, y) \in Int /\ row[x][y] = At(f, x, y)
  OBVIOUS
<1>2. \A x \in S : F[x] = Over(row[x], T)
  OBVIOUS
<1>3. ASSUME NEW x \in S PROVE F[x] = SumOf([y \in T |-> f[<<x, y>>]])
  <2>1. [y \in T |-> row[x][y]] = [y \in T |-> At(f, x, y)]
    OBVIOUS
  <2>2. [y \in T |-> At(f, x, y)] = [y \in T |-> f[<<x, y>>]]
    BY Zenon DEF At
  <2>3. QED
    BY <2>1, <2>2, Zenon DEF Over
<1>4. [x \in S |-> F[x]] = [x \in S |-> SumOf([y \in T |-> f[<<x, y>>]])]
  BY <1>3, Zenon
<1> HIDE DEF row, F
<1>5. Over(f, AllPairs(S, T)) = Over(F, S)
  BY <1>1, <1>2, OverPairs
<1>6. QED
  BY <1>4, <1>5, Zenon DEF Over

\* The product of two sums.
LEMMA ProductOfSums ==
  ASSUME NEW S, IsFiniteSet(S), NEW T, IsFiniteSet(T),
         NEW d, \A u \in S \cup T : d[u] \in Int,
         NEW f, \A u \in S : \A v \in T : At(f, u, v) = d[u] * d[v]
  PROVE  /\ \A u \in S : \A v \in T : At(f, u, v) \in Int
         /\ Over(f, AllPairs(S, T)) = Over(d, S) * Over(d, T)
<1> DEFINE row == [u \in S |-> [v \in T |-> At(f, u, v)]]
           F == [u \in S |-> Over(row[u], T)]
           total == Over(d, T)
<1>1. ASSUME NEW u \in S, NEW v \in T PROVE At(f, u, v) \in Int /\ row[u][v] = At(f, u, v)
  <2>1. d[u] \in Int /\ d[v] \in Int /\ At(f, u, v) = d[u] * d[v]
    OBVIOUS
  <2>2. At(f, u, v) \in Int
    BY <2>1, Distributes
  <2>3. QED
    BY <2>2
<1>3. \A u \in S : F[u] = Over(row[u], T)
  OBVIOUS
<1>4. total \in Int
  BY OverInt
<1> HIDE DEF row, F, total
<1>5. Over(f, AllPairs(S, T)) = Over(F, S)
  BY <1>1, <1>3, OverPairs
<1>6. ASSUME NEW u \in S PROVE d[u] \in Int /\ F[u] = total * d[u]
  <2>1. d[u] \in Int /\ \A v \in T : d[v] \in Int /\ row[u][v] = d[u] * d[v]
    BY <1>1
  <2>2. Over(row[u], T) = d[u] * total
    BY <2>1, OverTimes DEF total
  <2>3. QED
    BY <1>3, <1>4, <2>1, <2>2
<1>7. Over(F, S) = total * Over(d, S)
  BY <1>4, <1>6, OverTimes
<1>8. Over(d, S) \in Int
  BY OverInt
<1>9. QED
  BY <1>1, <1>4, <1>5, <1>7, <1>8 DEF total
\* AllPairs met in the other order.
LEMMA OverSwapped ==
  ASSUME NEW S, IsFiniteSet(S), NEW T, IsFiniteSet(T), NEW f, NEW g,
         \A x \in S : \A y \in T : At(f, x, y) \in Int /\ At(g, y, x) = At(f, x, y)
  PROVE  Over(f, AllPairs(S, T)) = Over(g, AllPairs(T, S))
<1> DEFINE A == AllPairs(S, T)
           B == AllPairs(T, S)
           there == [p \in A |-> <<p[2], p[1]>>]
           back == [q \in B |-> <<q[2], q[1]>>]
<1>1. IsFiniteSet(A) /\ IsFiniteSet(B) /\ \A p \in A : f[p] \in Int
  BY PairsFacts, PairsInt
<1>2. ASSUME NEW p \in A PROVE there[p] \in B /\ back[there[p]] = p /\ f[p] = g[there[p]]
  <2>1. p[1] \in S /\ p[2] \in T /\ p = <<p[1], p[2]>>
    BY PairsFacts
  <2>2. there[p] = <<p[2], p[1]>>
    OBVIOUS
  <2>3. there[p] \in B
    BY <2>1, <2>2, PairsFacts
  <2>4. back[there[p]] = <<p[1], p[2]>>
    BY <2>2, <2>3
  <2>5. At(g, p[2], p[1]) = At(f, p[1], p[2])
    BY <2>1
  <2>6. f[p] = At(f, p[1], p[2])
    BY <2>1, Zenon DEF At
  <2>7. g[there[p]] = At(g, p[2], p[1])
    BY <2>2, Zenon DEF At
  <2>8. QED
    BY <2>1, <2>3, <2>4, <2>5, <2>6, <2>7
<1>3. ASSUME NEW q \in B PROVE back[q] \in A /\ there[back[q]] = q
  <2>1. q[1] \in T /\ q[2] \in S /\ q = <<q[1], q[2]>>
    BY PairsFacts
  <2>2. back[q] = <<q[2], q[1]>>
    OBVIOUS
  <2>3. back[q] \in A
    BY <2>1, <2>2, PairsFacts
  <2>4. there[back[q]] = <<q[1], q[2]>>
    BY <2>2, <2>3
  <2>5. QED
    BY <2>1, <2>3, <2>4
<1> HIDE DEF A, B, there, back
<1>4. ASSUME NEW q \in B PROVE g[q] = f[back[q]]
  <2>1. back[q] \in A /\ there[back[q]] = q
    BY <1>3
  <2>2. f[back[q]] = g[there[back[q]]]
    BY <1>2, <2>1
  <2>3. QED
    BY <2>1, <2>2
<1>5. Over(f, A) = Over(g, B)
  BY <1>1, <1>2, <1>3, <1>4, OverRenamed
<1>6. QED
  BY <1>5 DEF A, B

LEMMA OverNat ==
  ASSUME NEW S, IsFiniteSet(S), NEW f, \A x \in S : f[x] \in Nat
  PROVE  Over(f, S) \in Nat
<1> DEFINE P == {s \in SUBSET S : Over(f, s) \in Nat}
<1>1. {} \in P
  BY OverEmpty
<1>2. ASSUME NEW s \in SUBSET S, NEW x \in S \ s, s \in P PROVE s \cup {x} \in P
  <2>1. IsFiniteSet(s) /\ x \notin s /\ \A y \in s \cup {x} : f[y] \in Int
    BY FS_Subset
  <2>2. Over(f, s) \in Nat /\ f[x] \in Nat
    BY <1>2
  <2> HIDE DEF P
  <2>3. Over(f, s \cup {x}) = Over(f, s) + f[x]
    BY <2>1, OverAdd
  <2>4. Over(f, s \cup {x}) \in Nat
    BY <2>2, <2>3
  <2>5. QED
    BY <2>4 DEF P
<1>3. S \in P
  <2> HIDE DEF P
  <2>1. QED
    BY <1>1, <1>2, SetInduction
<1>4. QED
  BY <1>3
-----------------------------------------------------------------------------
(* Greatest values. *)

LEMMA GreatestValue ==
  ASSUME NEW S, IsFiniteSet(S), S # {}, NEW f, \A x \in S : f[x] \in Int
  PROVE  \E x \in S : \A y \in S : f[x] >= f[y]
<1> DEFINE P == {s \in SUBSET S : s # {} => \E x \in s : \A y \in s : f[x] >= f[y]}
<1>1. {} \in P
  OBVIOUS
<1>2. ASSUME NEW s \in SUBSET S, NEW x \in S \ s, s \in P PROVE s \cup {x} \in P
  <2>1. s = {} => s \cup {x} \in P
    OBVIOUS
  <2>2. ASSUME s # {} PROVE s \cup {x} \in P
    <3>1. PICK z \in s : \A y \in s : f[z] >= f[y]
      BY <1>2, <2>2
    <3>2. f[z] \in Int /\ f[x] \in Int /\ \A y \in s : f[y] \in Int
      OBVIOUS
    <3>3. CASE f[z] >= f[x]
      BY <3>1, <3>3
    <3>4. CASE f[x] > f[z]
      <4>1. \A y \in s \cup {x} : f[x] >= f[y]
        BY <3>1, <3>2, <3>4
      <4>2. QED
        BY <4>1
    <3>5. QED
      BY <3>2, <3>3, <3>4
  <2>3. QED
    BY <2>1, <2>2
<1>3. S \in P
  <2> HIDE DEF P
  <2>1. QED
    BY <1>1, <1>2, SetInduction
<1>4. QED
  BY <1>3

-----------------------------------------------------------------------------
(* Disjoint sets. *)

\* The set an element belongs to, as the set that has x and that nothing leads
\* out of, and that is the smallest of them.
Closed(S, parent) == \A y \in S : parent[y] \in S
Chain(parent, D, x) == {z \in D : \A S \in SUBSET D : x \in S /\ Closed(S, parent) => z \in S}

IsPath(path, parent) ==
  path = [y \in DOMAIN parent |-> IF parent[y] = y THEN {y} ELSE {y} \cup path[parent[y]]]

LEMMA PathExists ==
  ASSUME NEW D, NEW parent \in [D -> D]
  PROVE  \E path : IsPath(path, parent)
<1> DEFINE path == [y \in D |-> Chain(parent, D, y)]
<1>1. ASSUME NEW y \in D PROVE y \in Chain(parent, D, y)
  BY DEF Chain
<1>2. ASSUME NEW y \in D PROVE Closed(Chain(parent, D, y), parent)
  BY DEF Chain, Closed
<1>3. ASSUME NEW y \in D, NEW S \in SUBSET D, y \in S, Closed(S, parent) PROVE Chain(parent, D, y) \subseteq S
  BY <1>3 DEF Chain
<1>4. \A y \in D : Chain(parent, D, y) \in SUBSET D
  BY DEF Chain
<1>5. ASSUME NEW y \in D, parent[y] = y PROVE Chain(parent, D, y) = {y}
  <2>1. Closed({y}, parent)
    BY <1>5 DEF Closed
  <2>2. QED
    BY <1>1, <1>3, <2>1
<1>6. ASSUME NEW y \in D PROVE Chain(parent, D, y) = {y} \cup Chain(parent, D, parent[y])
  <2>1. parent[y] \in D
    OBVIOUS
  <2>2. Closed({y} \cup Chain(parent, D, parent[y]), parent)
    BY <1>1, <1>2, <2>1 DEF Closed
  <2>3. Chain(parent, D, y) \subseteq {y} \cup Chain(parent, D, parent[y])
    BY <1>3, <1>4, <2>1, <2>2
  <2>4. parent[y] \in Chain(parent, D, y)
    BY <1>1, <1>2 DEF Closed
  <2>5. Chain(parent, D, parent[y]) \subseteq Chain(parent, D, y)
    BY <1>2, <1>3, <1>4, <2>1, <2>4
  <2>6. QED
    BY <1>1, <2>3, <2>5
<1>7. \A y \in D : path[y] = IF parent[y] = y THEN {y} ELSE {y} \cup path[parent[y]]
  BY <1>5, <1>6
<1>8. path = [y \in D |-> path[y]] /\ DOMAIN parent = D
  OBVIOUS
<1> HIDE DEF path
<1>9. IsPath(path, parent)
  BY <1>7, <1>8 DEF IsPath
<1>10. QED
  BY <1>9

\* A forest over D: every element has a root, and is deeper than its parent.
Forest(parent, root, depth, D) ==
  /\ parent \in [D -> D] /\ root \in [D -> D] /\ depth \in [D -> Nat]
  /\ \A x \in D :
       /\ root[parent[x]] = root[x] /\ parent[root[x]] = root[x]
       /\ parent[x] = x => root[x] = x
       /\ parent[x] # x => depth[parent[x]] < depth[x]
       /\ root[x] # x => depth[root[x]] < depth[x]

LEMMA ForestFacts ==
  ASSUME NEW D, NEW parent, NEW root, NEW depth, Forest(parent, root, depth, D), NEW x \in D
  PROVE  /\ parent \in [D -> D] /\ parent[x] \in D /\ root[x] \in D /\ depth[x] \in Nat
         /\ root[parent[x]] = root[x] /\ root[root[x]] = root[x] /\ parent[root[x]] = root[x]
         /\ parent[x] = x <=> root[x] = x
         /\ parent[x] # x => depth[parent[x]] < depth[x]
         /\ root[x] # x => depth[root[x]] < depth[x]
BY DEF Forest

LEMMA WayFacts ==
  ASSUME NEW D, NEW parent, NEW root, NEW depth, Forest(parent, root, depth, D), NEW x \in D
  PROVE  /\ PathToRoot(parent, x) \subseteq D
         /\ \A y \in PathToRoot(parent, x) : root[y] = root[x]
         /\ root[x] \in PathToRoot(parent, x)
<1> DEFINE path == CHOOSE path : IsPath(path, parent)
           Good(y) == path[y] \subseteq D /\ (\A z \in path[y] : root[z] = root[y]) /\ root[y] \in path[y]
           N == {n \in Nat : \A y \in D : depth[y] <= n => Good(y)}
<1>1. IsPath(path, parent)
  <2>1. \E p : IsPath(p, parent)
    BY ForestFacts, PathExists
  <2>2. QED
    BY <2>1, Zenon
<1>2. PathToRoot(parent, x) = path[x]
  BY Zenon DEF PathToRoot, IsPath
<1> HIDE DEF path
<1>3. \A y \in D : path[y] = IF parent[y] = y THEN {y} ELSE {y} \cup path[parent[y]]
  <2>1. DOMAIN parent = D
    BY ForestFacts
  <2>2. QED
    BY <1>1, <2>1 DEF IsPath
<1>4. ASSUME NEW y \in D, parent[y] # y => Good(parent[y]) PROVE Good(y)
  <2>1. /\ root[parent[y]] = root[y] /\ parent[y] \in D /\ root[y] \in D /\ (parent[y] = y => root[y] = y)
    BY ForestFacts
  <2>2. CASE parent[y] = y
    <3>1. path[y] = {y} /\ root[y] = y
      BY <1>3, <2>1, <2>2
    <3>2. QED
      BY <3>1
  <2>3. CASE parent[y] # y
    <3>1. path[y] = {y} \cup path[parent[y]]
      BY <1>3, <2>3
    <3>2. QED
      BY <1>4, <2>1, <2>3, <3>1
  <2>4. QED
    BY <2>2, <2>3
<1> HIDE DEF Good
<1>5. 0 \in N
  <2>1. ASSUME NEW y \in D, depth[y] <= 0 PROVE Good(y)
    <3>1. parent[y] = y
      <4>1. parent[y] # y => depth[parent[y]] < depth[y] /\ depth[parent[y]] \in Nat /\ depth[y] \in Nat
        <5>1. parent[y] \in D
          BY ForestFacts
        <5>2. QED
          BY <5>1, ForestFacts
      <4>2. QED
        BY <2>1, <4>1
    <3>2. QED
      BY <1>4, <3>1
  <2>2. QED
    BY <2>1
<1>6. ASSUME NEW k \in Nat, NEW n \in 1..k, n - 1 \in N PROVE n \in N
  <2>1. ASSUME NEW y \in D, depth[y] <= n PROVE Good(y)
    <3>1. ASSUME parent[y] # y PROVE Good(parent[y])
      <4>1. parent[y] \in D /\ depth[parent[y]] < depth[y] /\ depth[y] \in Nat
        BY <3>1, ForestFacts
      <4>2. depth[parent[y]] \in Nat
        BY <4>1, ForestFacts
      <4>3. depth[parent[y]] <= n - 1
        BY <2>1, <4>1, <4>2
      <4>4. QED
        BY <1>6, <4>1, <4>3
    <3>2. QED
      BY <1>4, <3>1
  <2>2. QED
    BY <1>6, <2>1
<1>7. depth[x] \in Nat
  BY ForestFacts
<1>8. depth[x] \in N
  <2> HIDE DEF N
  <2>1. 0..depth[x] \subseteq N
    BY <1>5, <1>6, <1>7, Upward
  <2>2. QED
    BY <1>7, <2>1
<1>9. Good(x)
  BY <1>7, <1>8
<1>10. QED
  BY <1>2, <1>9 DEF Good

\* Find leads to the root.
LEMMA FindIsRoot ==
  ASSUME NEW D, NEW parent, NEW root, NEW depth, Forest(parent, root, depth, D), NEW x \in D
  PROVE  DsuFind(parent, x) = root[x]
<1> DEFINE P == PathToRoot(parent, x)
<1>1. P \subseteq D /\ (\A y \in P : root[y] = root[x]) /\ root[x] \in P
  BY WayFacts
<1>2. parent[root[x]] = root[x]
  BY ForestFacts
<1>3. \A y \in P : parent[y] = y => y = root[x]
  <2>1. \A y \in D : parent[y] = y => root[y] = y
    BY ForestFacts
  <2> HIDE DEF P
  <2>2. QED
    BY <1>1, <2>1
<1> HIDE DEF P
<1>4. (CHOOSE y \in P : parent[y] = y) = root[x]
  BY <1>1, <1>2, <1>3
<1>5. QED
  BY <1>4 DEF DsuFind, P

-----------------------------------------------------------------------------
\* What hanging the elements of a set below one element comes to.
HungBelow(parent, r, S) == [y \in DOMAIN parent |-> IF y \in S THEN r ELSE parent[y]]

IsHanging(iter, parent, r, S) ==
  iter = [s \in SUBSET S |->
            IF s = {} THEN parent
            ELSE [iter[s \ {CHOOSE x \in s : TRUE}] EXCEPT ![CHOOSE x \in s : TRUE] = r]]

LEMMA HangingIsHung ==
  ASSUME NEW D, NEW parent, parent = [y \in D |-> parent[y]], NEW r,
         NEW S \in SUBSET D, IsFiniteSet(S), NEW iter, IsHanging(iter, parent, r, S)
  PROVE  iter[S] = HungBelow(parent, r, S)
<1> DEFINE the(s) == CHOOSE x \in s : TRUE
           N == {m \in Nat : \A s \in SUBSET S : Cardinality(s) = m => iter[s] = HungBelow(parent, r, s)}
           n == Cardinality(S)
<1>1. \A s \in SUBSET S : iter[s] = IF s = {} THEN parent ELSE [iter[s \ {the(s)}] EXCEPT ![the(s)] = r]
  BY DEF IsHanging
<1>2. \A s \in SUBSET S : IsFiniteSet(s) /\ Cardinality(s) \in Nat
  BY FS_Subset, FS_CardinalityType
<1>3. DOMAIN parent = D
  OBVIOUS
<1>4. 0 \in N
  <2>1. ASSUME NEW s \in SUBSET S, Cardinality(s) = 0 PROVE iter[s] = HungBelow(parent, r, s)
    <3>1. s = {}
      BY <1>2, <2>1, FS_EmptySet
    <3>2. HungBelow(parent, r, {}) = parent
      BY <1>3 DEF HungBelow
    <3>3. QED
      BY <1>1, <3>1, <3>2
  <2>2. QED
    BY <2>1
<1>5. ASSUME NEW m \in 1..n, m - 1 \in N PROVE m \in N
  <2>1. ASSUME NEW s \in SUBSET S, Cardinality(s) = m PROVE iter[s] = HungBelow(parent, r, s)
    <3>1. s # {}
      BY <2>1, FS_EmptySet
    <3>2. the(s) \in s
      BY <3>1
    <3> DEFINE x == the(s)
               t == s \ {x}
    <3>3. iter[s] = [iter[t] EXCEPT ![x] = r]
      BY <1>1, <3>1
    <3> HIDE DEF x
    <3>4. x \in s
      BY <3>2 DEF x
    <3>5. t \in SUBSET S /\ Cardinality(t) = m - 1
      BY <1>2, <2>1, <3>4, OneLess
    <3>6. iter[t] = HungBelow(parent, r, t)
      BY <1>5, <3>5
    <3>7. [HungBelow(parent, r, t) EXCEPT ![x] = r] = HungBelow(parent, r, s)
      BY <1>3, <3>4 DEF HungBelow
    <3>8. QED
      BY <3>3, <3>6, <3>7
  <2>2. QED
    BY <2>1
<1>6. n \in Nat
  BY FS_CardinalityType
<1>7. n \in N
  <2> HIDE DEF N
  <2>1. 0..n \subseteq N
    BY <1>4, <1>5, <1>6, Upward
  <2>2. QED
    BY <1>6, <2>1
<1>8. QED
  BY <1>7

LEMMA HangingExists ==
  ASSUME NEW D, NEW parent, parent = [y \in D |-> parent[y]], NEW r, NEW S \in SUBSET D
  PROVE  \E iter : IsHanging(iter, parent, r, S)
<1> DEFINE iter == [s \in SUBSET S |-> HungBelow(parent, r, s)]
           the(s) == CHOOSE x \in s : TRUE
<1>1. ASSUME NEW s \in SUBSET S
      PROVE  iter[s] = IF s = {} THEN parent ELSE [iter[s \ {the(s)}] EXCEPT ![the(s)] = r]
  <2>1. CASE s = {}
    BY <2>1 DEF HungBelow
  <2>2. CASE s # {}
    <3> DEFINE x == the(s)
    <3>1. x \in s
      BY <2>2
    <3> HIDE DEF x
    <3>2. [HungBelow(parent, r, s \ {x}) EXCEPT ![x] = r] = HungBelow(parent, r, s)
      BY <3>1 DEF HungBelow
    <3>3. iter[s] = [iter[s \ {x}] EXCEPT ![x] = r]
      BY <3>2
    <3>4. QED
      BY <2>2, <3>3 DEF x
  <2>3. QED
    BY <2>1, <2>2
<1>2. iter = [s \in SUBSET S |-> iter[s]]
  OBVIOUS
<1> HIDE DEF iter
<1>3. IsHanging(iter, parent, r, S)
  BY <1>1, <1>2, Zenon DEF IsHanging
<1>4. QED
  BY <1>3

LEMMA CompressedIsHung ==
  ASSUME NEW D, IsFiniteSet(D), NEW parent, NEW root, NEW depth, Forest(parent, root, depth, D), NEW x \in D
  PROVE  Compressed(parent, x) = HungBelow(parent, root[x], PathToRoot(parent, x))
<1> DEFINE r == DsuFind(parent, x)
           S == PathToRoot(parent, x)
           iter == CHOOSE iter : IsHanging(iter, parent, r, S)
<1>1. Compressed(parent, x) = iter[S]
  BY Zenon DEF Compressed, FoldSet, MapThenFoldSet, IsHanging
<1>2. S \in SUBSET D /\ r = root[x]
  BY WayFacts, FindIsRoot
<1>3. parent = [y \in D |-> parent[y]]
  BY ForestFacts
<1> HIDE DEF r, S
<1>4. IsFiniteSet(S)
  BY <1>2, FS_Subset
<1>5. IsHanging(iter, parent, r, S)
  <2>1. \E i : IsHanging(i, parent, r, S)
    BY <1>2, <1>3, HangingExists
  <2>2. QED
    BY <2>1, Zenon
<1> HIDE DEF iter
<1>6. iter[S] = HungBelow(parent, r, S)
  BY <1>2, <1>3, <1>4, <1>5, HangingIsHung
<1>7. QED
  BY <1>1, <1>2, <1>6 DEF S

\* Compressing a path leaves a forest with the same roots.
LEMMA CompressedIsForest ==
  ASSUME NEW D, IsFiniteSet(D), NEW parent, NEW root, NEW depth, Forest(parent, root, depth, D), NEW x \in D
  PROVE  Forest(Compressed(parent, x), root, depth, D)
<1> DEFINE P == PathToRoot(parent, x)
           q == Compressed(parent, x)
<1>1. P \subseteq D /\ (\A y \in P : root[y] = root[x])
  BY WayFacts
<1>2. DOMAIN parent = D
  BY ForestFacts
<1>3. \A y \in D : q[y] = IF y \in P THEN root[x] ELSE parent[y]
  BY <1>2, CompressedIsHung DEF HungBelow
<1>4. q = [y \in D |-> q[y]]
  BY <1>2, CompressedIsHung DEF HungBelow
<1> HIDE DEF P, q
<1>5. \A y \in D : q[y] = root[y] \/ q[y] = parent[y]
  BY <1>1, <1>3
<1>6. q \in [D -> D]
  <2>1. \A y \in D : q[y] \in D
    BY <1>5, ForestFacts
  <2>2. QED
    BY <1>4, <2>1
<1>7. ASSUME NEW y \in D
      PROVE  /\ root[q[y]] = root[y] /\ q[root[y]] = root[y]
             /\ q[y] = y => root[y] = y
             /\ q[y] # y => depth[q[y]] < depth[y]
             /\ root[y] # y => depth[root[y]] < depth[y]
  <2>1. /\ parent[y] \in D /\ root[y] \in D
        /\ root[parent[y]] = root[y] /\ root[root[y]] = root[y] /\ parent[root[y]] = root[y]
        /\ parent[y] = y <=> root[y] = y
        /\ parent[y] # y => depth[parent[y]] < depth[y]
        /\ root[y] # y => depth[root[y]] < depth[y]
    BY ForestFacts
  <2>2. q[y] = root[y] \/ q[y] = parent[y]
    BY <1>5
  <2>3. q[root[y]] = root[root[y]] \/ q[root[y]] = parent[root[y]]
    BY <1>5, <2>1
  <2>4. QED
    BY <2>1, <2>2, <2>3
<1>8. root \in [D -> D] /\ depth \in [D -> Nat]
  BY DEF Forest
<1>9. QED
  BY <1>6, <1>7, <1>8 DEF Forest, q
-----------------------------------------------------------------------------
\* The roots when the root of a is hung below that of b.
RootsMerged(root, a, b, D) == [x \in D |-> IF root[x] = root[a] THEN root[b] ELSE root[x]]

LEMMA LinkIsForest ==
  ASSUME NEW D, NEW parent, NEW root, NEW depth, Forest(parent, root, depth, D), NEW a \in D, NEW b \in D
  PROVE  \E deeper : Forest([parent EXCEPT ![root[a]] = root[b]], RootsMerged(root, a, b, D), deeper, D)
<1> DEFINE q == [parent EXCEPT ![root[a]] = root[b]]
           other == RootsMerged(root, a, b, D)
           ra == root[a]
           rb == root[b]
           In(x) == root[x] = ra /\ ra # rb
           deeper == [x \in D |-> IF In(x) THEN depth[x] + depth[rb] + 1 ELSE depth[x]]
<1>1. /\ ra \in D /\ rb \in D /\ depth[rb] \in Nat
      /\ parent[ra] = ra /\ root[ra] = ra /\ parent[rb] = rb /\ root[rb] = rb
  <2>1. ra \in D /\ rb \in D
    BY ForestFacts
  <2>2. QED
    BY <2>1, ForestFacts
<1>2. q = [x \in D |-> IF x = ra THEN rb ELSE parent[x]] /\ parent \in [D -> D]
  BY <1>1, ForestFacts
<1>3. \A x \in D : q[x] = IF x = ra THEN rb ELSE parent[x]
  BY <1>2
<1>4. \A x \in D : other[x] = IF root[x] = ra THEN rb ELSE root[x]
  BY DEF RootsMerged
<1>5. \A x \in D : deeper[x] = IF In(x) THEN depth[x] + depth[rb] + 1 ELSE depth[x]
  OBVIOUS
<1>6. \A x \in D : /\ parent[x] \in D /\ root[x] \in D /\ depth[x] \in Nat /\ depth[parent[x]] \in Nat /\ depth[root[x]] \in Nat
                   /\ root[parent[x]] = root[x] /\ root[root[x]] = root[x] /\ parent[root[x]] = root[x]
                   /\ parent[x] = x <=> root[x] = x
                   /\ parent[x] # x => depth[parent[x]] < depth[x]
                   /\ root[x] # x => depth[root[x]] < depth[x]
  <2>1. \A x \in D : parent[x] \in D /\ root[x] \in D
    BY ForestFacts
  <2>2. QED
    BY <2>1, ForestFacts
<1>7. /\ q \in [D -> D] /\ other \in [D -> D] /\ deeper \in [D -> Nat]
  <2>1. q \in [D -> D]
    BY <1>1, <1>2, <1>6
  <2>2. other \in [D -> D]
    BY <1>1, <1>6 DEF RootsMerged
  <2>3. deeper \in [D -> Nat]
    BY <1>1, <1>6
  <2>4. QED
    BY <2>1, <2>2, <2>3
<1> HIDE DEF q, other, deeper
<1>8. ASSUME NEW x \in D
      PROVE  /\ other[q[x]] = other[x] /\ q[other[x]] = other[x]
             /\ q[x] = x => other[x] = x
             /\ q[x] # x => deeper[q[x]] < deeper[x]
             /\ other[x] # x => deeper[other[x]] < deeper[x]
  <2>1. /\ parent[x] \in D /\ root[x] \in D /\ depth[x] \in Nat /\ depth[parent[x]] \in Nat /\ depth[root[x]] \in Nat
        /\ root[parent[x]] = root[x] /\ root[root[x]] = root[x] /\ parent[root[x]] = root[x]
        /\ parent[x] = x <=> root[x] = x
        /\ parent[x] # x => depth[parent[x]] < depth[x]
        /\ root[x] # x => depth[root[x]] < depth[x]
    BY <1>6
  <2>2. other[rb] = rb /\ q[rb] = rb /\ deeper[rb] = depth[rb]
    BY <1>1, <1>3, <1>4, <1>5
  <2>3. CASE x = ra
    <3>1. q[x] = rb /\ other[x] = rb
      BY <1>1, <1>3, <1>4, <2>3
    <3>2. ra # rb => deeper[x] = depth[x] + depth[rb] + 1
      BY <1>1, <1>5, <2>3
    <3>3. ra # rb => deeper[rb] < deeper[x]
      BY <1>1, <2>1, <2>2, <3>2
    <3>4. QED
      BY <2>2, <2>3, <3>1, <3>3
  <2>4. CASE x # ra /\ root[x] = ra
    <3>1. q[x] = parent[x] /\ other[x] = rb /\ other[parent[x]] = rb
      BY <1>3, <1>4, <2>1, <2>4
    <3>2. parent[x] # x
      BY <2>1, <2>4
    <3>3. CASE ra = rb
      <4>1. deeper[x] = depth[x] /\ deeper[parent[x]] = depth[parent[x]]
        BY <1>5, <2>1, <3>3
      <4>2. depth[rb] < depth[x]
        BY <2>1, <2>4, <3>3
      <4>3. QED
        BY <2>1, <2>2, <3>1, <3>2, <4>1, <4>2
    <3>4. CASE ra # rb
      <4>1. /\ deeper[x] = depth[x] + depth[rb] + 1
            /\ deeper[parent[x]] = depth[parent[x]] + depth[rb] + 1
        BY <1>5, <2>1, <2>4, <3>4
      <4>2. deeper[parent[x]] < deeper[x] /\ deeper[rb] < deeper[x]
        BY <1>1, <2>1, <2>2, <3>2, <4>1
      <4>3. QED
        BY <2>2, <3>1, <3>2, <4>2
    <3>5. QED
      BY <3>3, <3>4
  <2>5. CASE root[x] # ra
    <3>1. q[x] = parent[x] /\ other[x] = root[x] /\ other[parent[x]] = root[x]
      BY <1>1, <1>3, <1>4, <2>1, <2>5
    <3>2. q[root[x]] = root[x]
      BY <1>3, <2>1, <2>5
    <3>3. deeper[x] = depth[x] /\ deeper[parent[x]] = depth[parent[x]] /\ deeper[root[x]] = depth[root[x]]
      BY <1>5, <2>1, <2>5
    <3>4. QED
      BY <2>1, <3>1, <3>2, <3>3
  <2>6. QED
    BY <2>3, <2>4, <2>5
<1>9. Forest(q, other, deeper, D)
  BY <1>7, <1>8 DEF Forest
<1>10. QED
  BY <1>9 DEF q, other

\* Union merges two trees.
LEMMA UnionIsForest ==
  ASSUME NEW D, IsFiniteSet(D), NEW parent, NEW root, NEW depth, Forest(parent, root, depth, D),
         NEW a \in D, NEW b \in D
  PROVE  \E deeper : Forest(Union(parent, <<a, b>>), RootsMerged(root, a, b, D), deeper, D)
<1> DEFINE once == Compressed(parent, a)
           found == Compressed(once, b)
<1>1. Forest(once, root, depth, D)
  BY CompressedIsForest
<1> HIDE DEF once
<1>2. Forest(found, root, depth, D)
  BY <1>1, CompressedIsForest
<1>3. Union(parent, <<a, b>>) = [found EXCEPT ![DsuFind(found, a)] = DsuFind(found, b)]
  BY DEF Union, once
<1> HIDE DEF found
<1>4. DsuFind(found, a) = root[a] /\ DsuFind(found, b) = root[b]
  BY <1>2, FindIsRoot
<1>5. QED
  BY <1>2, <1>3, <1>4, LinkIsForest

-----------------------------------------------------------------------------
\* The group of x is the smallest set with x that no pair leaves.
LEMMA GroupFacts ==
  ASSUME NEW D, NEW pairs, \A p \in pairs : p[1] \in D /\ p[2] \in D, NEW x \in D
  PROVE  /\ x \in Group(pairs, D, x) /\ Group(pairs, D, x) \subseteq D
         /\ Keeps(Group(pairs, D, x), pairs)
         /\ \A S \in SUBSET D : x \in S /\ Keeps(S, pairs) => Group(pairs, D, x) \subseteq S
BY DEF Group, Keeps

Represents(parent, pairs, D) ==
  \E root, depth :
    /\ Forest(parent, root, depth, D)
    /\ \A x, y \in D : root[x] = root[y] <=> y \in Group(pairs, D, x)

LEMMA AloneRepresents ==
  ASSUME NEW D
  PROVE  Represents([x \in D |-> x], {}, D)
<1> DEFINE parent == [x \in D |-> x]
           depth == [x \in D |-> 0]
<1>1. Forest(parent, parent, depth, D)
  BY DEF Forest
<1>2. ASSUME NEW x \in D PROVE Group({}, D, x) = {x}
  <2>1. Keeps({x}, {}) /\ {x} \in SUBSET D
    BY DEF Keeps
  <2>2. QED
    BY <2>1, GroupFacts
<1>3. \A x, y \in D : parent[x] = parent[y] <=> y \in Group({}, D, x)
  BY <1>2
<1> HIDE DEF parent, depth
<1>4. QED
  BY <1>1, <1>3 DEF Represents, parent

LEMMA UnionRepresents ==
  ASSUME NEW D, IsFiniteSet(D), NEW pairs, \A p \in pairs : p[1] \in D /\ p[2] \in D,
         NEW parent, Represents(parent, pairs, D), NEW a \in D, NEW b \in D
  PROVE  Represents(Union(parent, <<a, b>>), pairs \cup {<<a, b>>}, D)
<1>1. PICK root, depth : /\ Forest(parent, root, depth, D)
                         /\ \A x, y \in D : root[x] = root[y] <=> y \in Group(pairs, D, x)
  BY DEF Represents
<1> DEFINE more == pairs \cup {<<a, b>>}
           other == RootsMerged(root, a, b, D)
<1>2. PICK deeper : Forest(Union(parent, <<a, b>>), other, deeper, D)
  BY <1>1, UnionIsForest
<1>3. \A p \in more : p[1] \in D /\ p[2] \in D
  OBVIOUS
<1>4. \A S : Keeps(S, more) <=> Keeps(S, pairs) /\ (a \in S <=> b \in S)
  <2> DEFINE p == <<a, b>>
  <2>1. p[1] = a /\ p[2] = b
    OBVIOUS
  <2> HIDE DEF p
  <2>2. more = pairs \cup {p}
    BY DEF p
  <2> HIDE DEF more
  <2>3. QED
    BY <2>1, <2>2 DEF Keeps
<1>5. \A x \in D : other[x] = IF root[x] = root[a] THEN root[b] ELSE root[x]
  BY DEF RootsMerged
<1> HIDE DEF other, more
<1>6. ASSUME NEW x \in D, NEW y \in D, y \in Group(more, D, x) PROVE other[x] = other[y]
  <2> DEFINE S == {z \in D : other[z] = other[x]}
  <2>1. Keeps(S, pairs)
    <3>1. ASSUME NEW p \in pairs PROVE p[1] \in S <=> p[2] \in S
      <4>1. p[1] \in D /\ p[2] \in D
        OBVIOUS
      <4>2. p[2] \in Group(pairs, D, p[1])
        BY <4>1, GroupFacts DEF Keeps
      <4>3. root[p[1]] = root[p[2]]
        BY <1>1, <4>1, <4>2
      <4>4. QED
        BY <1>5, <4>1, <4>3
    <3>2. QED
      BY <3>1 DEF Keeps
  <2>2. other[a] = other[b]
    BY <1>5
  <2>3. Keeps(S, more) /\ x \in S /\ S \in SUBSET D
    BY <1>4, <2>1, <2>2
  <2>4. y \in S
    BY <1>3, <1>6, <2>3, GroupFacts
  <2>5. QED
    BY <2>4
<1>7. ASSUME NEW x \in D, NEW y \in D, other[x] = other[y] PROVE y \in Group(more, D, x)
  <2> DEFINE S == Group(more, D, x)
  <2>1. /\ Keeps(S, pairs) /\ (a \in S <=> b \in S) /\ x \in S /\ S \in SUBSET D
    BY <1>3, <1>4, GroupFacts
  <2> HIDE DEF S
  <2>2. ASSUME NEW u \in D, NEW v \in D, root[u] = root[v], u \in S PROVE v \in S
    <3>1. v \in Group(pairs, D, u)
      BY <1>1, <2>2
    <3>2. QED
      BY <2>1, <2>2, <3>1, GroupFacts
  <2>3. \/ root[x] = root[y]
        \/ root[x] = root[a] /\ root[b] = root[y]
        \/ root[x] = root[b] /\ root[a] = root[y]
    BY <1>5, <1>7
  <2>4. y \in S
    BY <2>1, <2>2, <2>3
  <2>5. QED
    BY <2>4 DEF S
<1>8. \A x, y \in D : other[x] = other[y] <=> y \in Group(more, D, x)
  BY <1>6, <1>7
<1>9. QED
  BY <1>2, <1>8 DEF Represents, more
-----------------------------------------------------------------------------
\* Unions pair after pair: pick tells which of some is the last to be united.
IsUniting(iter, base, pairOf, pick, S) ==
  iter = [s \in SUBSET S |->
            IF s = {} THEN base ELSE Union(iter[s \ {pick[s]}], pairOf[pick[s]])]

Unites(h, base, pairOf, pick, S, n) ==
  \A s \in SUBSET S :
    Cardinality(s) <= n => h[s] = IF s = {} THEN base ELSE Union(h[s \ {pick[s]}], pairOf[pick[s]])

LEMMA CanUnite ==
  ASSUME NEW S, IsFiniteSet(S), NEW base, NEW pairOf,
         NEW pick, \A s \in SUBSET S : s # {} => pick[s] \in s, NEW n \in Nat
  PROVE  \E h : Unites(h, base, pairOf, pick, S, n)
<1> DEFINE N == {m \in Nat : \E h : Unites(h, base, pairOf, pick, S, m)}
<1>1. \A s \in SUBSET S : IsFiniteSet(s) /\ Cardinality(s) \in Nat
  BY FS_Subset, FS_CardinalityType
<1>2. ASSUME NEW s \in SUBSET S, s # {}
      PROVE  /\ s \ {pick[s]} \in SUBSET S /\ Cardinality(s) > 0
             /\ Cardinality(s \ {pick[s]}) = Cardinality(s) - 1
  <2>1. pick[s] \in s
    BY <1>2
  <2>2. QED
    BY <1>1, <2>1, OneLess
<1>3. 0 \in N
  <2> DEFINE h == [s \in SUBSET S |-> base]
  <2>1. ASSUME NEW s \in SUBSET S, Cardinality(s) <= 0 PROVE s = {}
    <3>1. Cardinality(s) = 0
      BY <1>1, <2>1
    <3>2. QED
      BY <1>1, <3>1, FS_EmptySet
  <2>2. \A s \in SUBSET S : h[s] = base
    OBVIOUS
  <2> HIDE DEF h
  <2>3. Unites(h, base, pairOf, pick, S, 0)
    BY <2>1, <2>2, Zenon DEF Unites
  <2>4. QED
    BY <2>3
<1>4. ASSUME NEW m \in 1..n, m - 1 \in N PROVE m \in N
  <2>1. PICK h : Unites(h, base, pairOf, pick, S, m - 1)
    BY <1>4
  <2> DEFINE step(k, s) == Union(k[s \ {pick[s]}], pairOf[pick[s]])
             g == [s \in SUBSET S |-> IF Cardinality(s) <= m - 1 THEN h[s] ELSE step(h, s)]
  <2>2. ASSUME NEW s \in SUBSET S, Cardinality(s) <= m
        PROVE  g[s] = IF s = {} THEN base ELSE step(g, s)
    <3>1. CASE s = {}
      <4>1. Cardinality(s) <= m - 1
        BY <3>1, FS_EmptySet
      <4>2. h[s] = base
        BY <2>1, <3>1, <4>1 DEF Unites
      <4>3. QED
        BY <3>1, <4>1, <4>2
    <3>2. CASE s # {}
      <4> DEFINE t == s \ {pick[s]}
      <4>1. t \in SUBSET S /\ Cardinality(t) <= m - 1
        BY <1>1, <1>2, <2>2, <3>2
      <4>2. g[t] = h[t]
        BY <4>1
      <4>3. step(g, s) = step(h, s)
        <5> HIDE DEF g
        <5>1. QED
          BY <4>2
      <4>4. Cardinality(s) <= m - 1 => h[s] = step(h, s)
        BY <2>1, <3>2, Zenon DEF Unites
      <4> HIDE DEF step
      <4>5. g[s] = step(h, s)
        BY <4>4
      <4> HIDE DEF g
      <4>6. QED
        BY <3>2, <4>3, <4>5
    <3>3. QED
      BY <3>1, <3>2
  <2>3. Unites(g, base, pairOf, pick, S, m)
    <3> HIDE DEF g
    <3>1. QED
      BY <2>2, Zenon DEF Unites
  <2>4. QED
    BY <2>3
<1>5. 0..n \subseteq N
  <2> HIDE DEF N
  <2>1. QED
    BY <1>3, <1>4, Upward
<1>6. QED
  BY <1>5

LEMMA UnitingExists ==
  ASSUME NEW S, IsFiniteSet(S), NEW base, NEW pairOf,
         NEW pick, \A s \in SUBSET S : s # {} => pick[s] \in s
  PROVE  \E iter : IsUniting(iter, base, pairOf, pick, S)
<1> DEFINE n == Cardinality(S)
<1>1. n \in Nat
  BY FS_CardinalityType
<1>2. PICK h : Unites(h, base, pairOf, pick, S, n)
  BY <1>1, CanUnite
<1> DEFINE g == [s \in SUBSET S |-> h[s]]
           step(k, s) == Union(k[s \ {pick[s]}], pairOf[pick[s]])
<1>3. ASSUME NEW s \in SUBSET S
      PROVE  g[s] = IF s = {} THEN base ELSE step(g, s)
  <2>1. Cardinality(s) <= n
    BY FS_Subset
  <2>2. g[s] = h[s] /\ g[s \ {pick[s]}] = h[s \ {pick[s]}]
    OBVIOUS
  <2>3. h[s] = IF s = {} THEN base ELSE step(h, s)
    BY <1>2, <2>1, Zenon DEF Unites
  <2> HIDE DEF g
  <2>4. step(g, s) = step(h, s)
    BY <2>2
  <2> HIDE DEF step
  <2>5. QED
    BY <2>2, <2>3, <2>4
<1>4. g = [s \in SUBSET S |-> g[s]]
  OBVIOUS
<1> HIDE DEF g
<1>5. IsUniting(g, base, pairOf, pick, S)
  BY <1>3, <1>4, Zenon DEF IsUniting
<1>6. QED
  BY <1>5

\* Uniting the pairs of S, one after the other, represents what they bring together.
PairsOf(pairOf, s) == {pairOf[x] : x \in s}

LEMMA UnitingRepresents ==
  ASSUME NEW D, IsFiniteSet(D), NEW S, IsFiniteSet(S), NEW iter,
         NEW pairOf, \A x \in S : \E a \in D, b \in D : pairOf[x] = <<a, b>>,
         NEW pick, \A s \in SUBSET S : s # {} => pick[s] \in s,
         IsUniting(iter, [x \in D |-> x], pairOf, pick, S)
  PROVE  Represents(iter[S], PairsOf(pairOf, S), D)
<1> DEFINE base == [x \in D |-> x]
           N == {m \in Nat : \A s \in SUBSET S : Cardinality(s) = m => Represents(iter[s], PairsOf(pairOf, s), D)}
           n == Cardinality(S)
<1>1. \A s \in SUBSET S : IsFiniteSet(s) /\ Cardinality(s) \in Nat
  BY FS_Subset, FS_CardinalityType
<1>2. \A s \in SUBSET S : iter[s] = IF s = {} THEN base ELSE Union(iter[s \ {pick[s]}], pairOf[pick[s]])
  BY DEF IsUniting
<1>3. 0 \in N
  <2>1. ASSUME NEW s \in SUBSET S, Cardinality(s) = 0 PROVE Represents(iter[s], PairsOf(pairOf, s), D)
    <3>1. s = {}
      BY <1>1, <2>1, FS_EmptySet
    <3>2. PairsOf(pairOf, s) = {} /\ iter[s] = base
      BY <1>2, <3>1 DEF PairsOf
    <3> HIDE DEF N
    <3>3. QED
      BY <3>2, AloneRepresents
  <2>2. QED
    BY <2>1
<1>4. ASSUME NEW m \in 1..n, m - 1 \in N PROVE m \in N
  <2>1. ASSUME NEW s \in SUBSET S, Cardinality(s) = m PROVE Represents(iter[s], PairsOf(pairOf, s), D)
    <3>1. s # {}
      <4>1. s = {} => Cardinality(s) = 0
        BY FS_EmptySet
      <4>2. m # 0
        OBVIOUS
      <4>3. QED
        BY <2>1, <4>1, <4>2
    <3> DEFINE x == pick[s]
               t == s \ {x}
    <3>2. x \in s
      BY <3>1
    <3>3. iter[s] = Union(iter[t], pairOf[x])
      BY <1>2, <3>1
    <3> HIDE DEF x
    <3>4. t \in SUBSET S /\ Cardinality(t) = m - 1
      BY <1>1, <2>1, <3>2, OneLess
    <3>5. Represents(iter[t], PairsOf(pairOf, t), D)
      BY <1>4, <3>4
    <3>6. PICK a \in D, b \in D : pairOf[x] = <<a, b>>
      BY <3>2
    <3>7. \A p \in PairsOf(pairOf, t) : p[1] \in D /\ p[2] \in D
      BY <3>4 DEF PairsOf
    <3>8. PairsOf(pairOf, s) = PairsOf(pairOf, t) \cup {<<a, b>>}
      <4> DEFINE p == <<a, b>>
      <4>1. pairOf[x] = p
        BY <3>6
      <4>2. s = t \cup {x}
        BY <3>2
      <4> HIDE DEF p, t
      <4>3. PairsOf(pairOf, s) = PairsOf(pairOf, t) \cup {p}
        BY <4>1, <4>2 DEF PairsOf
      <4>4. QED
        BY <4>3 DEF p
    <3> HIDE DEF t
    <3>9. Represents(Union(iter[t], <<a, b>>), PairsOf(pairOf, t) \cup {<<a, b>>}, D)
      BY <3>5, <3>7, UnionRepresents
    <3>10. QED
      BY <3>3, <3>6, <3>8, <3>9
  <2>2. QED
    BY <2>1
<1>5. n \in Nat
  BY FS_CardinalityType
<1>6. n \in N
  <2> HIDE DEF N
  <2>1. 0..n \subseteq N
    BY <1>3, <1>4, <1>5, Upward
  <2>2. QED
    BY <1>5, <2>1
<1>7. QED
  BY <1>6

\* THEOREM: so has the forest of the pairs of a sequence, in its order (dsu_find and
\* the loop around it in sloplint::compute).
THEOREM UnitedInOrder ==
  ASSUME NEW D, IsFiniteSet(D), NEW n \in Nat, NEW seq, seq = [i \in 1..n |-> seq[i]],
         \A i \in 1..n : \E a \in D, b \in D : seq[i] = <<a, b>>
  PROVE  Represents(FoldLeft(Union, [x \in D |-> x], seq), {seq[i] : i \in 1..n}, D)
<1> DEFINE base == [x \in D |-> x]
           S == DOMAIN seq
           pick == [s \in SUBSET S |-> Max(s)]
           Is(iter) == iter = [s \in SUBSET S |->
                                 IF s = {} THEN base ELSE Union(iter[s \ {Max(s)}], seq[Max(s)])]
           iter == CHOOSE iter : Is(iter)
<1>1. S = 1..n /\ IsFiniteSet(S)
  <2>1. S = 1..n
    OBVIOUS
  <2>2. QED
    BY <2>1, FS_Interval
<1>2. FoldLeft(Union, base, seq) = iter[S]
  BY Zenon DEF FoldLeft, MapThenFoldSet
<1>3. ASSUME NEW s \in SUBSET S, s # {} PROVE pick[s] \in s
  <2>1. s \subseteq 0..n
    BY <1>1
  <2>2. Max(s) \in s
    BY <1>3, <2>1, MaxIsGreatest
  <2>3. QED
    BY <2>2
<1>4. ASSUME NEW i PROVE Is(i) <=> IsUniting(i, base, seq, pick, S)
  <2> DEFINE f == [s \in SUBSET S |-> IF s = {} THEN base ELSE Union(i[s \ {Max(s)}], seq[Max(s)])]
             g == [s \in SUBSET S |-> IF s = {} THEN base ELSE Union(i[s \ {pick[s]}], seq[pick[s]])]
  <2>1. \A s \in SUBSET S : pick[s] = Max(s)
    OBVIOUS
  <2> HIDE DEF pick, S, base
  <2>2. f = g
    BY <2>1
  <2>3. Is(i) <=> i = f
    OBVIOUS
  <2>4. IsUniting(i, base, seq, pick, S) <=> i = g
    BY DEF IsUniting
  <2> HIDE DEF f, g, Is
  <2>5. QED
    BY <2>2, <2>3, <2>4
<1> HIDE DEF pick, S, Is, base
<1>5. IsUniting(iter, base, seq, pick, S)
  <2>1. \E i : IsUniting(i, base, seq, pick, S)
    BY <1>1, <1>3, UnitingExists
  <2>2. Is(iter)
    BY <1>4, <2>1, Zenon
  <2>3. QED
    BY <1>4, <2>2
<1> HIDE DEF iter
<1>6. \A i \in S : \E a \in D, b \in D : seq[i] = <<a, b>>
  BY <1>1
<1>7. Represents(iter[S], PairsOf(seq, S), D)
  <2>1. IsUniting(iter, [x \in D |-> x], seq, pick, S)
    BY <1>5 DEF base
  <2>2. QED
    BY <1>1, <1>3, <1>6, <2>1, UnitingRepresents
<1>8. PairsOf(seq, S) = {seq[i] : i \in 1..n}
  BY <1>1 DEF PairsOf
<1>9. QED
  BY <1>2, <1>7, <1>8 DEF base

\* THEOREM: the forest of a set of pairs, united in whatever order, has one root for
\* two elements if and only if the pairs link them (UnionFind of sloplint_metrics).
THEOREM UnitedPairs ==
  ASSUME NEW D, IsFiniteSet(D), NEW pairs, IsFiniteSet(pairs), pairs \subseteq D \X D
  PROVE  Represents(FoldSet(LAMBDA p, parent : Union(parent, p), [x \in D |-> x], pairs), pairs, D)
<1> DEFINE base == [x \in D |-> x]
           the(s) == CHOOSE x \in s : TRUE
           pick == [s \in SUBSET pairs |-> the(s)]
           pairOf == [p \in pairs |-> p]
           Is(iter) == iter = [s \in SUBSET pairs |->
                                 IF s = {} THEN base ELSE Union(iter[s \ {the(s)}], the(s))]
           iter == CHOOSE iter : Is(iter)
<1>1. FoldSet(LAMBDA p, parent : Union(parent, p), base, pairs) = iter[pairs]
  BY Zenon DEF FoldSet, MapThenFoldSet
<1>2. \A s \in SUBSET pairs : s # {} => pick[s] \in s
  OBVIOUS
<1>3. ASSUME NEW i PROVE Is(i) <=> IsUniting(i, base, pairOf, pick, pairs)
  <2> DEFINE F(s) == IF s = {} THEN base ELSE Union(i[s \ {the(s)}], the(s))
             G(s) == IF s = {} THEN base ELSE Union(i[s \ {pick[s]}], pairOf[pick[s]])
  <2>1. \A s \in SUBSET pairs : pick[s] = the(s) /\ (s # {} => pairOf[the(s)] = the(s))
    OBVIOUS
  <2> HIDE DEF pick, pairOf, base, the
  <2>2. \A s \in SUBSET pairs : F(s) = G(s)
    BY <2>1
  <2>3. Is(i) <=> i = [s \in SUBSET pairs |-> F(s)]
    OBVIOUS
  <2>4. IsUniting(i, base, pairOf, pick, pairs) <=> i = [s \in SUBSET pairs |-> G(s)]
    BY DEF IsUniting
  <2> HIDE DEF F, G, Is
  <2>5. [s \in SUBSET pairs |-> F(s)] = [s \in SUBSET pairs |-> G(s)]
    BY <2>2
  <2>6. QED
    BY <2>3, <2>4, <2>5
<1> HIDE DEF pick, pairOf, Is, base
<1>4. IsUniting(iter, base, pairOf, pick, pairs)
  <2>1. \E i : IsUniting(i, base, pairOf, pick, pairs)
    BY <1>2, UnitingExists
  <2>2. Is(iter)
    BY <1>3, <2>1, Zenon
  <2>3. QED
    BY <1>3, <2>2
<1> HIDE DEF iter
<1>5. \A p \in pairs : \E a \in D, b \in D : pairOf[p] = <<a, b>>
  BY DEF pairOf
<1>6. Represents(iter[pairs], PairsOf(pairOf, pairs), D)
  <2>1. IsUniting(iter, [x \in D |-> x], pairOf, pick, pairs)
    BY <1>4 DEF base
  <2>2. QED
    BY <1>2, <1>5, <2>1, UnitingRepresents
<1>7. PairsOf(pairOf, pairs) = pairs
  BY DEF PairsOf, pairOf
<1>8. QED
  BY <1>1, <1>6, <1>7 DEF base

-----------------------------------------------------------------------------
(* Counting: sets as large as one another, groups, and pairs within them. *)

\* As many as there are of them, when g numbers them.
LEMMA OneEach ==
  ASSUME NEW A, NEW B, IsFiniteSet(B), NEW g,
         \A i \in B : g[i] \in A, \A d \in A : \E i \in B : d = g[i],
         \A i, j \in B : g[i] = g[j] => i = j
  PROVE  Cardinality(A) = Cardinality(B) /\ IsFiniteSet(A)
<1> DEFINE G == [i \in B |-> g[i]]
<1>1. G \in Surjection(B, A)
  <2>1. G \in [B -> A] /\ \A d \in A : \E i \in B : G[i] = d
    OBVIOUS
  <2>2. QED
    BY <2>1 DEF Surjection
<1>2. G \in Injection(B, A)
  BY DEF Injection, IsInjective
<1> HIDE DEF G
<1>3. IsFiniteSet(A)
  BY <1>1, FS_Surjection
<1>4. QED
  BY <1>1, <1>2, <1>3, FS_Surjection

\* No more than there are of them that make all of A.
LEMMA ImageBound ==
  ASSUME NEW A, NEW B, IsFiniteSet(B), NEW g, \A d \in A : \E i \in B : d = g[i]
  PROVE  IsFiniteSet(A) /\ Cardinality(A) <= Cardinality(B)
<1> DEFINE C == {i \in B : g[i] \in A}
           G == [i \in C |-> g[i]]
<1>1. IsFiniteSet(C) /\ Cardinality(C) <= Cardinality(B)
  BY FS_Subset
<1>2. G \in Surjection(C, A)
  <2>1. G \in [C -> A] /\ \A d \in A : \E i \in C : G[i] = d
    OBVIOUS
  <2>2. QED
    BY <2>1 DEF Surjection
<1> HIDE DEF C, G
<1>3. IsFiniteSet(A) /\ Cardinality(A) <= Cardinality(C)
  BY <1>1, <1>2, FS_Surjection
<1>4. Cardinality(A) \in Nat /\ Cardinality(B) \in Nat /\ Cardinality(C) \in Nat
  BY <1>1, <1>3, FS_CardinalityType
<1>5. QED
  BY <1>1, <1>3, <1>4

-----------------------------------------------------------------------------
\* Pairs that the same sets keep make the same groups.
LEMMA SameGroups ==
  ASSUME NEW D, NEW P, NEW Q, \A S \in SUBSET D : Keeps(S, P) <=> Keeps(S, Q), NEW x
  PROVE  Group(P, D, x) = Group(Q, D, x)
BY DEF Group

\* Elements have the same root that are in one group.
LEMMA FindTellsGroups ==
  ASSUME NEW D, NEW parent, NEW pairs, Represents(parent, pairs, D)
  PROVE  /\ \A x \in D : DsuFind(parent, x) \in D
         /\ \A x, y \in D : DsuFind(parent, x) = DsuFind(parent, y) <=> y \in Group(pairs, D, x)
<1>1. PICK root, depth : /\ Forest(parent, root, depth, D)
                         /\ \A x, y \in D : root[x] = root[y] <=> y \in Group(pairs, D, x)
  BY DEF Represents
<1>2. \A x \in D : DsuFind(parent, x) = root[x] /\ root[x] \in D
  BY <1>1, FindIsRoot, ForestFacts
<1>3. QED
  BY <1>1, <1>2

LEMMA GroupsTold ==
  ASSUME NEW D, NEW parent, NEW pairs, Represents(parent, pairs, D)
  PROVE  \A x, y \in D : Group(pairs, D, x) = Group(pairs, D, y) <=> DsuFind(parent, x) = DsuFind(parent, y)
<1> DEFINE G(x) == Group(pairs, D, x)
           find(x) == DsuFind(parent, x)
<1>1. \A x, y \in D : find(x) = find(y) <=> y \in G(x)
  BY FindTellsGroups
<1>2. \A x \in D : G(x) \subseteq D
  BY DEF Group
<1> HIDE DEF G, find
<1>3. \A x, y \in D : G(x) = G(y) <=> find(x) = find(y)
  BY <1>1, <1>2
<1>4. QED
  BY <1>3 DEF G, find

\* There are as many roots as groups.
LEMMA RootsAreGroups ==
  ASSUME NEW D, IsFiniteSet(D), NEW parent, NEW pairs, Represents(parent, pairs, D)
  PROVE  Cardinality({DsuFind(parent, x) : x \in D}) = Cardinality({Group(pairs, D, x) : x \in D})
<1> DEFINE G == [x \in D |-> Group(pairs, D, x)]
           find == [x \in D |-> DsuFind(parent, x)]
           A == {find[x] : x \in D}
           B == {G[x] : x \in D}
           g == [i \in B |-> find[CHOOSE x \in D : G[x] = i]]
<1>1. \A x, y \in D : G[x] = G[y] <=> find[x] = find[y]
  BY GroupsTold
<1>2. IsFiniteSet(B)
  BY ImageFacts
<1> HIDE DEF G, find
<1>3. \A i \in B : \E x \in D : G[x] = i /\ g[i] = find[x]
  OBVIOUS
<1>4. A = {DsuFind(parent, x) : x \in D} /\ B = {Group(pairs, D, x) : x \in D}
  BY DEF G, find
<1> HIDE DEF g
<1>5. /\ \A i \in B : g[i] \in A
      /\ \A d \in A : \E i \in B : d = g[i]
      /\ \A i, j \in B : g[i] = g[j] => i = j
  <2>1. \A i \in B : g[i] \in A
    BY <1>3
  <2>2. \A x \in D : g[G[x]] = find[x]
    BY <1>1, <1>3
  <2>3. \A d \in A : \E i \in B : d = g[i]
    BY <2>2
  <2>4. \A i, j \in B : g[i] = g[j] => i = j
    BY <1>1, <1>3
  <2>5. QED
    BY <2>1, <2>3, <2>4
<1>6. Cardinality(A) = Cardinality(B)
  <2> HIDE DEF A, B
  <2>1. QED
    BY <1>2, <1>5, OneEach
<1>7. QED
  BY <1>4, <1>6

-----------------------------------------------------------------------------
\* The pairs of numbers in order, and that there are k (k - 1) / 2.
PairsAmong(k) == (k * (k - 1)) \div 2
Ascending(S) == {p \in S \X S : p[1] < p[2]}

LEMMA AscendingAdd ==
  ASSUME NEW S, S \subseteq Nat, IsFiniteSet(S), NEW x \in Nat, x \notin S
  PROVE  /\ IsFiniteSet(Ascending(S)) /\ Cardinality(Ascending(S)) \in Nat
         /\ Cardinality(Ascending(S \cup {x})) = Cardinality(Ascending(S)) + Cardinality(S)
<1> DEFINE g == [y \in S |-> IF y < x THEN <<y, x>> ELSE <<x, y>>]
           N == {g[y] : y \in S}
<1>1. IsFiniteSet(Ascending(S))
  <2>1. IsFiniteSet(S \X S)
    BY FS_Product
  <2>2. Ascending(S) \subseteq S \X S
    BY DEF Ascending
  <2>3. QED
    BY <2>1, <2>2, FS_Subset
<1>2. Cardinality(N) = Cardinality(S) /\ IsFiniteSet(N)
  <2>1. \A y, z \in S : g[y] = g[z] => y = z
    OBVIOUS
  <2> HIDE DEF g
  <2>2. QED
    BY <2>1, OneEach
<1>3. Ascending(S \cup {x}) = Ascending(S) \cup N
  <2>1. ASSUME NEW p \in Ascending(S \cup {x}) PROVE p \in Ascending(S) \cup N
    <3>1. p = <<p[1], p[2]>> /\ p[1] \in S \cup {x} /\ p[2] \in S \cup {x} /\ p[1] < p[2]
      BY <2>1 DEF Ascending
    <3>2. CASE p[1] \in S /\ p[2] \in S
      BY <3>1, <3>2 DEF Ascending
    <3>3. CASE p[1] = x
      <4>1. p[2] \in S /\ ~ (p[2] < x)
        BY <3>1, <3>3
      <4>2. p = g[p[2]]
        BY <3>1, <3>3, <4>1
      <4>3. QED
        BY <4>1, <4>2
    <3>4. CASE p[2] = x
      <4>1. p[1] \in S /\ p[1] < x
        BY <3>1, <3>4
      <4>2. p = g[p[1]]
        BY <3>1, <3>4, <4>1
      <4>3. QED
        BY <4>1, <4>2
    <3>5. QED
      BY <3>1, <3>2, <3>3, <3>4
  <2>2. ASSUME NEW y \in S PROVE g[y] \in Ascending(S \cup {x})
    <3>1. y \in Nat /\ y # x
      OBVIOUS
    <3>2. CASE y < x
      BY <3>2 DEF Ascending
    <3>3. CASE x < y
      BY <3>1, <3>3 DEF Ascending
    <3>4. QED
      BY <3>1, <3>2, <3>3
  <2>3. Ascending(S) \subseteq Ascending(S \cup {x})
    BY DEF Ascending
  <2>4. QED
    BY <2>1, <2>2, <2>3
<1>4. Ascending(S) \cap N = {}
  <2>1. \A p \in Ascending(S) : p[1] # x /\ p[2] # x
    BY DEF Ascending
  <2>2. \A y \in S : g[y][1] = x \/ g[y][2] = x
    OBVIOUS
  <2> HIDE DEF g
  <2>3. QED
    BY <2>1, <2>2
<1> HIDE DEF N
<1>5. Cardinality(Ascending(S) \cap N) = 0
  BY <1>4, FS_EmptySet
<1>6. Cardinality(Ascending(S) \cup N) = Cardinality(Ascending(S)) + Cardinality(N) - Cardinality(Ascending(S) \cap N)
  BY <1>1, <1>2, FS_Union
<1>7. Cardinality(Ascending(S)) \in Nat /\ Cardinality(N) \in Nat
  BY <1>1, <1>2, FS_CardinalityType
<1> DEFINE c == Cardinality(Ascending(S))
<1>8. Cardinality(Ascending(S \cup {x})) = c + Cardinality(S)
  <2>1. Cardinality(Ascending(S \cup {x})) = c + Cardinality(N) - 0
    BY <1>3, <1>5, <1>6
  <2> HIDE DEF c
  <2>2. QED
    BY <1>2, <1>7, <2>1 DEF c
<1>9. QED
  BY <1>1, <1>7, <1>8

LEMMA AscendingCount ==
  ASSUME NEW S, S \subseteq Nat, IsFiniteSet(S)
  PROVE  Cardinality(Ascending(S)) = PairsAmong(Cardinality(S))
<1> DEFINE P == {s \in SUBSET S : 2 * Cardinality(Ascending(s)) = Cardinality(s) * (Cardinality(s) - 1)}
<1>1. {} \in P
  <2>1. Ascending({}) = {}
    BY DEF Ascending
  <2>2. Cardinality({}) = 0
    BY FS_EmptySet
  <2>3. 0 * (0 - 1) = 0
    OBVIOUS
  <2>4. QED
    BY <2>1, <2>2, <2>3
<1>2. ASSUME NEW s \in SUBSET S, NEW x \in S \ s, s \in P PROVE s \cup {x} \in P
  <2> DEFINE k == Cardinality(s)
             c == Cardinality(Ascending(s))
  <2>1. IsFiniteSet(s) /\ s \subseteq Nat /\ x \in Nat /\ x \notin s
    BY FS_Subset
  <2>2. Cardinality(Ascending(s \cup {x})) = c + k /\ c \in Nat
    BY <2>1, AscendingAdd
  <2>3. Cardinality(s \cup {x}) = k + 1 /\ k \in Nat
    BY <2>1, FS_AddElement, FS_CardinalityType
  <2>4. 2 * c = k * (k - 1)
    BY <1>2
  <2> HIDE DEF k, c
  <2>5. (k + 1) * ((k + 1) - 1) = k * (k - 1) + 2 * k
    BY <2>3
  <2>6. 2 * (c + k) = (k + 1) * ((k + 1) - 1)
    BY <2>2, <2>3, <2>4, <2>5
  <2>7. QED
    BY <2>2, <2>3, <2>6
<1>3. S \in P
  <2> HIDE DEF P
  <2>1. QED
    BY <1>1, <1>2, SetInduction
<1> DEFINE c == Cardinality(Ascending(S))
           t == Cardinality(S) * (Cardinality(S) - 1)
<1>4. 2 * c = t
  BY <1>3
<1>5. c \in Nat
  <2>1. IsFiniteSet(S \X S)
    BY FS_Product
  <2>2. Ascending(S) \subseteq S \X S
    BY DEF Ascending
  <2>3. IsFiniteSet(Ascending(S))
    BY <2>1, <2>2, FS_Subset
  <2>4. QED
    BY <2>3, FS_CardinalityType
<1> HIDE DEF c, t
<1>6. c = t \div 2
  BY <1>4, <1>5
<1>7. QED
  BY <1>6 DEF c, t, PairsAmong

-----------------------------------------------------------------------------
\* A sum over the roots of the pairs below each is the number of the pairs
\* within a group.
BelowRoot(parent, D, r) == {x \in D : DsuFind(parent, x) = r}
InOneGroup(pairs, D) == {p \in D \X D : p[1] < p[2] /\ p[2] \in Group(pairs, D, p[1])}

LEMMA RootsAreFinite ==
  ASSUME NEW D, IsFiniteSet(D), NEW parent
  PROVE  IsFiniteSet({DsuFind(parent, x) : x \in D})
<1> DEFINE find == [x \in D |-> DsuFind(parent, x)]
<1>1. {find[x] : x \in D} = {DsuFind(parent, x) : x \in D}
  OBVIOUS
<1>2. IsFiniteSet({find[x] : x \in D})
  <2> HIDE DEF find
  <2>1. QED
    BY ImageFacts
<1>3. QED
  BY <1>1, <1>2

LEMMA PairsBelowRoots ==
  ASSUME NEW D, D \subseteq Nat, IsFiniteSet(D), NEW parent, NEW pairs, Represents(parent, pairs, D),
         NEW f, DOMAIN f = {DsuFind(parent, x) : x \in D},
         \A r \in DOMAIN f :
           f[r] = PairsAmong(Cardinality(BelowRoot(parent, D, r)))
  PROVE  SumOf(f) = Cardinality(InOneGroup(pairs, D))
<1> DEFINE R == DOMAIN f
           find == [x \in D |-> DsuFind(parent, x)]
           g == [r \in R |-> Ascending(BelowRoot(parent, D, r))]
           E == D \X D
           B == Belonging(g, R, E)
           W == InOneGroup(pairs, D)
           there == [b \in B |-> b[2]]
<1>1. IsFiniteSet(R)
  <2> DEFINE roots == {DsuFind(parent, x) : x \in D}
  <2>1. IsFiniteSet(roots)
    BY RootsAreFinite
  <2>2. R = roots
    OBVIOUS
  <2> HIDE DEF roots, R
  <2>3. QED
    BY <2>1, <2>2
<1>2. IsFiniteSet(E)
  BY FS_Product
<1>3. \A r \in R : g[r] \subseteq E
  BY DEF Ascending, BelowRoot
<1>4. \A r \in R : f[r] = Cardinality(g[r])
  <2>1. ASSUME NEW r \in R PROVE f[r] = Cardinality(g[r])
    <3> DEFINE S == BelowRoot(parent, D, r)
    <3>1. S \subseteq D
      BY DEF BelowRoot
    <3>2. S \subseteq Nat /\ IsFiniteSet(S)
      BY <3>1, FS_Subset
    <3>3. g[r] = Ascending(S)
      OBVIOUS
    <3>4. f[r] = PairsAmong(Cardinality(S))
      OBVIOUS
    <3> HIDE DEF S
    <3>5. Cardinality(Ascending(S)) = PairsAmong(Cardinality(S))
      BY <3>2, AscendingCount
    <3>6. QED
      BY <3>3, <3>4, <3>5
  <2>2. QED
    BY <2>1
<1>5. SumOf(f) = Cardinality(B)
  <2> HIDE DEF R, g, E
  <2>1. DOMAIN f = R
    BY DEF R
  <2>2. QED
    BY <1>1, <1>2, <1>3, <1>4, <2>1, SumCounts
<1>6. IsFiniteSet(B)
  <2>1. IsFiniteSet(R \X E)
    BY <1>1, <1>2, FS_Product
  <2>2. B \subseteq R \X E
    BY DEF Belonging
  <2> HIDE DEF B, R, E
  <2>3. QED
    BY <2>1, <2>2, FS_Subset
<1>7. \A p : p \in W <=> p \in E /\ p[1] < p[2] /\ find[p[1]] = find[p[2]]
  <2>1. \A p \in E : find[p[1]] = find[p[2]] <=> p[2] \in Group(pairs, D, p[1])
    BY FindTellsGroups
  <2> HIDE DEF find
  <2>2. QED
    BY <2>1 DEF InOneGroup
<1>8. \A r \in R : \A p : p \in g[r] <=> p \in E /\ p[1] < p[2] /\ find[p[1]] = r /\ find[p[2]] = r
  BY DEF Ascending, BelowRoot
<1>9. \A p \in E : find[p[1]] \in R
  OBVIOUS
<1> HIDE DEF R, E, g, find, W
<1>10. \A b \in B : b = <<b[1], b[2]>> /\ b[1] \in R /\ b[2] \in E /\ b[2] \in g[b[1]]
  BY DEF Belonging
<1>11. \A b \in B : there[b] = b[2]
  OBVIOUS
<1>12. \A p \in W : <<find[p[1]], p>> \in B
  BY <1>7, <1>8, <1>9 DEF Belonging
<1> HIDE DEF B, there
<1>13. \A b \in B : there[b] \in W /\ b = <<find[there[b][1]], there[b]>>
  BY <1>7, <1>8, <1>10, <1>11
<1>14. \A p \in W : \E b \in B : p = there[b]
  <2>1. ASSUME NEW p \in W PROVE p = there[<<find[p[1]], p>>]
    <3>1. <<find[p[1]], p>>[2] = p
      OBVIOUS
    <3>2. QED
      BY <1>11, <1>12, <3>1
  <2>2. QED
    BY <1>12, <2>1
<1>15. \A b, c \in B : there[b] = there[c] => b = c
  <2>1. ASSUME NEW b \in B, NEW c \in B, there[b] = there[c] PROVE b = c
    BY <1>13, <2>1
  <2>2. QED
    BY <2>1
<1>16. Cardinality(W) = Cardinality(B)
  BY <1>6, <1>13, <1>14, <1>15, OneEach
<1>17. QED
  BY <1>5, <1>16 DEF W

-----------------------------------------------------------------------------
\* Each of some numbers, but the last, with the next of them.
InTurn(U) == {<<m, Min({k \in U : k > m})>> : m \in U \ {Max(U)}}

LEMMA InTurnFacts ==
  ASSUME NEW n \in Nat, NEW U, U \subseteq 0..n
  PROVE  \A m \in U : m # Max(U) => /\ Min({k \in U : k > m}) \in U /\ Min({k \in U : k > m}) > m
                                    /\ <<m, Min({k \in U : k > m})>> \in InTurn(U)
<1>1. ASSUME NEW m \in U, m # Max(U)
      PROVE  Min({k \in U : k > m}) \in {k \in U : k > m}
  <2> DEFINE L == {k \in U : k > m}
             last == Max(U)
  <2>0. U \subseteq Nat
    OBVIOUS
  <2>1. Max(U) \in U /\ \A y \in U : y <= Max(U)
    BY MaxIsGreatest
  <2>2. last \in L
    <3>1. last \in U /\ m <= last /\ m # last
      BY <1>1, <2>1
    <3> HIDE DEF last
    <3>2. last > m
      BY <2>0, <3>1
    <3>3. QED
      BY <3>1, <3>2
  <2>3. L \subseteq Nat /\ L # {}
    <3> HIDE DEF last
    <3>1. QED
      BY <2>0, <2>2
  <2> HIDE DEF L
  <2>4. Min(L) \in L
    <3>1. PICK l \in L : \A t \in L : l <= t
      BY <2>3, MinIsLeast
    <3>2. QED
      BY <3>1 DEF Min
  <2>5. QED
    BY <2>4 DEF L
<1>2. QED
  BY <1>1 DEF InTurn

LEMMA MembersInTurn ==
  ASSUME NEW n \in Nat, NEW U, U \subseteq 0..n, NEW p \in InTurn(U)
  PROVE  p[1] \in U /\ p[2] \in U /\ p = <<p[1], p[2]>>
<1>1. PICK m \in U : m # Max(U) /\ p = <<m, Min({k \in U : k > m})>>
  BY DEF InTurn
<1>2. Min({k \in U : k > m}) \in U
  BY <1>1, InTurnFacts
<1>3. QED
  BY <1>1, <1>2

\* A set that keeps the numbers in turn keeps all of them together.
LEMMA InTurnIsAll ==
  ASSUME NEW n \in Nat, NEW U, U \subseteq 0..n, NEW S
  PROVE  Keeps(S, InTurn(U)) <=> Keeps(S, U \X U)
<1> DEFINE next(m) == Min({k \in U : k > m})
           last == Max(U)
           T == {m \in U : ~(m \in S <=> last \in S)}
<1>1. ASSUME Keeps(S, U \X U) PROVE Keeps(S, InTurn(U))
  <2>1. \A p \in InTurn(U) : p \in U \X U
    BY MembersInTurn
  <2>2. QED
    BY <1>1, <2>1 DEF Keeps
<1>2. ASSUME Keeps(S, InTurn(U)), T # {} PROVE FALSE
  <2> DEFINE u == Max(T)
  <2>1. u \in T /\ \A y \in T : y <= u
    BY <1>2, MaxIsGreatest
  <2>2. u \in U /\ u # last
    BY <2>1
  <2> HIDE DEF u, T
  <2>3. next(u) \in U /\ next(u) > u /\ <<u, next(u)>> \in InTurn(U)
    BY <2>2, InTurnFacts
  <2> HIDE DEF next, last
  <2>4. u \in S <=> next(u) \in S
    <3> DEFINE p == <<u, next(u)>>
    <3>1. p[1] = u /\ p[2] = next(u)
      OBVIOUS
    <3>2. p[1] \in S <=> p[2] \in S
      BY <1>2, <2>3 DEF Keeps
    <3>3. QED
      BY <3>1, <3>2
  <2>5. next(u) \in T
    BY <2>1, <2>3, <2>4 DEF T
  <2>6. u \in Nat /\ next(u) \in Nat
    <3>1. U \subseteq Nat
      OBVIOUS
    <3>2. QED
      BY <2>2, <2>3, <3>1
  <2>7. QED
    BY <2>1, <2>3, <2>5, <2>6
<1>3. ASSUME Keeps(S, InTurn(U)) PROVE Keeps(S, U \X U)
  <2>1. \A m \in U : m \in S <=> last \in S
    BY <1>2, <1>3
  <2> HIDE DEF last
  <2>2. QED
    BY <2>1 DEF Keeps
<1>4. QED
  BY <1>1, <1>3

\* Links are kept link by link.
LEMMA KeepsUnion ==
  ASSUME NEW S, NEW P, NEW Q
  PROVE  Keeps(S, P \cup Q) <=> Keeps(S, P) /\ Keeps(S, Q)
BY DEF Keeps

LEMMA KeepsUnions ==
  ASSUME NEW S, NEW F, NEW P
  PROVE  Keeps(S, UNION {P[f] : f \in F}) <=> \A f \in F : Keeps(S, P[f])
BY DEF Keeps

\* Some elements U[c] with one, M[c], each.
LEMMA KeepsStars ==
  ASSUME NEW S, NEW F, NEW U, NEW M
  PROVE  /\ Keeps(S, UNION {U[c] \X {M[c]} : c \in F})
              <=> \A c \in F : \A m \in U[c] : m \in S <=> M[c] \in S
         /\ Keeps(S, UNION {{<<m, M[c]>> : m \in U[c]} : c \in F})
              <=> \A c \in F : \A m \in U[c] : m \in S <=> M[c] \in S
<1> DEFINE A == UNION {U[c] \X {M[c]} : c \in F}
           B == UNION {{<<m, M[c]>> : m \in U[c]} : c \in F}
<1>1. A = B
  <2>1. ASSUME NEW c \in F PROVE U[c] \X {M[c]} = {<<m, M[c]>> : m \in U[c]}
    OBVIOUS
  <2>2. QED
    BY <2>1
<1>2. ASSUME NEW c \in F, NEW m \in U[c], Keeps(S, A) PROVE m \in S <=> M[c] \in S
  <2> DEFINE p == <<m, M[c]>>
  <2>1. p \in A /\ p[1] = m /\ p[2] = M[c]
    OBVIOUS
  <2> HIDE DEF p, A
  <2>2. p[1] \in S <=> p[2] \in S
    BY <1>2, <2>1 DEF Keeps
  <2>3. QED
    BY <2>1, <2>2
<1>3. ASSUME \A c \in F : \A m \in U[c] : m \in S <=> M[c] \in S, NEW p \in A
      PROVE  p[1] \in S <=> p[2] \in S
  <2>1. PICK c \in F : p \in U[c] \X {M[c]}
    OBVIOUS
  <2>2. p[1] \in U[c] /\ p[2] = M[c]
    BY <2>1
  <2>3. QED
    BY <1>3, <2>2
<1> HIDE DEF A, B
<1>4. Keeps(S, A) <=> \A c \in F : \A m \in U[c] : m \in S <=> M[c] \in S
  BY <1>2, <1>3 DEF Keeps
<1>5. QED
  BY <1>1, <1>4 DEF A, B

-----------------------------------------------------------------------------
\* The largest of the groups, found by how many elements are below each element
\* as its root: below one that is no root there are none.
RootSizes(parent, A) == {Cardinality({v \in A : DsuFind(parent, v) = u}) : u \in A}
GroupSizes(pairs, D, A) == {Cardinality(Group(pairs, D, u)) : u \in A}

LEMMA LargestGroup ==
  ASSUME NEW D, NEW pairs, pairs \subseteq D \X D, NEW parent, Represents(parent, pairs, D),
         NEW A, A = {p[1] : p \in pairs} \cup {p[2] : p \in pairs}
  PROVE  {0} \cup RootSizes(parent, A) = {0} \cup GroupSizes(pairs, D, A)
<1> DEFINE find(x) == DsuFind(parent, x)
           G(x) == Group(pairs, D, x)
           Below(u) == {v \in A : find(v) = u}
<1>1. PICK root, depth : /\ Forest(parent, root, depth, D)
                         /\ \A x, y \in D : root[x] = root[y] <=> y \in G(x)
  BY DEF Represents
<1>2. \A x \in D : find(x) = root[x] /\ root[x] \in D /\ root[root[x]] = root[x]
  BY <1>1, FindIsRoot, ForestFacts
<1>3. A \in SUBSET D /\ Keeps(A, pairs)
  BY DEF Keeps
<1>4. \A x \in A : G(x) \subseteq A /\ G(x) \subseteq D
  <2>1. \A p \in pairs : p[1] \in D /\ p[2] \in D
    OBVIOUS
  <2>2. ASSUME NEW x \in A
        PROVE  /\ Group(pairs, D, x) \subseteq D
               /\ \A S \in SUBSET D : x \in S /\ Keeps(S, pairs) => Group(pairs, D, x) \subseteq S
    <3>1. x \in D
      BY <1>3
    <3>2. QED
      BY <2>1, <3>1, GroupFacts
  <2>3. QED
    BY <1>3, <2>2
<1> HIDE DEF find, G
<1>5. ASSUME NEW x \in A PROVE Below(find(x)) = G(x) /\ find(x) \in A
  <2>1. \A y \in D : find(y) = find(x) <=> y \in G(x)
    BY <1>1, <1>2, <1>3
  <2>2. Below(find(x)) = G(x)
    BY <1>3, <1>4, <2>1
  <2>3. find(x) \in D /\ find(find(x)) = find(x)
    BY <1>2, <1>3
  <2>4. find(x) \in G(x)
    BY <2>1, <2>3
  <2>5. QED
    BY <1>4, <2>2, <2>4
<1>6. ASSUME NEW u \in A PROVE Cardinality(Below(u)) = 0 \/ \E x \in A : Below(u) = G(x)
  <2>1. CASE Below(u) = {}
    BY <2>1, FS_EmptySet
  <2>2. CASE Below(u) # {}
    <3>1. PICK x \in A : find(x) = u
      BY <2>2
    <3>2. QED
      BY <1>5, <3>1
  <2>3. QED
    BY <2>1, <2>2
<1>7. {0} \cup {Cardinality(Below(u)) : u \in A} = {0} \cup {Cardinality(G(u)) : u \in A}
  <2>1. \A u \in A : \E r \in A : Cardinality(G(u)) = Cardinality(Below(r))
    BY <1>5
  <2>2. \A u \in A : Cardinality(Below(u)) = 0 \/ \E x \in A : Cardinality(Below(u)) = Cardinality(G(x))
    BY <1>6
  <2> HIDE DEF Below
  <2>3. QED
    BY <2>1, <2>2
<1>8. QED
  BY <1>7, Zenon DEF find, G, Below, RootSizes, GroupSizes

=============================================================================
