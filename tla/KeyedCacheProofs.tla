------------------------- MODULE KeyedCacheProofs -------------------------
(***************************************************************************)
(* Proofs about KeyedCache and the normalisation it rests on, for every    *)
(* set of requests and purges.  Lemmas say what sorting, splitting,        *)
(* cleaning and joining compute, for texts of any length; the theorems at  *)
(* the end combine them with an invariant of the store, KeyedInv.          *)
(***************************************************************************)
EXTENDS KeyedCache, SequenceTheorems, FunctionTheorems, FiniteSetTheorems,
        WellFoundedInduction, TLAPS

-----------------------------------------------------------------------------
(* Induction, and parts of sequences.                                      *)

\* A set of natural numbers has a least element.
LEMMA Least ==
    ASSUME NEW T, T \subseteq Nat, T # {}
    PROVE  \E x \in T : \A y \in T : x <= y
<1> DEFINE R == OpToRel(<, Nat)
<1>1. IsWellFoundedOn(R, Nat)
  BY NatLessThanWellFounded
<1>2. R = {pair \in Nat \X Nat : pair[1] < pair[2]}
  BY DEF OpToRel
<1> HIDE DEF R
<1>3. PICK x \in T : \A y \in T : ~(<<y, x>> \in R)
  BY <1>1, WFMin, Zenon
<1>4. ASSUME NEW y \in T PROVE x <= y
  <2>1. x \in Nat /\ y \in Nat
    OBVIOUS
  <2>2. ~(y < x)
    BY <1>2, <1>3, <2>1
  <2>3. QED
    BY <2>1, <2>2
<1>5. QED
  BY <1>4

\* Induction over the natural numbers, for a set.
LEMMA SetInduction ==
    ASSUME NEW T, T \subseteq Nat, 0 \in T, \A n \in T : n + 1 \in T
    PROVE  T = Nat
<1> SUFFICES ASSUME Nat \ T # {} PROVE FALSE
  OBVIOUS
<1>1. PICK x \in Nat \ T : \A y \in Nat \ T : x <= y
  BY Least
<1>2. x # 0 /\ x - 1 \in Nat /\ x - 1 \in T
  BY <1>1
<1>3. QED
  BY <1>2

-----------------------------------------------------------------------------
(* Sorting.                                                                *)

\* Position j comes before position i, or is i.
Upto(s, i) ==
    {j \in DOMAIN s : \/ Place(s[j]) < Place(s[i])
                      \/ Place(s[j]) = Place(s[i]) /\ j <= i}

\* The positions of a text.
LEMMA DomainProperties ==
    ASSUME NEW s \in Text
    PROVE  /\ DOMAIN s = 1 .. Len(s) /\ Len(s) \in Nat /\ DOMAIN s \subseteq Int
           /\ IsFiniteSet(DOMAIN s) /\ Cardinality(DOMAIN s) = Len(s)
<1>1. DOMAIN s = 1 .. Len(s) /\ Len(s) \in Nat
  BY LenProperties DEF Text
<1>2. IsFiniteSet(1 .. Len(s)) /\ Cardinality(1 .. Len(s)) = IF 1 > Len(s) THEN 0 ELSE Len(s) - 1 + 1
  BY <1>1, FS_Interval
<1>3. QED
  BY <1>1, <1>2

LEMMA PlaceType ==
    ASSUME NEW s \in Text, NEW i \in DOMAIN s
    PROVE  Place(s[i]) \in Nat
<1>1. s[i] \in Char
  BY DEF Text
<1>2. s[i][2] \in Nat
  BY <1>1 DEF Char
<1>3. QED
  BY <1>2 DEF Place

\* The ranks are the positions, each taken once.
LEMMA RankProperties ==
    ASSUME NEW s \in Text
    PROVE  /\ \A i \in DOMAIN s : Rank(s, i) \in DOMAIN s
           /\ \A i, j \in DOMAIN s : Rank(s, i) = Rank(s, j) => i = j
           /\ \A n \in DOMAIN s : \E i \in DOMAIN s : Rank(s, i) = n
           /\ \A i, j \in DOMAIN s : Place(s[i]) < Place(s[j]) => Rank(s, i) < Rank(s, j)
<1> DEFINE D == DOMAIN s
           P(i) == Place(s[i])
           r == [i \in D |-> Rank(s, i)]
<1>1. /\ D = 1 .. Len(s) /\ Len(s) \in Nat /\ D \subseteq Int
      /\ IsFiniteSet(D) /\ Cardinality(D) = Len(s)
  BY DomainProperties
<1>2. \A i \in D : P(i) \in Nat
  BY PlaceType
<1>3. \A i \in D : Rank(s, i) = Cardinality(Upto(s, i))
  BY DEF Rank, Upto
<1>4. \A i \in D : /\ Upto(s, i) \subseteq D /\ i \in Upto(s, i)
                   /\ IsFiniteSet(Upto(s, i)) /\ Cardinality(Upto(s, i)) \in 1 .. Len(s)
  <2> SUFFICES ASSUME NEW i \in D
               PROVE  /\ Upto(s, i) \subseteq D /\ i \in Upto(s, i)
                      /\ IsFiniteSet(Upto(s, i)) /\ Cardinality(Upto(s, i)) \in 1 .. Len(s)
    OBVIOUS
  <2>1. Upto(s, i) \subseteq D /\ i \in Upto(s, i)
    BY <1>1, <1>2 DEF Upto
  <2>2. IsFiniteSet(Upto(s, i)) /\ Cardinality(Upto(s, i)) <= Len(s)
    BY <1>1, <2>1, FS_Subset
  <2>3. Cardinality(Upto(s, i)) \in Nat /\ Cardinality(Upto(s, i)) # 0
    BY <2>1, <2>2, FS_CardinalityType, FS_EmptySet
  <2>4. QED
    BY <1>1, <2>1, <2>2, <2>3
<1>5. ASSUME NEW i \in D, NEW j \in D, P(i) < P(j) \/ (P(i) = P(j) /\ i < j)
      PROVE  Cardinality(Upto(s, i)) < Cardinality(Upto(s, j))
  <2>0. i \in Int /\ j \in Int /\ P(i) \in Nat /\ P(j) \in Nat
    BY <1>1, <1>2
  <2>1. j \notin Upto(s, i)
    BY <1>5, <2>0 DEF Upto
  <2>2. ASSUME NEW x \in Upto(s, i) PROVE x \in Upto(s, j)
    <3>1. x \in D /\ x \in Int /\ P(x) \in Nat /\ (P(x) < P(i) \/ (P(x) = P(i) /\ x <= i))
      BY <1>1, <1>2 DEF Upto
    <3>2. P(x) < P(j) \/ (P(x) = P(j) /\ x <= j)
      BY <1>5, <2>0, <3>1
    <3>3. QED
      BY <3>1, <3>2 DEF Upto
  <2>3. Upto(s, i) \subseteq Upto(s, j) /\ Upto(s, i) # Upto(s, j)
    BY <1>4, <2>1, <2>2
  <2>4. Cardinality(Upto(s, i)) <= Cardinality(Upto(s, j)) /\ Cardinality(Upto(s, i)) # Cardinality(Upto(s, j))
    BY <1>4, <2>3, FS_Subset
  <2>5. Cardinality(Upto(s, i)) \in Nat /\ Cardinality(Upto(s, j)) \in Nat
    BY <1>1, <1>4
  <2>6. QED
    BY <2>4, <2>5
<1> HIDE DEF P
<1>6. ASSUME NEW i \in D, NEW j \in D, Rank(s, i) = Rank(s, j) PROVE i = j
  <2>1. \/ i = j \/ P(i) < P(j) \/ (P(i) = P(j) /\ i < j)
        \/ P(j) < P(i) \/ (P(j) = P(i) /\ j < i)
    BY <1>1, <1>2
  <2>2. Cardinality(Upto(s, i)) = Cardinality(Upto(s, j)) /\ Cardinality(Upto(s, i)) \in Nat
    BY <1>1, <1>3, <1>4, <1>6
  <2>3. ~(Cardinality(Upto(s, i)) < Cardinality(Upto(s, j))) /\ ~(Cardinality(Upto(s, j)) < Cardinality(Upto(s, i)))
    BY <2>2
  <2>4. QED
    BY <1>5, <2>1, <2>3
<1>7. \A i \in D : Rank(s, i) \in D
  BY <1>1, <1>3, <1>4
<1>8. r \in Injection(D, D)
  BY <1>6, <1>7, Fun_IsInj
<1>9. r \in Surjection(D, D)
  BY <1>1, <1>8, FS_Injection
<1>10. \A n \in D : \E i \in D : Rank(s, i) = n
  <2>1. \A n \in D : \E i \in D : r[i] = n
    BY <1>9, Fun_SurjectionProperties
  <2>2. QED
    BY <2>1
<1>11. ASSUME NEW i \in D, NEW j \in D, Place(s[i]) < Place(s[j]) PROVE Rank(s, i) < Rank(s, j)
  BY <1>3, <1>5, <1>11 DEF P
<1>12. QED
  BY <1>6, <1>7, <1>10, <1>11

\* s in another order, by the permutation p of its positions.
By(s, t, p) ==
    /\ DOMAIN t = DOMAIN s
    /\ p \in [DOMAIN s -> DOMAIN s]
    /\ \A i, j \in DOMAIN s : p[i] = p[j] => i = j
    /\ \A j \in DOMAIN s : \E i \in DOMAIN s : p[i] = j
    /\ \A i \in DOMAIN s : t[i] = s[p[i]]

InOrder(s) == \A i, j \in DOMAIN s : i < j => Place(s[i]) <= Place(s[j])

\* Sorted brings the items in order, and loses none.
LEMMA SortedProperties ==
    ASSUME NEW s \in Text
    PROVE  /\ Sorted(s) \in Text /\ Len(Sorted(s)) = Len(s)
           /\ InOrder(Sorted(s))
           /\ \E p : By(s, Sorted(s), p)
<1> DEFINE D == DOMAIN s
           p == [n \in D |-> CHOOSE i \in D : Rank(s, i) = n]
           t == Sorted(s)
<1>1. D = 1 .. Len(s) /\ Len(s) \in Nat
  BY LenProperties DEF Text
<1>2. ASSUME NEW n \in D PROVE p[n] \in D /\ Rank(s, p[n]) = n
  BY RankProperties
<1>3. t = [n \in D |-> s[p[n]]]
  BY DEF Sorted
<1> HIDE DEF p, t
<1>4. p \in [D -> D]
  BY <1>2 DEF p
<1>5. t \in Text /\ Len(t) = Len(s) /\ DOMAIN t = D
  BY <1>1, <1>2, <1>3 DEF Text
<1>6. InOrder(t)
  <2> SUFFICES ASSUME NEW i \in D, NEW j \in D, i < j PROVE Place(t[i]) <= Place(t[j])
    BY <1>5 DEF InOrder
  <2>1. /\ p[i] \in D /\ p[j] \in D /\ Rank(s, p[i]) = i /\ Rank(s, p[j]) = j
        /\ t[i] = s[p[i]] /\ t[j] = s[p[j]]
    BY <1>2, <1>3
  <2>2. ~(Place(s[p[j]]) < Place(s[p[i]]))
    <3>1. Place(s[p[j]]) < Place(s[p[i]]) => j < i
      BY <2>1, RankProperties
    <3>2. QED
      BY <1>1, <3>1
  <2>3. Place(s[p[i]]) \in Nat /\ Place(s[p[j]]) \in Nat
    BY <2>1, PlaceType
  <2>4. QED
    BY <2>1, <2>2, <2>3
<1>7. \A i, j \in D : p[i] = p[j] => i = j
  BY <1>2
<1>8. ASSUME NEW j \in D PROVE \E i \in D : p[i] = j
  <2>1. Rank(s, j) \in D
    BY RankProperties
  <2>2. p[Rank(s, j)] = j
    BY <1>2, <2>1, RankProperties
  <2>3. QED
    BY <2>1, <2>2
<1>9. By(s, t, p)
  BY <1>3, <1>4, <1>5, <1>7, <1>8 DEF By
<1>10. QED
  BY <1>5, <1>6, <1>9 DEF t

\* In order, the item at a position is at most the one that a rearrangement
\* in order has there: one of the first i comes from position i or later.
LEMMA OrderBound ==
    ASSUME NEW s \in Text, NEW t \in Text, NEW p, By(s, t, p), InOrder(s), InOrder(t),
           NEW i \in DOMAIN s
    PROVE  Place(s[i]) <= Place(t[i])
<1>1. /\ DOMAIN s = 1 .. Len(s) /\ Len(s) \in Nat /\ DOMAIN t = DOMAIN s
      /\ p \in [DOMAIN s -> DOMAIN s]
      /\ \A x, y \in DOMAIN s : p[x] = p[y] => x = y
      /\ \A x \in DOMAIN s : t[x] = s[p[x]]
  BY LenProperties DEF Text, By
<1>2. \E j \in 1 .. i : p[j] >= i
  <2> SUFFICES ASSUME \A j \in 1 .. i : ~(p[j] >= i) PROVE FALSE
    OBVIOUS
  <2>0. i \in Int /\ i >= 1 /\ 1 .. i \subseteq DOMAIN s
    BY <1>1
  <2>1. \A j \in 1 .. i : p[j] \in 1 .. i - 1
    <3> SUFFICES ASSUME NEW j \in 1 .. i PROVE p[j] \in 1 .. i - 1
      OBVIOUS
    <3>1. p[j] \in 1 .. Len(s) /\ ~(p[j] >= i)
      BY <1>1, <2>0
    <3>2. QED
      BY <2>0, <3>1, <1>1
  <2> DEFINE q == [j \in 1 .. i |-> p[j]]
  <2>2. q \in [1 .. i -> 1 .. i - 1]
    BY <2>1
  <2>3. /\ IsFiniteSet(1 .. i) /\ Cardinality(1 .. i) = i
        /\ IsFiniteSet(1 .. i - 1) /\ Cardinality(1 .. i - 1) = i - 1
    <3>1. Cardinality(1 .. i - 1) = IF 1 > i - 1 THEN 0 ELSE (i - 1) - 1 + 1
      BY <2>0, FS_Interval
    <3>2. Cardinality(1 .. i) = IF 1 > i THEN 0 ELSE i - 1 + 1
      BY <2>0, FS_Interval
    <3>3. QED
      BY <2>0, <3>1, <3>2, FS_Interval
  <2>4. Cardinality(1 .. i - 1) < Cardinality(1 .. i)
    BY <2>0, <2>3
  <2> HIDE DEF q
  <2>5. \E x, y \in 1 .. i : x # y /\ q[x] = q[y]
    BY <2>2, <2>3, <2>4, FS_PigeonHole, Zenon
  <2>6. QED
    BY <1>1, <2>0, <2>5 DEF q
<1>3. PICK j \in 1 .. i : p[j] >= i
  BY <1>2
<1>4. /\ j \in DOMAIN s /\ p[j] \in DOMAIN s /\ p[j] \in Int /\ i \in Int /\ j \in Int
      /\ j <= i /\ i <= p[j]
  BY <1>1, <1>3
<1>5. Place(s[i]) <= Place(s[p[j]])
  <2>1. CASE p[j] = i
    BY <2>1, PlaceType
  <2>2. CASE i < p[j]
    BY <1>4, <2>2 DEF InOrder
  <2>3. QED
    BY <1>4, <2>1, <2>2
<1>6. Place(t[j]) <= Place(t[i])
  <2>1. CASE j = i
    BY <1>1, <2>1, PlaceType
  <2>2. CASE j < i
    BY <1>1, <1>4, <2>2 DEF InOrder
  <2>3. QED
    BY <1>4, <2>1, <2>2
<1>7. Place(s[i]) \in Nat /\ Place(s[p[j]]) \in Nat /\ Place(t[i]) \in Nat /\ t[j] = s[p[j]]
  BY <1>1, <1>4, PlaceType
<1>8. QED
  BY <1>5, <1>6, <1>7

\* By is symmetric ...
LEMMA ByInverse ==
    ASSUME NEW s, NEW t, NEW p, By(s, t, p)
    PROVE  \E q : By(t, s, q)
<1> DEFINE D == DOMAIN s
           q == [j \in D |-> CHOOSE i \in D : p[i] = j]
<1>1. /\ DOMAIN t = D /\ p \in [D -> D]
      /\ \A i, j \in D : p[i] = p[j] => i = j
      /\ \A j \in D : \E i \in D : p[i] = j
      /\ \A i \in D : t[i] = s[p[i]]
  BY DEF By
<1>2. \A j \in D : q[j] \in D /\ p[q[j]] = j
  BY <1>1
<1>3. q \in [D -> D]
  BY <1>2
<1> HIDE DEF q
<1>4. \A i, j \in D : q[i] = q[j] => i = j
  BY <1>2
<1>5. ASSUME NEW i \in D PROVE q[p[i]] = i /\ p[i] \in D
  BY <1>1, <1>2
<1>6. \A j \in D : s[j] = t[q[j]]
  BY <1>1, <1>2
<1>7. By(t, s, q)
  BY <1>1, <1>3, <1>4, <1>5, <1>6 DEF By
<1>8. QED
  BY <1>7

\* ... and transitive.
LEMMA ByCompose ==
    ASSUME NEW s, NEW t, NEW u, NEW p, NEW q, By(s, t, p), By(t, u, q)
    PROVE  \E o : By(s, u, o)
<1> DEFINE D == DOMAIN s
           o == [i \in D |-> p[q[i]]]
<1>1. /\ DOMAIN t = D /\ p \in [D -> D]
      /\ \A i, j \in D : p[i] = p[j] => i = j
      /\ \A j \in D : \E i \in D : p[i] = j
      /\ \A i \in D : t[i] = s[p[i]]
  BY DEF By
<1>2. /\ DOMAIN u = D /\ q \in [D -> D]
      /\ \A i, j \in D : q[i] = q[j] => i = j
      /\ \A j \in D : \E i \in D : q[i] = j
      /\ \A i \in D : u[i] = t[q[i]]
  BY <1>1 DEF By
<1>3. o \in [D -> D]
  BY <1>1, <1>2
<1>4. ASSUME NEW j \in D PROVE \E i \in D : o[i] = j
  <2>1. PICK x \in D : p[x] = j
    BY <1>1
  <2>2. PICK i \in D : q[i] = x
    BY <1>2
  <2>3. QED
    BY <2>1, <2>2
<1>5. \A i, j \in D : o[i] = o[j] => i = j
  BY <1>1, <1>2
<1>6. \A i \in D : u[i] = s[o[i]]
  BY <1>1, <1>2
<1> HIDE DEF o
<1>7. By(s, u, o)
  BY <1>2, <1>3, <1>4, <1>5, <1>6 DEF By
<1>8. QED
  BY <1>7

\* Items of the same place are the same.
Distinct(s) == \A i, j \in DOMAIN s : Place(s[i]) = Place(s[j]) => s[i] = s[j]

\* There is only one order.
LEMMA OrderUnique ==
    ASSUME NEW s \in Text, NEW t \in Text, NEW p, By(s, t, p), InOrder(s), InOrder(t), Distinct(s)
    PROVE  s = t
<1>1. PICK q : By(t, s, q)
  BY ByInverse
<1>2. DOMAIN t = DOMAIN s /\ \A i \in DOMAIN s : p[i] \in DOMAIN s /\ t[i] = s[p[i]]
  BY DEF By
<1>3. ASSUME NEW i \in DOMAIN s PROVE s[i] = t[i]
  <2>1. Place(s[i]) <= Place(t[i])
    BY OrderBound
  <2>2. Place(t[i]) <= Place(s[i])
    BY <1>1, <1>2, OrderBound
  <2>3. Place(s[i]) \in Nat /\ Place(t[i]) \in Nat
    BY <1>2, PlaceType
  <2>4. Place(s[i]) = Place(s[p[i]])
    BY <1>2, <2>1, <2>2, <2>3
  <2>5. QED
    BY <1>2, <2>4 DEF Distinct
<1>4. QED
  <2>1. s \in [DOMAIN s -> Char] /\ t \in [DOMAIN t -> Char]
    BY DEF Text
  <2>2. QED
    BY <1>2, <1>3, <2>1

\* Sorting sees no difference between two orders of the same items.
LEMMA SortedUnique ==
    ASSUME NEW s \in Text, NEW t \in Text, NEW p, By(s, t, p), Distinct(s)
    PROVE  Sorted(s) = Sorted(t)
<1>1. /\ Sorted(s) \in Text /\ InOrder(Sorted(s)) /\ Sorted(t) \in Text /\ InOrder(Sorted(t))
  BY SortedProperties
<1>2. PICK a : By(s, Sorted(s), a)
  BY SortedProperties
<1>3. PICK b : By(t, Sorted(t), b)
  BY SortedProperties
<1>4. PICK c : By(s, Sorted(t), c)
  BY <1>3, ByCompose
<1>5. PICK d : By(Sorted(s), s, d)
  BY <1>2, ByInverse
<1>6. PICK e : By(Sorted(s), Sorted(t), e)
  BY <1>4, <1>5, ByCompose
<1>7. Distinct(Sorted(s))
  BY <1>2 DEF Distinct, By
<1>8. QED
  BY <1>1, <1>6, <1>7, OrderUnique

\* What is in order stays as it is.
LEMMA SortedIdempotent ==
    ASSUME NEW s \in Text, InOrder(s), Distinct(s)
    PROVE  Sorted(s) = s
<1>1. Sorted(s) \in Text /\ InOrder(Sorted(s)) /\ \E p : By(s, Sorted(s), p)
  BY SortedProperties
<1>2. QED
  BY <1>1, OrderUnique

-----------------------------------------------------------------------------
(* Queries and encodings.                                                  *)

\* What may be asked for; see RequestsAssumption.
QueryOK(q) ==
    /\ q \in Text
    /\ Unescapable(q) => \A i \in DOMAIN q : q[i] = Bar \/ (q[i][1] = "p" /\ q[i][2] > 0)

\* An escaped item is no bar, and its place says which it is.
LEMMA EscapeProperties ==
    ASSUME NEW q, QueryOK(q), Unescapable(q)
    PROVE  /\ Escape(q) \in Text /\ DOMAIN Escape(q) = DOMAIN q /\ Len(Escape(q)) = Len(q)
           /\ Distinct(Escape(q))
           /\ \A i \in DOMAIN q : Escape(q)[i] = <<"|", 1>> \/ Escape(q)[i][1] = "p"
<1> DEFINE e == Escape(q)
<1>1. q \in Seq(Char) /\ \A i \in DOMAIN q : q[i] \in Char /\ (q[i] = Bar \/ (q[i][1] = "p" /\ q[i][2] > 0))
  BY DEF QueryOK, Text
<1>2. <<"|", 1>> \in Char /\ Bar \in Char
  BY AlphabetAssumption DEF Char, Bar
<1>3. e = [i \in DOMAIN q |-> IF q[i] = Bar THEN <<"|", 1>> ELSE q[i]]
  BY DEF Escape
<1> HIDE DEF e
<1>4. e \in Seq(Char) /\ DOMAIN e = DOMAIN q /\ Len(e) = Len(q)
  <2>1. DOMAIN q = 1 .. Len(q) /\ Len(q) \in Nat
    BY <1>1, LenProperties
  <2>2. e \in [1 .. Len(q) -> Char]
    BY <1>1, <1>2, <1>3, <2>1
  <2>3. QED
    BY <2>1, <2>2
<1>5. \A i \in DOMAIN q : \/ e[i] = <<"|", 1>>
                          \/ e[i] = q[i] /\ e[i][1] = "p" /\ e[i][2] > 0
  BY <1>1, <1>3
<1>6. \A i \in DOMAIN q : e[i] \in Char /\ e[i] = <<e[i][1], e[i][2]>> /\ e[i][2] \in Nat
  BY <1>1, <1>2, <1>3 DEF Char
<1>7. Distinct(e)
  <2> SUFFICES ASSUME NEW i \in DOMAIN q, NEW j \in DOMAIN q, Place(e[i]) = Place(e[j]) PROVE e[i] = e[j]
    BY <1>4 DEF Distinct
  <2>1. /\ e[i] = <<"|", 1>> \/ (e[i][1] = "p" /\ e[i][2] > 0)
        /\ e[j] = <<"|", 1>> \/ (e[j][1] = "p" /\ e[j][2] > 0)
    BY <1>5
  <2>2. e[i] = <<"|", 1>> => Place(e[i]) = 0
    BY DEF Place
  <2>3. e[j] = <<"|", 1>> => Place(e[j]) = 0
    BY DEF Place
  <2>4. e[i][1] = "p" => Place(e[i]) = e[i][2]
    BY DEF Place
  <2>5. e[j][1] = "p" => Place(e[j]) = e[j][2]
    BY DEF Place
  <2>6. CASE e[i] = <<"|", 1>> /\ e[j] = <<"|", 1>>
    BY <2>6
  <2>7. CASE e[i][1] = "p" /\ e[j][1] = "p"
    <3>1. e[i][2] = e[j][2]
      BY <2>4, <2>5, <2>7
    <3>2. QED
      BY <1>6, <2>7, <3>1
  <2>8. e[i][2] \in Nat /\ e[j][2] \in Nat
    BY <1>6
  <2>9. QED
    BY <2>1, <2>2, <2>3, <2>4, <2>5, <2>6, <2>7, <2>8
<1>8. QED
  BY <1>4, <1>5, <1>7 DEF e, Text

\* A normalised query is a text; it is in normal form.
LEMMA QueryProperties ==
    ASSUME NEW q, QueryOK(q)
    PROVE  Query(q) \in Text /\ Query(Query(q)) = Query(q)
<1>1. CASE ~Unescapable(q)
  BY <1>1 DEF Query, QueryOK
<1>2. CASE Unescapable(q)
  <2> DEFINE e == Escape(q)
             t == Sorted(Escape(q))
  <2>1. /\ e \in Text /\ DOMAIN e = DOMAIN q /\ Distinct(e)
        /\ \A i \in DOMAIN q : e[i] = <<"|", 1>> \/ e[i][1] = "p"
    BY <1>2, EscapeProperties
  <2>2. t \in Text /\ InOrder(t) /\ \E p : By(e, t, p)
    BY <2>1, SortedProperties
  <2>3. Query(q) = t
    BY <1>2 DEF Query
  <2> HIDE DEF e, t
  <2>4. Distinct(t) /\ \A i \in DOMAIN t : t[i] = <<"|", 1>> \/ t[i][1] = "p"
    BY <2>1, <2>2 DEF Distinct, By
  <2>5. \A i \in DOMAIN t : t[i] # Bar /\ t[i] # Percent
    BY <2>4 DEF Bar, Percent
  <2>6. Unescapable(t)
    <3>1. DOMAIN t = 1 .. Len(t)
      BY <2>2, DomainProperties
    <3>2. QED
      BY <2>5, <3>1 DEF Unescapable, Contains
  <2>7. Escape(t) = t
    <3>1. t \in [DOMAIN t -> Char]
      BY <2>2 DEF Text
    <3>2. QED
      BY <2>5, <3>1 DEF Escape
  <2>8. Sorted(t) = t
    BY <2>2, <2>4, SortedIdempotent
  <2>9. Query(t) = t
    BY <2>6, <2>7, <2>8 DEF Query
  <2>10. QED
    BY <2>2, <2>3, <2>9
<1>3. QED
  BY <1>1, <1>2

Names(ae) == [i \in DOMAIN ae |-> <<"e", ae[i].enc>>]

Accept == Seq([enc : Nat, q : Nat])

\* The encodings a header lists, or implies.
Listed(ae) == IF ae = <<>> THEN {Identity} ELSE {ae[i].enc : i \in DOMAIN ae}

\* The names of a header as items to be sorted.
LEMMA NamesProperties ==
    ASSUME NEW ae \in Accept
    PROVE  /\ Names(ae) \in Text /\ DOMAIN Names(ae) = DOMAIN ae /\ Distinct(Names(ae))
           /\ \A i \in DOMAIN ae : Names(ae)[i] = <<"e", ae[i].enc>>
<1> DEFINE t == Names(ae)
<1>1. ae \in Seq([enc : Nat, q : Nat]) /\ DOMAIN ae = 1 .. Len(ae) /\ Len(ae) \in Nat
  BY LenProperties DEF Accept
<1>2. \A i \in DOMAIN ae : ae[i].enc \in Nat
  <2>1. \A i \in 1 .. Len(ae) : ae[i] \in [enc : Nat, q : Nat]
    BY <1>1, ElementOfSeq
  <2>2. QED
    BY <1>1, <2>1
<1>3. DOMAIN t = DOMAIN ae /\ \A i \in DOMAIN ae : t[i] = <<"e", ae[i].enc>>
  BY DEF Names
<1>4. \A i \in DOMAIN ae : t[i] \in Char
  <2>1. "e" \in Alphabet
    BY AlphabetAssumption
  <2>2. ASSUME NEW i \in DOMAIN ae PROVE <<"e", ae[i].enc>> \in Char
    BY <1>2, <2>1 DEF Char
  <2>3. QED
    BY <1>3, <2>2
<1>5. t = [i \in 1 .. Len(ae) |-> t[i]]
  BY <1>1 DEF Names
<1> HIDE DEF t
<1>6. t \in Seq(Char)
  BY <1>1, <1>4, <1>5
<1>7. \A i \in DOMAIN ae : Place(t[i]) = ae[i].enc
  BY <1>3 DEF Place
<1>8. Distinct(t)
  BY <1>3, <1>7 DEF Distinct
<1>9. QED
  BY <1>3, <1>6, <1>8 DEF t, Text

\* The last part of a key has no bar, and shows which encodings were listed.
LEMMA AcceptProperties ==
    ASSUME NEW ae \in Accept
    PROVE  /\ AcceptEncoding(ae) \in Text
           /\ \A i \in DOMAIN AcceptEncoding(ae) : AcceptEncoding(ae)[i] # Bar
           /\ {AcceptEncoding(ae)[i][2] : i \in DOMAIN AcceptEncoding(ae)} = Listed(ae)
<1>1. CASE ae = <<>>
  <2> DEFINE t == << <<"e", Identity>> >>
  <2>1. AcceptEncoding(ae) = t
    BY <1>1 DEF AcceptEncoding
  <2>2. t \in Text
    BY AlphabetAssumption DEF Text, Char, Identity
  <2>3. DOMAIN t = {1} /\ t[1] = <<"e", Identity>>
    OBVIOUS
  <2> HIDE DEF t
  <2>4. \A i \in DOMAIN t : t[i] # Bar
    BY <2>3 DEF Bar
  <2>5. {t[i][2] : i \in DOMAIN t} = {Identity}
    BY <2>3
  <2>6. QED
    BY <1>1, <2>1, <2>2, <2>4, <2>5 DEF Listed
<1>2. CASE ae # <<>>
  <2> DEFINE t == Sorted(Names(ae))
  <2>1. AcceptEncoding(ae) = t
    BY <1>2 DEF AcceptEncoding, Names
  <2>2. /\ Names(ae) \in Text /\ DOMAIN Names(ae) = DOMAIN ae
        /\ \A i \in DOMAIN ae : Names(ae)[i] = <<"e", ae[i].enc>>
    BY NamesProperties
  <2>3. t \in Text
    BY <2>2, SortedProperties
  <2>4. PICK p : By(Names(ae), t, p)
    BY <2>2, SortedProperties
  <2> HIDE DEF t
  <2>5. /\ DOMAIN t = DOMAIN ae
        /\ \A j \in DOMAIN ae : \E i \in DOMAIN ae : p[i] = j
        /\ \A i \in DOMAIN ae : p[i] \in DOMAIN ae /\ t[i] = Names(ae)[p[i]]
    BY <2>2, <2>4 DEF By
  <2>6. \A i \in DOMAIN ae : p[i] \in DOMAIN ae /\ t[i] = <<"e", ae[p[i]].enc>>
    BY <2>2, <2>5
  <2>7. \A i \in DOMAIN t : t[i] # Bar
    BY <2>5, <2>6 DEF Bar
  <2>8. \A i \in DOMAIN ae : t[i][2] = ae[p[i]].enc
    BY <2>6
  <2>9. {t[i][2] : i \in DOMAIN t} = {ae[i].enc : i \in DOMAIN ae}
    <3>1. ASSUME NEW i \in DOMAIN t PROVE t[i][2] \in {ae[j].enc : j \in DOMAIN ae}
      BY <2>5, <2>8
    <3>2. ASSUME NEW j \in DOMAIN ae PROVE ae[j].enc \in {t[i][2] : i \in DOMAIN t}
      <4>1. PICK i \in DOMAIN ae : p[i] = j
        BY <2>5
      <4>2. t[i][2] = ae[j].enc /\ i \in DOMAIN t
        BY <2>5, <2>8, <4>1
      <4>3. QED
        BY <4>2
    <3>3. QED
      BY <3>1, <3>2
  <2>10. QED
    BY <1>2, <2>1, <2>3, <2>7, <2>9 DEF Listed
<1>3. QED
  BY <1>1, <1>2

-----------------------------------------------------------------------------
(* Keys.                                                                   *)

\* A text, a separator, and another text.
Join(x, sep, y) == x \o <<sep>> \o y

\* One text after another.
LEMMA ConcatEffect ==
    ASSUME NEW x \in Text, NEW y \in Text
    PROVE  /\ x \o y \in Text /\ Len(x \o y) = Len(x) + Len(y)
           /\ \A i \in 1 .. Len(x) : (x \o y)[i] = x[i]
           /\ \A i \in 1 .. Len(y) : (x \o y)[Len(x) + i] = y[i]
<1>0. Len(x) \in Nat /\ Len(y) \in Nat
  BY DomainProperties
<1>1. /\ x \o y \in Seq(Char) /\ Len(x \o y) = Len(x) + Len(y)
      /\ \A i \in 1 .. Len(x) + Len(y) :
            (x \o y)[i] = IF i <= Len(x) THEN x[i] ELSE y[i - Len(x)]
  BY ConcatProperties, Zenon DEF Text
<1>2. ASSUME NEW i \in 1 .. Len(x) PROVE (x \o y)[i] = x[i]
  BY <1>0, <1>1
<1>3. ASSUME NEW i \in 1 .. Len(y) PROVE (x \o y)[Len(x) + i] = y[i]
  <2>1. Len(x) + i \in 1 .. Len(x) + Len(y) /\ ~(Len(x) + i <= Len(x)) /\ (Len(x) + i) - Len(x) = i
    BY <1>0
  <2>2. (x \o y)[Len(x) + i] = y[(Len(x) + i) - Len(x)]
    BY <1>1, <2>1
  <2>3. QED
    BY <2>1, <2>2
<1>4. QED
  BY <1>1, <1>2, <1>3 DEF Text

\* Texts that agree at every position.
LEMMA SameText ==
    ASSUME NEW x \in Text, NEW y \in Text, Len(x) = Len(y), \A i \in 1 .. Len(x) : x[i] = y[i]
    PROVE  x = y
<1>1. x \in [1 .. Len(x) -> Char] /\ y \in [1 .. Len(x) -> Char]
  BY DomainProperties DEF Text
<1>2. QED
  BY <1>1

\* A text of one character.
LEMMA OneChar ==
    ASSUME NEW c \in Char
    PROVE  <<c>> \in Text /\ Len(<<c>>) = 1 /\ <<c>>[1] = c
  BY DEF Text

\* Bars and slashes are characters.
LEMMA Separators == Bar \in Char /\ Slash \in Char /\ Bar # Slash
  BY AlphabetAssumption DEF Bar, Slash, Char

\* k is x, the separator and y.
Joined(k, x, sep, y) ==
    /\ Len(k) = Len(x) + 1 + Len(y)
    /\ \A i \in 1 .. Len(x) : k[i] = x[i]
    /\ k[Len(x) + 1] = sep
    /\ \A i \in 1 .. Len(y) : k[Len(x) + 1 + i] = y[i]

\* Join does what it says.
LEMMA JoinEffect ==
    ASSUME NEW x \in Text, NEW y \in Text, NEW sep \in Char
    PROVE  Join(x, sep, y) \in Text /\ Joined(Join(x, sep, y), x, sep, y)
<1> DEFINE b == <<sep>>
           z == x \o b
<1>0. b \in Text /\ Len(b) = 1 /\ b[1] = sep /\ Len(x) \in Nat /\ Len(y) \in Nat
  BY OneChar, DomainProperties
<1> HIDE DEF b
<1>1. /\ z \in Text /\ Len(z) = Len(x) + 1
      /\ \A i \in 1 .. Len(x) : z[i] = x[i]
      /\ \A i \in 1 .. 1 : z[Len(x) + i] = b[i]
  <2>1. /\ z \in Text /\ Len(z) = Len(x) + Len(b)
        /\ \A i \in 1 .. Len(x) : z[i] = x[i]
        /\ \A i \in 1 .. Len(b) : z[Len(x) + i] = b[i]
    BY <1>0, ConcatEffect, Zenon
  <2>2. QED
    BY <1>0, <2>1
<1> HIDE DEF z
<1>2. /\ z \o y \in Text /\ Len(z \o y) = Len(z) + Len(y)
      /\ \A i \in 1 .. Len(z) : (z \o y)[i] = z[i]
      /\ \A i \in 1 .. Len(y) : (z \o y)[Len(z) + i] = y[i]
  BY <1>1, ConcatEffect
<1>3. Join(x, sep, y) = z \o y
  BY DEF Join, z, b
<1> DEFINE k == z \o y
<1>4. k \in Text /\ Len(k) = Len(x) + 1 + Len(y)
  BY <1>0, <1>1, <1>2
<1>5. \A i \in 1 .. Len(x) : k[i] = x[i]
  <2>1. \A i \in 1 .. Len(x) : i \in 1 .. Len(z)
    BY <1>0, <1>1
  <2>2. QED
    BY <1>1, <1>2, <2>1
<1>6. k[Len(x) + 1] = sep
  <2>1. Len(x) + 1 \in 1 .. Len(z) /\ z[Len(x) + 1] = sep
    BY <1>0, <1>1
  <2>2. QED
    BY <1>2, <2>1
<1>7. \A i \in 1 .. Len(y) : k[Len(x) + 1 + i] = y[i]
  BY <1>1, <1>2
<1> HIDE DEF k
<1>8. QED
  BY <1>3, <1>4, <1>5, <1>6, <1>7 DEF Joined, k

\* Two ways to divide a length.
LEMMA SameSum ==
    ASSUME NEW a \in Nat, NEW b \in Nat, NEW c \in Nat, NEW d \in Nat,
           a + 1 + b = c + 1 + d, ~(a < c), ~(c < a)
    PROVE  a = c /\ b = d
  OBVIOUS

\* What follows the last bar, and what comes before it.
LEMMA LastBar ==
    ASSUME NEW k, NEW x \in Text, NEW y \in Text, NEW u \in Text, NEW v \in Text,
           \A i \in DOMAIN y : y[i] # Bar, \A i \in DOMAIN v : v[i] # Bar,
           Joined(k, x, Bar, y), Joined(k, u, Bar, v)
    PROVE  x = u /\ y = v
<1>0. /\ Len(x) \in Nat /\ Len(y) \in Nat /\ Len(u) \in Nat /\ Len(v) \in Nat
      /\ DOMAIN y = 1 .. Len(y) /\ DOMAIN v = 1 .. Len(v)
  BY DomainProperties
<1>1. Len(x) + 1 + Len(y) = Len(u) + 1 + Len(v)
  BY DEF Joined
<1>2. ~(Len(x) < Len(u))
  <2> SUFFICES ASSUME Len(x) < Len(u) PROVE FALSE
    OBVIOUS
  <2> DEFINE i == Len(u) - Len(x)
  <2>1. i \in 1 .. Len(y) /\ Len(x) + 1 + i = Len(u) + 1
    BY <1>0, <1>1
  <2> HIDE DEF i
  <2>2. y[i] = Bar
    BY <2>1 DEF Joined
  <2>3. QED
    BY <1>0, <2>1, <2>2
<1>3. ~(Len(u) < Len(x))
  <2> SUFFICES ASSUME Len(u) < Len(x) PROVE FALSE
    OBVIOUS
  <2> DEFINE i == Len(x) - Len(u)
  <2>1. i \in 1 .. Len(v) /\ Len(u) + 1 + i = Len(x) + 1
    BY <1>0, <1>1
  <2> HIDE DEF i
  <2>2. v[i] = Bar
    BY <2>1 DEF Joined
  <2>3. QED
    BY <1>0, <2>1, <2>2
<1>4. Len(x) = Len(u) /\ Len(y) = Len(v)
  BY <1>0, <1>1, <1>2, <1>3, SameSum
<1>5. \A i \in 1 .. Len(x) : x[i] = u[i]
  BY <1>4 DEF Joined
<1>6. \A i \in 1 .. Len(y) : y[i] = v[i]
  BY <1>4 DEF Joined
<1>7. QED
  BY <1>4, <1>5, <1>6, SameText

\* The first bar after position n.
LEMMA FirstBar ==
    ASSUME NEW k, NEW x \in Text, NEW y \in Text, NEW u \in Text, NEW v \in Text,
           NEW n \in Nat, n <= Len(x), n <= Len(u),
           \A i \in DOMAIN x : i > n => x[i] # Bar, \A i \in DOMAIN u : i > n => u[i] # Bar,
           Joined(k, x, Bar, y), Joined(k, u, Bar, v)
    PROVE  x = u /\ y = v
<1>0. /\ Len(x) \in Nat /\ Len(y) \in Nat /\ Len(u) \in Nat /\ Len(v) \in Nat
      /\ DOMAIN x = 1 .. Len(x) /\ DOMAIN u = 1 .. Len(u)
  BY DomainProperties
<1>1. Len(x) + 1 + Len(y) = Len(u) + 1 + Len(v)
  BY DEF Joined
<1>2. ~(Len(x) < Len(u))
  <2> SUFFICES ASSUME Len(x) < Len(u) PROVE FALSE
    OBVIOUS
  <2>1. Len(x) + 1 \in 1 .. Len(u) /\ Len(x) + 1 > n
    BY <1>0
  <2>2. u[Len(x) + 1] = Bar
    BY <2>1 DEF Joined
  <2>3. QED
    BY <1>0, <2>1, <2>2
<1>3. ~(Len(u) < Len(x))
  <2> SUFFICES ASSUME Len(u) < Len(x) PROVE FALSE
    OBVIOUS
  <2>1. Len(u) + 1 \in 1 .. Len(x) /\ Len(u) + 1 > n
    BY <1>0
  <2>2. x[Len(u) + 1] = Bar
    BY <2>1 DEF Joined
  <2>3. QED
    BY <1>0, <2>1, <2>2
<1>4. Len(x) = Len(u) /\ Len(y) = Len(v)
  BY <1>0, <1>1, <1>2, <1>3, SameSum
<1>5. \A i \in 1 .. Len(x) : x[i] = u[i]
  BY <1>4 DEF Joined
<1>6. \A i \in 1 .. Len(y) : y[i] = v[i]
  BY <1>4 DEF Joined
<1>7. QED
  BY <1>4, <1>5, <1>6, SameText

-----------------------------------------------------------------------------
(* Splitting.                                                              *)

\* The part of a text from a + 1 to b.
LEMMA SubSeqEffect ==
    ASSUME NEW x \in Text, NEW a \in Nat, NEW b \in Nat, a <= b, b <= Len(x)
    PROVE  /\ SubSeq(x, a + 1, b) \in Text /\ Len(SubSeq(x, a + 1, b)) = b - a
           /\ \A i \in 1 .. b - a : SubSeq(x, a + 1, b)[i] = x[a + i]
<1>0. Len(x) \in Nat
  BY DomainProperties
<1>1. a + 1 \in 1 .. Len(x) + 1 /\ b \in a + 1 - 1 .. Len(x)
  BY <1>0
<1> DEFINE m == a + 1
<1>2. /\ SubSeq(x, m, b) \in Seq(Char)
      /\ Len(SubSeq(x, m, b)) = IF m <= b THEN b - m + 1 ELSE 0
      /\ \A i \in 1 .. b - m + 1 : SubSeq(x, m, b)[i] = x[m + i - 1]
  BY <1>1, SubSeqProperties DEF Text
<1>3. (IF m <= b THEN b - m + 1 ELSE 0) = b - a /\ b - m + 1 = b - a
  BY <1>0
<1>4. \A i \in 1 .. b - a : m + i - 1 = a + i
  OBVIOUS
<1> HIDE DEF m
<1>5. QED
  BY <1>2, <1>3, <1>4 DEF Text, m

Cuts(text, sep) == {0, Len(text) + 1} \cup {i \in DOMAIN text : text[i] = sep}

Below(C, c) == {b \in C : b < c}

CutOf(C, j) == CHOOSE c \in C : Cardinality(Below(C, c)) = j

\* A set with one more element.
LEMMA AddOne ==
    ASSUME NEW S, IsFiniteSet(S), NEW x, x \notin S
    PROVE  IsFiniteSet(S \cup {x}) /\ Cardinality(S \cup {x}) = Cardinality(S) + 1
<1>1. /\ IsFiniteSet(S \cup {x})
      /\ Cardinality(S \cup {x}) = IF x \in S THEN Cardinality(S) ELSE Cardinality(S) + 1
  BY FS_AddElement, Zenon
<1>2. QED
  BY <1>1

\* The elements of a finite set of numbers, counted from the least.
LEMMA BelowProperties ==
    ASSUME NEW C, C \subseteq Int, IsFiniteSet(C)
    PROVE  /\ \A c \in C : Cardinality(Below(C, c)) \in 0 .. Cardinality(C) - 1
           /\ \A c, d \in C : c < d => Cardinality(Below(C, c)) < Cardinality(Below(C, d))
           /\ \A c, d \in C : Cardinality(Below(C, c)) = Cardinality(Below(C, d)) => c = d
           /\ \A j \in 0 .. Cardinality(C) - 1 : \E c \in C : Cardinality(Below(C, c)) = j
<1> DEFINE n == Cardinality(C)
           R == 0 .. n - 1
           r == [c \in C |-> Cardinality(Below(C, c))]
<1>0. n \in Nat
  BY FS_CardinalityType
<1>1. ASSUME NEW c \in C
      PROVE  /\ Below(C, c) \subseteq C /\ c \notin Below(C, c)
             /\ IsFiniteSet(Below(C, c)) /\ Cardinality(Below(C, c)) \in 0 .. n - 1
  <2>1. Below(C, c) \subseteq C /\ c \notin Below(C, c)
    BY DEF Below
  <2>2. /\ IsFiniteSet(Below(C, c)) /\ Cardinality(Below(C, c)) <= n
        /\ Cardinality(Below(C, c)) # n
    BY <2>1, FS_Subset
  <2>3. Cardinality(Below(C, c)) \in Nat
    BY <2>2, FS_CardinalityType
  <2>4. QED
    BY <1>0, <2>1, <2>2, <2>3
<1>2. ASSUME NEW c \in C, NEW d \in C, c < d
      PROVE  Cardinality(Below(C, c)) < Cardinality(Below(C, d))
  <2>1. \A x \in Below(C, c) : x \in Below(C, d)
    BY <1>2 DEF Below
  <2>2. c \in Below(C, d)
    BY <1>2 DEF Below
  <2>3. Below(C, c) \subseteq Below(C, d) /\ Below(C, c) # Below(C, d)
    BY <1>1, <2>1, <2>2
  <2>4. Cardinality(Below(C, c)) <= Cardinality(Below(C, d)) /\ Cardinality(Below(C, c)) # Cardinality(Below(C, d))
    BY <1>1, <2>3, FS_Subset
  <2>5. Cardinality(Below(C, c)) \in Nat /\ Cardinality(Below(C, d)) \in Nat
    BY <1>0, <1>1
  <2>6. QED
    BY <2>4, <2>5
<1>3. ASSUME NEW c \in C, NEW d \in C, Cardinality(Below(C, c)) = Cardinality(Below(C, d))
      PROVE  c = d
  <2>1. c \in Int /\ d \in Int /\ Cardinality(Below(C, c)) \in Int
    BY <1>0, <1>1
  <2>2. ~(c < d) /\ ~(d < c)
    BY <1>2, <1>3, <2>1
  <2>3. QED
    BY <2>1, <2>2
<1>4. \A c \in C : Cardinality(Below(C, c)) \in R
  BY <1>1
<1>5. IsFiniteSet(R) /\ Cardinality(R) = n
  <2> DEFINE a == 0
             b == n - 1
  <2>1. a \in Int /\ b \in Int /\ R = a .. b
    BY <1>0
  <2> HIDE DEF a, b, R
  <2>2. IsFiniteSet(a .. b) /\ Cardinality(a .. b) = IF a > b THEN 0 ELSE b - a + 1
    BY <2>1, FS_Interval
  <2>3. (IF a > b THEN 0 ELSE b - a + 1) = n
    BY <1>0 DEF a, b
  <2>4. QED
    BY <2>1, <2>2, <2>3
<1> HIDE DEF R
<1>6. r \in Injection(C, R)
  BY <1>3, <1>4, Fun_IsInj
<1>7. r \in Surjection(C, R)
  BY <1>5, <1>6, FS_Injection
<1>8. \A j \in R : \E c \in C : Cardinality(Below(C, c)) = j
  <2> HIDE DEF r
  <2>1. \A j \in R : \E c \in C : r[c] = j
    BY <1>7, Fun_SurjectionProperties, Zenon
  <2>2. QED
    BY <2>1 DEF r
<1>9. QED
  BY <1>1, <1>2, <1>3, <1>8 DEF R

\* There are finitely many cuts, and at least two.
LEMMA CutsFinite ==
    ASSUME NEW text \in Text, NEW sep
    PROVE  /\ Cuts(text, sep) \subseteq 0 .. Len(text) + 1 /\ IsFiniteSet(Cuts(text, sep))
           /\ Cuts(text, sep) \subseteq Int
           /\ Cardinality(Cuts(text, sep)) \in Nat /\ Cardinality(Cuts(text, sep)) >= 2
<1> DEFINE C == Cuts(text, sep)
           n == Len(text)
<1>1. n \in Nat /\ DOMAIN text = 1 .. n
  BY DomainProperties
<1>2. C \subseteq 0 .. n + 1 /\ 0 \in C /\ n + 1 \in C
  BY <1>1 DEF Cuts
<1>3. IsFiniteSet(0 .. n + 1)
  BY <1>1, FS_Interval
<1>4. IsFiniteSet(C) /\ Cardinality(C) \in Nat
  BY <1>2, <1>3, FS_Subset, FS_CardinalityType
<1>5. {0, n + 1} \subseteq C /\ 0 # n + 1
  BY <1>1, <1>2
<1>6. IsFiniteSet({0, n + 1}) /\ Cardinality({0, n + 1}) = 2
  <2>1. IsFiniteSet({0}) /\ Cardinality({0}) = 1
    BY FS_Singleton
  <2> DEFINE m == n + 1
  <2>2. {0} \cup {m} = {0, m} /\ m \notin {0}
    BY <1>5
  <2> HIDE DEF m
  <2>3. IsFiniteSet({0} \cup {m}) /\ Cardinality({0} \cup {m}) = 1 + 1
    BY <2>1, <2>2, AddOne, Zenon
  <2>4. IsFiniteSet({0, m}) /\ Cardinality({0, m}) = 2
    BY <2>2, <2>3
  <2>5. QED
    BY <2>4 DEF m
<1>7. Cardinality(C) >= 2
  BY <1>4, <1>5, <1>6, FS_Subset
<1>8. C \subseteq Int
  BY <1>1, <1>2
<1>9. QED
  BY <1>2, <1>4, <1>7, <1>8

\* A part lies between two neighbouring cuts.
Between(text, C, j, part) ==
    \E a, b \in C :
        /\ a < b /\ Cardinality(Below(C, a)) = j - 1 /\ Cardinality(Below(C, b)) = j
        /\ \A c \in C : c <= a \/ c >= b
        /\ part = SubSeq(text, a + 1, b - 1)

\* Split takes the parts in the order of the cuts.
LEMMA SplitEffect ==
    ASSUME NEW text \in Text, NEW sep
    PROVE  /\ Split(text, sep) \in Seq(Text)
           /\ Len(Split(text, sep)) = Cardinality(Cuts(text, sep)) - 1
           /\ \A j \in 1 .. Len(Split(text, sep)) :
                 Between(text, Cuts(text, sep), j, Split(text, sep)[j])
<1> DEFINE C == Cuts(text, sep)
           n == Cardinality(C)
           parts == [j \in 1 .. n - 1 |-> SubSeq(text, CutOf(C, j - 1) + 1, CutOf(C, j) - 1)]
<1>0. Split(text, sep) = parts
  BY DEF Split, Cuts, CutOf, Below
<1>1. /\ C \subseteq 0 .. Len(text) + 1 /\ IsFiniteSet(C) /\ C \subseteq Int
      /\ n \in Nat /\ n >= 2 /\ Len(text) \in Nat
  BY CutsFinite, DomainProperties
<1> HIDE DEF C, n
<1>2. ASSUME NEW j \in 0 .. n - 1
      PROVE  CutOf(C, j) \in C /\ Cardinality(Below(C, CutOf(C, j))) = j
  <2>1. \E c \in C : Cardinality(Below(C, c)) = j
    BY <1>1, BelowProperties DEF n
  <2>2. QED
    BY <2>1 DEF CutOf
<1>3. /\ \A c \in C : Cardinality(Below(C, c)) \in 0 .. n - 1
      /\ \A c, d \in C : c < d => Cardinality(Below(C, c)) < Cardinality(Below(C, d))
  BY <1>1, BelowProperties, Zenon DEF n
<1>4. ASSUME NEW j \in 1 .. n - 1
      PROVE  parts[j] \in Text /\ Between(text, C, j, parts[j])
  <2> DEFINE a == CutOf(C, j - 1)
             b == CutOf(C, j)
  <2>1. j \in Int /\ j - 1 \in 0 .. n - 1 /\ j \in 0 .. n - 1
    BY <1>1
  <2>2. /\ a \in C /\ b \in C /\ Cardinality(Below(C, a)) = j - 1 /\ Cardinality(Below(C, b)) = j
    BY <1>2, <2>1
  <2>3. parts[j] = SubSeq(text, a + 1, b - 1)
    OBVIOUS
  <2> HIDE DEF a, b, parts
  <2>4. a \in Int /\ b \in Int /\ a >= 0 /\ b <= Len(text) + 1
    BY <1>1, <2>2
  <2>5. a < b
    <3>1. a # b
      BY <2>1, <2>2
    <3>2. b < a => j < j - 1
      BY <1>3, <2>2
    <3>3. QED
      BY <2>1, <2>4, <3>1, <3>2
  <2>6. ASSUME NEW c \in C PROVE c <= a \/ c >= b
    <3> SUFFICES ASSUME a < c, c < b PROVE FALSE
      BY <1>1, <2>4
    <3> DEFINE m == Cardinality(Below(C, c))
    <3>1. m \in Int
      BY <1>1, <1>3
    <3>2. j - 1 < m /\ m < j
      BY <1>3, <2>2
    <3> HIDE DEF m
    <3>3. QED
      BY <2>1, <3>1, <3>2
  <2>7. SubSeq(text, a + 1, b - 1) \in Text
    <3>1. a + 1 \in 1 .. Len(text) + 1 /\ b - 1 \in 0 .. Len(text)
      BY <1>1, <2>4, <2>5
    <3>2. QED
      BY <1>1, <2>4, <3>1, SubSeqProperties DEF Text
  <2>8. QED
    BY <2>2, <2>3, <2>5, <2>6, <2>7 DEF Between
<1>5. parts \in [1 .. n - 1 -> Text] /\ n - 1 \in Nat
  BY <1>1, <1>4
<1> HIDE DEF parts
<1>6. parts \in Seq(Text) /\ Len(parts) = n - 1
  BY <1>5
<1>7. QED
  BY <1>0, <1>4, <1>6 DEF C, n

\* The cut after c is the next element of C.
LEMMA NextCut ==
    ASSUME NEW C, C \subseteq Int, IsFiniteSet(C), NEW c \in C, NEW d \in C, c < d,
           \A x \in C : x <= c \/ x >= d
    PROVE  Cardinality(Below(C, d)) = Cardinality(Below(C, c)) + 1
<1>1. Below(C, d) = Below(C, c) \cup {c} /\ c \notin Below(C, c) /\ Below(C, c) \subseteq C
  <2>1. ASSUME NEW x \in C PROVE x < d <=> (x < c \/ x = c)
    <3>1. x \in Int /\ c \in Int /\ d \in Int /\ (x <= c \/ x >= d)
      OBVIOUS
    <3>2. QED
      BY <3>1
  <2>2. ~(c < c)
    OBVIOUS
  <2>3. QED
    BY <2>1, <2>2 DEF Below
<1>2. IsFiniteSet(Below(C, c))
  BY <1>1, FS_Subset
<1>3. QED
  BY <1>1, <1>2, AddOne

\* The part between two neighbouring cuts, by the number of cuts before it.
LEMMA PartAt ==
    ASSUME NEW text \in Text, NEW sep, NEW a \in Cuts(text, sep), NEW b \in Cuts(text, sep),
           a < b, \A x \in Cuts(text, sep) : x <= a \/ x >= b,
           NEW j \in Nat, Cardinality(Below(Cuts(text, sep), a)) = j - 1
    PROVE  Split(text, sep)[j] = SubSeq(text, a + 1, b - 1)
<1> DEFINE C == Cuts(text, sep)
           n == Cardinality(C)
           parts == Split(text, sep)
<1>1. IsFiniteSet(C) /\ C \subseteq Int /\ n \in Nat
  BY CutsFinite
<1>2. Cardinality(Below(C, b)) = j - 1 + 1
  BY <1>1, NextCut
<1>3. Cardinality(Below(C, a)) \in 0 .. n - 1 /\ Cardinality(Below(C, b)) \in 0 .. n - 1
  BY <1>1, BelowProperties
<1>4. Cardinality(Below(C, b)) = j /\ j \in 1 .. n - 1
  BY <1>1, <1>2, <1>3
<1>5. Between(text, C, j, parts[j])
  BY <1>4, SplitEffect
<1>6. PICK x, y \in C : /\ Cardinality(Below(C, x)) = j - 1 /\ Cardinality(Below(C, y)) = j
                        /\ parts[j] = SubSeq(text, x + 1, y - 1)
  BY <1>5 DEF Between
<1>7. x = a /\ y = b
  BY <1>1, <1>4, <1>6, BelowProperties
<1>8. QED
  BY <1>6, <1>7

-----------------------------------------------------------------------------
(* Cleaning a path.                                                        *)

\* Two texts have the same part where they agree.
LEMMA SubSeqSame ==
    ASSUME NEW x \in Text, NEW y \in Text, NEW a \in Nat, NEW b \in Nat, a <= b,
           b <= Len(x), b <= Len(y), \A i \in a + 1 .. b : x[i] = y[i]
    PROVE  SubSeq(x, a + 1, b) = SubSeq(y, a + 1, b)
<1>0. Len(x) \in Nat /\ Len(y) \in Nat
  BY DomainProperties
<1>1. a + 1 \in 1 .. Len(x) + 1 /\ b \in 0 .. Len(x) /\ a + 1 \in 1 .. Len(y) + 1 /\ b \in 0 .. Len(y)
  BY <1>0
<1> DEFINE u == SubSeq(x, a + 1, b)
           v == SubSeq(y, a + 1, b)
<1>2. u \in Text /\ Len(u) = b - a /\ \A i \in 1 .. b - a : u[i] = x[a + i]
  BY SubSeqEffect
<1>3. v \in Text /\ Len(v) = b - a /\ \A i \in 1 .. b - a : v[i] = y[a + i]
  BY SubSeqEffect
<1> HIDE DEF u, v
<1>4. \A i \in 1 .. b - a : a + i \in a + 1 .. b
  OBVIOUS
<1>5. \A i \in 1 .. Len(u) : u[i] = v[i]
  BY <1>2, <1>3, <1>4
<1>6. u = v
  BY <1>2, <1>3, <1>5, SameText
<1>7. QED
  BY <1>6 DEF u, v

\* The part of c between two neighbouring slashes, or a slash and the end.
Segment(c, a, b) ==
    /\ a \in 1 .. Len(c) /\ b \in 2 .. Len(c) + 1 /\ a < b
    /\ c[a] = Slash /\ (b = Len(c) + 1 \/ c[b] = Slash)
    /\ \A x \in a + 1 .. b - 1 : c[x] # Slash

Dots == {<<Dot>>, <<Dot, Dot>>}

\* No segment of c is "." or "..", and only the last can be empty.
Tidy(c) ==
    \A a \in 1 .. Len(c) : \A b \in 2 .. Len(c) + 1 :
        Segment(c, a, b) => /\ SubSeq(c, a + 1, b - 1) \notin Dots
                            /\ b = a + 1 => b = Len(c) + 1

\* What Clean has put together so far.
Output(c) ==
    /\ c \in Text /\ Tidy(c)
    /\ c = <<>> \/ (Len(c) > 0 /\ c[1] = Slash /\ c[Len(c)] # Slash)

\* Clean begins with nothing.
LEMMA EmptyOutput == Output(<<>>) /\ <<>> \in Text
<1>1. <<>> \in Text /\ Len(<<>>) = 0
  BY DEF Text
<1>2. Tidy(<<>>)
  BY <1>1 DEF Tidy
<1>3. QED
  BY <1>1, <1>2 DEF Output

\* One more segment, which may also be empty.
LEMMA TidyAppend ==
    ASSUME NEW c, Output(c), NEW s \in Text, \A i \in DOMAIN s : s[i] # Slash, s \notin Dots,
           NEW k \in Text, Joined(k, c, Slash, s)
    PROVE  /\ Tidy(k) /\ Len(k) > 0 /\ k[1] = Slash
           /\ s # <<>> => Output(k)
<1> DEFINE n == Len(c)
           m == Len(s)
<1>0. /\ c \in Text /\ n \in Nat /\ m \in Nat /\ Len(k) \in Nat /\ Tidy(c)
      /\ DOMAIN s = 1 .. m /\ DOMAIN k = 1 .. Len(k)
  BY DomainProperties DEF Output
<1>1. /\ Len(k) = n + 1 + m
      /\ \A i \in 1 .. n : k[i] = c[i]
      /\ k[n + 1] = Slash
      /\ \A i \in 1 .. m : k[n + 1 + i] = s[i]
  BY DEF Joined
<1> HIDE DEF n, m
<1>2. ASSUME NEW x \in n + 2 .. Len(k) PROVE k[x] # Slash
  <2> DEFINE i == x - (n + 1)
  <2>1. i \in 1 .. m /\ n + 1 + i = x
    BY <1>0, <1>1
  <2> HIDE DEF i
  <2>2. k[x] = s[i]
    BY <1>1, <2>1
  <2>3. QED
    BY <1>0, <2>1, <2>2
<1>3. ASSUME NEW a \in 1 .. Len(k), NEW b \in 2 .. Len(k) + 1, Segment(k, a, b)
      PROVE  SubSeq(k, a + 1, b - 1) \notin Dots /\ (b = a + 1 => b = Len(k) + 1)
  <2>1. /\ a < b /\ k[a] = Slash /\ (b = Len(k) + 1 \/ k[b] = Slash)
        /\ \A x \in a + 1 .. b - 1 : k[x] # Slash
    BY <1>3 DEF Segment
  <2>2. a <= n + 1
    <3>1. ~(a \in n + 2 .. Len(k))
      BY <1>2, <2>1
    <3>2. QED
      BY <1>0, <3>1
  <2>3. CASE a = n + 1
    <3>1. b = Len(k) + 1
      <4>1. ~(b \in n + 2 .. Len(k)) \/ b = Len(k) + 1
        BY <1>2, <2>1
      <4>2. QED
        BY <1>0, <2>1, <2>3, <4>1
    <3> DEFINE z == SubSeq(k, a + 1, b - 1)
    <3>2. a \in Nat /\ b - 1 \in Nat /\ a <= b - 1 /\ b - 1 <= Len(k) /\ b - 1 - a = m
      BY <1>0, <1>1, <2>3, <3>1
    <3>3. z \in Text /\ Len(z) = b - 1 - a /\ \A i \in 1 .. b - 1 - a : z[i] = k[a + i]
      BY <3>2, SubSeqEffect
    <3> HIDE DEF z
    <3>4. \A i \in 1 .. m : z[i] = s[i]
      BY <1>1, <2>3, <3>2, <3>3
    <3>5. z = s
      <4>1. Len(z) = Len(s) /\ \A i \in 1 .. Len(z) : z[i] = s[i]
        BY <3>2, <3>3, <3>4 DEF m
      <4>2. QED
        BY <3>3, <4>1, SameText
    <3>6. QED
      BY <3>1, <3>5 DEF z
  <2>4. CASE a <= n
    <3>1. b <= n + 1
      <4>1. ~(n + 1 \in a + 1 .. b - 1)
        BY <1>1, <2>1
      <4>2. QED
        BY <1>0, <2>1, <2>4, <4>1
    <3>2. a \in 1 .. n /\ b \in 2 .. n + 1 /\ c[a] = Slash /\ (b = n + 1 \/ c[b] = Slash)
      <4>1. a \in 1 .. n /\ b \in 2 .. n + 1
        BY <1>0, <2>4, <3>1
      <4>2. c[a] = Slash
        BY <1>1, <2>1, <4>1
      <4>3. CASE b = n + 1
        BY <4>1, <4>2, <4>3
      <4>4. CASE b # n + 1
        <5>1. b \in 1 .. n /\ b # Len(k) + 1
          BY <1>0, <1>1, <4>1, <4>4
        <5>2. QED
          BY <1>1, <2>1, <4>1, <4>2, <5>1
      <4>5. QED
        BY <4>3, <4>4
    <3>3. \A x \in a + 1 .. b - 1 : x \in 1 .. n /\ c[x] = k[x]
      <4>1. \A x \in a + 1 .. b - 1 : x \in 1 .. n
        BY <1>0, <3>1
      <4>2. QED
        BY <1>1, <4>1
    <3>4. Segment(c, a, b)
      BY <2>1, <3>2, <3>3 DEF Segment, n
    <3>5. SubSeq(c, a + 1, b - 1) \notin Dots /\ (b = a + 1 => b = n + 1)
      BY <1>0, <3>2, <3>4 DEF Tidy, n
    <3>6. SubSeq(k, a + 1, b - 1) = SubSeq(c, a + 1, b - 1)
      <4>1. /\ a \in Nat /\ b - 1 \in Nat /\ a <= b - 1 /\ b - 1 <= Len(k) /\ b - 1 <= n
        BY <1>0, <1>1, <2>1, <3>1
      <4>2. QED
        BY <1>0, <3>3, <4>1, SubSeqSame DEF n
    <3>7. b # a + 1
      <4> SUFFICES ASSUME b = a + 1 PROVE FALSE
        OBVIOUS
      <4>1. a = n /\ n > 0
        BY <1>0, <2>4, <3>5
      <4>2. c[n] # Slash
        BY <4>1 DEF Output, n
      <4>3. QED
        BY <3>2, <4>1, <4>2
    <3>8. QED
      BY <3>5, <3>6, <3>7
  <2>5. QED
    BY <1>0, <2>2, <2>3, <2>4
<1>4. Tidy(k)
  BY <1>3 DEF Tidy
<1>5. Len(k) > 0
  BY <1>0, <1>1
<1>6. k[1] = Slash
  <2>1. CASE n = 0
    BY <1>1, <2>1
  <2>2. CASE n > 0
    <3>1. c # <<>> /\ 1 \in 1 .. n
      BY <1>0, <2>2 DEF n
    <3>2. QED
      BY <1>1, <3>1 DEF Output
  <2>3. QED
    BY <1>0, <2>1, <2>2
<1>7. ASSUME s # <<>> PROVE k[Len(k)] # Slash
  <2>1. m > 0
    BY <1>0, <1>7 DEF m, Text
  <2>2. Len(k) \in n + 2 .. Len(k)
    BY <1>0, <1>1, <2>1
  <2>3. QED
    BY <1>2, <2>2
<1>8. QED
  BY <1>4, <1>5, <1>6, <1>7 DEF Output

\* Going back to the parent leaves a prefix that ends before a slash.
LEMMA ParentOutput ==
    ASSUME NEW c, Output(c)
    PROVE  Output(Parent(c))
<1>1. CASE c = <<>>
  BY <1>1 DEF Parent
<1>2. CASE c # <<>>
  <2> DEFINE n == Len(c)
             S == {i \in DOMAIN c : c[i] = Slash}
             b == Max(S)
  <2>0. c \in Text /\ n \in Nat /\ DOMAIN c = 1 .. n /\ n > 0 /\ c[1] = Slash /\ Tidy(c)
    BY <1>2, DomainProperties DEF Output
  <2>1. b \in S
    <3>1. 1 \in S /\ S \subseteq 1 .. n
      BY <2>0
    <3> DEFINE T == {n - i : i \in S}
    <3>2. T \subseteq Nat /\ n - 1 \in T
      BY <2>0, <3>1
    <3>3. PICK y \in T : \A z \in T : y <= z
      BY <3>2, Least
    <3>4. PICK i \in S : y = n - i
      OBVIOUS
    <3>5. \A j \in S : i >= j
      <4> SUFFICES ASSUME NEW j \in S PROVE i >= j
        OBVIOUS
      <4>1. n - i <= n - j
        BY <3>3, <3>4
      <4>2. i \in Int /\ j \in Int
        BY <3>1
      <4>3. QED
        BY <2>0, <4>1, <4>2
    <3> HIDE DEF S, T
    <3>6. QED
      BY <3>5 DEF Max
  <2>2. Parent(c) = SubSeq(c, 1, b - 1)
    BY <1>2 DEF Parent
  <2> HIDE DEF b
  <2>3. b \in 1 .. n /\ c[b] = Slash
    BY <2>0, <2>1
  <2> HIDE DEF S
  <2> DEFINE k == SubSeq(c, 1, b - 1)
             l == b - 1
  <2>4. k \in Text /\ Len(k) = l /\ l \in Nat /\ l < n /\ \A i \in 1 .. l : k[i] = c[i]
    <3>1. l \in Nat /\ 0 <= l /\ l <= Len(c) /\ l - 0 = l /\ l < n
      BY <2>0, <2>3 DEF n
    <3>2. SubSeq(c, 0 + 1, l) \in Text /\ Len(SubSeq(c, 0 + 1, l)) = l - 0 /\ \A i \in 1 .. l - 0 : SubSeq(c, 0 + 1, l)[i] = c[0 + i]
      BY <2>0, <3>1, SubSeqEffect
    <3>3. \A i \in 1 .. l : 0 + i = i
      OBVIOUS
    <3>4. QED
      BY <3>1, <3>2, <3>3
  <2>5. b = l + 1
    BY <2>3
  <2> HIDE DEF k, l, n
  <2>6. l > 0 => c[l] # Slash
    <3> SUFFICES ASSUME l > 0, c[l] = Slash PROVE FALSE
      OBVIOUS
    <3>1. l \in 1 .. n /\ b \in 2 .. n + 1 /\ \A x \in l + 1 .. b - 1 : FALSE
      BY <2>0, <2>3, <2>4, <2>5
    <3>2. Segment(c, l, b)
      BY <2>3, <2>4, <2>5, <3>1 DEF Segment, n
    <3>3. b = n + 1
      BY <2>0, <2>5, <3>1, <3>2 DEF Tidy, n
    <3>4. QED
      BY <2>0, <2>3, <3>3
  <2>7. ASSUME NEW x \in 1 .. l, NEW y \in 2 .. l + 1, Segment(k, x, y)
        PROVE  SubSeq(k, x + 1, y - 1) \notin Dots /\ (y = x + 1 => y = l + 1)
    <3>1. /\ x < y /\ k[x] = Slash /\ (y = l + 1 \/ k[y] = Slash)
          /\ \A z \in x + 1 .. y - 1 : k[z] # Slash
      BY <2>4, <2>7 DEF Segment
    <3>2. \A z \in x + 1 .. y - 1 : z \in 1 .. l /\ k[z] = c[z]
      <4>1. \A z \in x + 1 .. y - 1 : z \in 1 .. l
        BY <2>4
      <4>2. QED
        BY <2>4, <4>1
    <3>3. x \in 1 .. n /\ y \in 2 .. n + 1 /\ c[x] = Slash /\ c[y] = Slash /\ y <= n
      <4>1. x \in 1 .. n /\ y \in 2 .. n + 1 /\ y <= n
        BY <2>0, <2>4
      <4>2. c[x] = Slash
        BY <2>4, <3>1
      <4>3. CASE y = l + 1
        BY <2>3, <2>5, <4>1, <4>2, <4>3
      <4>4. CASE y # l + 1
        <5>1. y \in 1 .. l
          BY <2>4, <4>4
        <5>2. QED
          BY <2>4, <3>1, <4>1, <4>2, <4>4, <5>1
      <4>5. QED
        BY <4>3, <4>4
    <3>4. Segment(c, x, y)
      BY <3>1, <3>2, <3>3 DEF Segment, n
    <3>5. SubSeq(c, x + 1, y - 1) \notin Dots /\ (y = x + 1 => y = n + 1)
      BY <2>0, <3>3, <3>4 DEF Tidy, n
    <3>6. SubSeq(k, x + 1, y - 1) = SubSeq(c, x + 1, y - 1)
      <4>1. x \in Nat /\ y - 1 \in Nat /\ x <= y - 1 /\ y - 1 <= l /\ y - 1 <= n
        BY <2>0, <2>4, <3>1
      <4>2. QED
        BY <2>0, <2>4, <3>2, <4>1, SubSeqSame DEF n
    <3>7. y # n + 1
      BY <2>0, <3>3
    <3>8. QED
      BY <3>5, <3>6, <3>7
  <2>8. Tidy(k)
    BY <2>4, <2>7 DEF Tidy
  <2>9. k = <<>> \/ (l > 0 /\ k[1] = Slash /\ k[l] # Slash)
    <3>1. CASE l = 0
      BY <2>4, <3>1 DEF Text
    <3>2. CASE l > 0
      <4>1. 1 \in 1 .. l /\ l \in 1 .. l
        BY <2>4, <3>2
      <4>2. QED
        BY <2>0, <2>4, <2>6, <3>2, <4>1
    <3>3. QED
      BY <2>4, <3>1, <3>2
  <2>10. Output(k)
    BY <2>4, <2>8, <2>9 DEF Output
  <2>11. QED
    BY <2>2, <2>10 DEF k
<1>3. QED
  BY <1>1, <1>2

\* A part has no separator in it.
LEMMA PartPlain ==
    ASSUME NEW text \in Text, NEW sep, NEW j \in 1 .. Len(Split(text, sep))
    PROVE  /\ Split(text, sep)[j] \in Text
           /\ \A i \in DOMAIN Split(text, sep)[j] : Split(text, sep)[j][i] # sep
<1> DEFINE C == Cuts(text, sep)
           s == Split(text, sep)[j]
<1>1. Split(text, sep) \in Seq(Text) /\ Between(text, C, j, s)
  BY SplitEffect
<1>2. s \in Text
  BY <1>1, ElementOfSeq
<1>3. PICK a, b \in C : /\ a < b /\ \A c \in C : c <= a \/ c >= b
                        /\ s = SubSeq(text, a + 1, b - 1)
  BY <1>1 DEF Between
<1>4. C \subseteq 0 .. Len(text) + 1 /\ Len(text) \in Nat /\ DOMAIN text = 1 .. Len(text)
  BY CutsFinite, DomainProperties
<1>5. /\ a \in Nat /\ b \in Nat /\ b - 1 \in Nat /\ a <= b - 1 /\ b - 1 <= Len(text)
  BY <1>3, <1>4
<1> DEFINE m == b - 1
<1>6. Len(SubSeq(text, a + 1, m)) = m - a /\ \A i \in 1 .. m - a : SubSeq(text, a + 1, m)[i] = text[a + i]
  BY <1>5, SubSeqEffect
<1>7. Len(s) = m - a /\ \A i \in 1 .. m - a : s[i] = text[a + i]
  BY <1>3, <1>6
<1>8. DOMAIN s = 1 .. Len(s)
  BY <1>2, DomainProperties
<1>9. ASSUME NEW i \in DOMAIN s PROVE s[i] # sep
  <2>1. i \in 1 .. m - a /\ s[i] = text[a + i]
    BY <1>7, <1>8
  <2>2. a + i \in 1 .. Len(text) /\ a + i > a /\ a + i < b
    BY <1>4, <1>5, <2>1
  <2>3. a + i \notin C
    BY <1>3, <1>4, <1>5, <2>2
  <2>4. QED
    BY <1>4, <2>1, <2>2, <2>3 DEF Cuts
<1>10. QED
  BY <1>2, <1>9

\* Keep adds a segment, or takes one away, or does nothing.
LEMMA KeepOutput ==
    ASSUME NEW c, Output(c), NEW s \in Text, \A i \in DOMAIN s : s[i] # Slash
    PROVE  Output(Keep(c, s))
<1>1. CASE s \in {<<>>, <<Dot>>}
  BY <1>1 DEF Keep
<1>2. CASE s \notin {<<>>, <<Dot>>} /\ s = <<Dot, Dot>>
  <2>1. Keep(c, s) = Parent(c)
    BY <1>2 DEF Keep
  <2>2. QED
    BY <2>1, ParentOutput
<1>3. CASE s \notin {<<>>, <<Dot>>} /\ s # <<Dot, Dot>>
  <2>1. Keep(c, s) = Join(c, Slash, s)
    BY <1>3 DEF Keep, Join
  <2>2. c \in Text /\ Slash \in Char
    BY Separators DEF Output
  <2>3. Join(c, Slash, s) \in Text /\ Joined(Join(c, Slash, s), c, Slash, s)
    BY <2>2, JoinEffect
  <2>4. s \notin Dots /\ s # <<>>
    BY <1>3 DEF Dots
  <2> DEFINE k == Join(c, Slash, s)
  <2> HIDE DEF k
  <2>5. Output(k)
    BY <2>3, <2>4, TidyAppend DEF k
  <2>6. QED
    BY <2>1, <2>5 DEF k
<1>4. QED
  BY <1>1, <1>2, <1>3

\* What Clean has put together after n of the segments.
Cleaning(segments, n, f) ==
    f = [i \in 0 .. n |-> IF i = 0 THEN <<>> ELSE Keep(f[i - 1], segments[i])]

\* The recursion of Clean has a solution.
LEMMA CleaningExists ==
    ASSUME NEW segments, NEW n \in Nat
    PROVE  \E f : Cleaning(segments, n, f)
<1> DEFINE T == {m \in Nat : \E f : Cleaning(segments, m, f)}
<1>1. 0 \in T
  <2> DEFINE f == [i \in 0 .. 0 |-> <<>>]
  <2>1. \A i \in 0 .. 0 : i = 0
    OBVIOUS
  <2>2. f = [i \in 0 .. 0 |-> IF i = 0 THEN <<>> ELSE Keep(f[i - 1], segments[i])]
    BY <2>1
  <2> HIDE DEF f
  <2>3. QED
    BY <2>2 DEF Cleaning
<1>2. ASSUME NEW m \in T PROVE m + 1 \in T
  <2>1. m \in Nat
    OBVIOUS
  <2>2. PICK f : Cleaning(segments, m, f)
    OBVIOUS
  <2> DEFINE g == [i \in 0 .. m + 1 |-> IF i = m + 1 THEN Keep(f[m], segments[i]) ELSE f[i]]
             h == [i \in 0 .. m + 1 |-> IF i = 0 THEN <<>> ELSE Keep(g[i - 1], segments[i])]
  <2>3. ASSUME NEW i \in 0 .. m + 1 PROVE g[i] = h[i]
    <3>1. CASE i = 0
      <4>1. g[i] = f[i] /\ h[i] = <<>>
        BY <2>1, <3>1
      <4>2. f[i] = <<>>
        BY <2>1, <2>2, <3>1 DEF Cleaning
      <4>3. QED
        BY <4>1, <4>2
    <3>2. CASE i # 0 /\ i # m + 1
      <4>1. i \in 0 .. m /\ i - 1 \in 0 .. m + 1 /\ i - 1 # m + 1
        BY <2>1, <3>2
      <4>2. g[i] = f[i] /\ g[i - 1] = f[i - 1]
        BY <3>2, <4>1
      <4>3. f[i] = Keep(f[i - 1], segments[i])
        BY <2>2, <3>2, <4>1 DEF Cleaning
      <4>4. h[i] = Keep(g[i - 1], segments[i])
        BY <3>2
      <4>5. QED
        BY <4>2, <4>3, <4>4
    <3>3. CASE i = m + 1
      <4>1. i # 0 /\ i - 1 = m /\ m \in 0 .. m + 1 /\ m # m + 1
        BY <2>1, <3>3
      <4>2. g[m] = f[m] /\ g[i] = Keep(f[m], segments[i])
        BY <3>3, <4>1
      <4>3. h[i] = Keep(g[i - 1], segments[i])
        BY <4>1
      <4>4. QED
        BY <4>1, <4>2, <4>3
    <3>4. QED
      BY <3>1, <3>2, <3>3
  <2>4. g = h
    BY <2>3
  <2>5. Cleaning(segments, m + 1, g)
    BY <2>4 DEF Cleaning
  <2>6. QED
    BY <2>1, <2>5
<1> HIDE DEF T
<1>3. T = Nat
  <2>1. T \subseteq Nat
    BY DEF T
  <2>2. QED
    BY <1>1, <1>2, <2>1, SetInduction
<1>4. QED
  BY <1>3 DEF T

\* A clean path begins with a slash, is tidy and is the root or ends with a segment.
LEMMA CleanEffect ==
    ASSUME NEW p \in Text
    PROVE  /\ Clean(p) \in Text /\ Tidy(Clean(p)) /\ Len(Clean(p)) > 0 /\ Clean(p)[1] = Slash
           /\ Clean(p) = <<Slash>> \/ Output(Clean(p))
<1> DEFINE segments == Split(p, Slash)
           L == Len(segments)
           out == CHOOSE f : Cleaning(segments, L, f)
<1>1. Clean(p) = IF out[L] = <<>> THEN <<Slash>> ELSE out[L]
  BY DEF Clean, Cleaning
<1>2. segments \in Seq(Text) /\ L \in Nat
  BY SplitEffect, LenProperties
<1>3. \A i \in 1 .. L : segments[i] \in Text /\ \A x \in DOMAIN segments[i] : segments[i][x] # Slash
  BY PartPlain
<1> HIDE DEF segments, L
<1>4. Cleaning(segments, L, out)
  BY <1>2, CleaningExists
<1> HIDE DEF out
<1> DEFINE T == {n \in Nat : n <= L => Output(out[n])}
<1>5. 0 \in T
  <2>1. out[0] = <<>>
    BY <1>2, <1>4 DEF Cleaning
  <2>2. QED
    BY <2>1, EmptyOutput
<1>6. ASSUME NEW n \in T PROVE n + 1 \in T
  <2>1. n \in Nat /\ (n <= L => Output(out[n]))
    OBVIOUS
  <2>2. ASSUME n + 1 <= L PROVE Output(out[n + 1])
    <3>1. n + 1 \in 1 .. L /\ n + 1 \in 0 .. L /\ n + 1 # 0 /\ n + 1 - 1 = n /\ n <= L
      BY <1>2, <2>1, <2>2
    <3>2. out[n + 1] = Keep(out[n + 1 - 1], segments[n + 1])
      BY <1>4, <3>1 DEF Cleaning
    <3>3. Output(out[n])
      BY <2>1, <3>1
    <3>4. Output(Keep(out[n], segments[n + 1]))
      BY <1>3, <3>1, <3>3, KeepOutput
    <3>5. QED
      BY <3>1, <3>2, <3>4
  <2>3. QED
    BY <2>1, <2>2
<1> HIDE DEF T
<1>7. T = Nat
  <2>1. T \subseteq Nat
    BY DEF T
  <2>2. QED
    BY <1>5, <1>6, <2>1, SetInduction
<1>8. Output(out[L])
  BY <1>2, <1>7 DEF T
<1>9. CASE out[L] = <<>>
  <2>1. Clean(p) = <<Slash>>
    BY <1>1, <1>9
  <2> DEFINE c == <<>>
             k == Join(c, Slash, c)
  <2>2. Output(c) /\ c \in Text /\ c \notin Dots /\ \A i \in DOMAIN c : c[i] # Slash
    BY EmptyOutput DEF Dots
  <2>3. k = <<Slash>>
    BY DEF Join
  <2> HIDE DEF c
  <2>4. k \in Text /\ Joined(k, c, Slash, c)
    BY <2>2, Separators, JoinEffect
  <2> HIDE DEF k
  <2>5. Tidy(k) /\ Len(k) > 0 /\ k[1] = Slash
    BY <2>2, <2>4, TidyAppend
  <2>6. QED
    BY <2>1, <2>3, <2>4, <2>5
<1>10. CASE out[L] # <<>>
  <2>1. Clean(p) = out[L]
    BY <1>1, <1>10
  <2>2. QED
    BY <1>8, <1>10, <2>1 DEF Output
<1>11. QED
  BY <1>9, <1>10

-----------------------------------------------------------------------------
(* Escapes, and paths.                                                     *)

\* What is at a position of a text.
LEMMA CharAt ==
    ASSUME NEW x \in Text
    PROVE  /\ \A i \in 1 .. Len(x) : x[i] \in Char
           /\ \A i \in 1 .. Len(x) : x[i] = <<x[i][1], x[i][2]>> /\ x[i][2] \in Nat /\ x[i][1] \in Alphabet
<1>1. ASSUME NEW i \in 1 .. Len(x) PROVE x[i] \in Char
  BY ElementOfSeq DEF Text
<1>2. QED
  BY <1>1 DEF Char

\* A function that is a text.
LEMMA MadeText ==
    ASSUME NEW n \in Nat, NEW f, f = [i \in 1 .. n |-> f[i]], \A i \in 1 .. n : f[i] \in Char
    PROVE  f \in Text /\ Len(f) = n
  BY DEF Text

\* Decoding changes no length, and takes a layer from each character.
LEMMA UnescapeEffect ==
    ASSUME NEW x \in Text
    PROVE  /\ Unescape(x) \in Text /\ Len(Unescape(x)) = Len(x)
           /\ \A i \in 1 .. Len(x) :
                 Unescape(x)[i] = <<x[i][1], IF x[i][2] = 0 THEN 0 ELSE x[i][2] - 1>>
<1> DEFINE f == Unescape(x)
           n == Len(x)
<1>1. DOMAIN x = 1 .. n /\ n \in Nat
  BY DomainProperties
<1>2. f = [i \in 1 .. n |-> <<x[i][1], IF x[i][2] = 0 THEN 0 ELSE x[i][2] - 1>>]
  BY <1>1 DEF Unescape
<1>3. \A i \in 1 .. n : f[i] = <<x[i][1], IF x[i][2] = 0 THEN 0 ELSE x[i][2] - 1>>
  BY <1>2
<1>4. f = [i \in 1 .. n |-> f[i]]
  BY <1>2
<1> HIDE DEF f
<1>5. ASSUME NEW i \in 1 .. n PROVE f[i] \in Char
  <2>1. x[i][2] \in Nat /\ x[i][1] \in Alphabet
    BY CharAt
  <2>2. CASE x[i][2] = 0
    <3>1. f[i] = <<x[i][1], 0>>
      BY <1>3, <2>2
    <3>2. QED
      BY <2>1, <3>1 DEF Char
  <2>3. CASE x[i][2] # 0
    <3>1. f[i] = <<x[i][1], x[i][2] - 1>> /\ x[i][2] - 1 \in Nat
      BY <1>3, <2>1, <2>3
    <3>2. QED
      BY <2>1, <3>1 DEF Char
  <2>4. QED
    BY <2>2, <2>3
<1>6. f \in Text /\ Len(f) = n
  BY <1>1, <1>4, <1>5, MadeText
<1>7. QED
  BY <1>3, <1>6 DEF f

\* A normalised path begins with a slash and is tidy.
LEMMA PathEffect ==
    ASSUME NEW p \in Text
    PROVE  Path(p) \in Text /\ Tidy(Path(p)) /\ Len(Path(p)) > 0 /\ Path(p)[1] = Slash
<1> DEFINE q == IF Unescapable(p) THEN Unescape(p) ELSE p
           c == Clean(q)
<1>1. q \in Text
  BY UnescapeEffect
<1> HIDE DEF q
<1>2. /\ c \in Text /\ Tidy(c) /\ Len(c) > 0 /\ c[1] = Slash
      /\ c = <<Slash>> \/ Output(c)
  BY <1>1, CleanEffect
<1>3. Path(p) = IF p # <<>> /\ Last(p) = Slash /\ Last(c) # Slash THEN Append(c, Slash) ELSE c
  BY DEF Path, q, c
<1> HIDE DEF c
<1>4. CASE p # <<>> /\ Last(p) = Slash /\ Last(c) # Slash
  <2>1. Path(p) = Append(c, Slash)
    BY <1>3, <1>4
  <2>2. c # <<Slash>>
    BY <1>4 DEF Last
  <2>3. Output(c)
    BY <1>2, <2>2
  <2> DEFINE e == <<>>
             k == Join(c, Slash, e)
  <2>4. e \in Text /\ e \notin Dots /\ \A i \in DOMAIN e : e[i] # Slash
    BY EmptyOutput DEF Dots
  <2>5. k = Append(c, Slash)
    <3>1. c \in Seq(Char) /\ c \o <<Slash>> \in Seq(Char) /\ Slash \in Char
      BY <1>2, Separators DEF Text
    <3>2. Append(c, Slash) = c \o <<Slash>>
      BY <3>1, AppendIsConcat
    <3>3. (c \o <<Slash>>) \o <<>> = c \o <<Slash>>
      BY <3>1, ConcatEmptySeq
    <3>4. QED
      BY <3>2, <3>3 DEF Join
  <2> HIDE DEF e
  <2>6. k \in Text /\ Joined(k, c, Slash, e)
    BY <1>2, <2>4, Separators, JoinEffect
  <2> HIDE DEF k
  <2>7. Tidy(k) /\ Len(k) > 0 /\ k[1] = Slash
    BY <2>3, <2>4, <2>6, TidyAppend
  <2>8. QED
    BY <2>1, <2>5, <2>6, <2>7
<1>5. CASE ~(p # <<>> /\ Last(p) = Slash /\ Last(c) # Slash)
  BY <1>2, <1>3, <1>5
<1>6. QED
  BY <1>4, <1>5

\* What an origin decodes is the path; and an escaped path has no escaped slash.
LEMMA EscapePathEffect ==
    ASSUME NEW p \in Text
    PROVE  /\ EscapePath(p) \in Text /\ Unescape(EscapePath(p)) = p
           /\ ~Contains(EscapePath(p), <<"/", 1>>)
<1> DEFINE f == EscapePath(p)
           n == Len(p)
           More(i) == p[i][2] > 0 \/ p[i] \in {Bar, Percent}
<1>1. DOMAIN p = 1 .. n /\ n \in Nat
  BY DomainProperties
<1>2. f = [i \in 1 .. n |-> IF More(i) THEN <<p[i][1], p[i][2] + 1>> ELSE p[i]]
  BY <1>1 DEF EscapePath
<1>3. \A i \in 1 .. n : f[i] = IF More(i) THEN <<p[i][1], p[i][2] + 1>> ELSE p[i]
  BY <1>2
<1>4. f = [i \in 1 .. n |-> f[i]]
  BY <1>2
<1> HIDE DEF f
<1>5. ASSUME NEW i \in 1 .. n
      PROVE  /\ f[i] \in Char /\ f[i] # <<"/", 1>>
             /\ p[i] = <<f[i][1], IF f[i][2] = 0 THEN 0 ELSE f[i][2] - 1>>
  <2>1. /\ p[i][2] \in Nat /\ p[i][1] \in Alphabet /\ p[i] \in Char
        /\ p[i] = <<p[i][1], p[i][2]>>
    BY CharAt
  <2>2. CASE More(i)
    <3>1. f[i] = <<p[i][1], p[i][2] + 1>>
      BY <1>3, <2>2
    <3>2. f[i] \in Char
      BY <2>1, <3>1 DEF Char
    <3>3. f[i][1] = p[i][1] /\ f[i][2] = p[i][2] + 1 /\ f[i][2] # 0 /\ f[i][2] - 1 = p[i][2]
      BY <2>1, <3>1
    <3>4. p[i] = <<f[i][1], f[i][2] - 1>>
      BY <2>1, <3>3
    <3>5. f[i] # <<"/", 1>>
      <4>1. SUFFICES ASSUME f[i] = <<"/", 1>> PROVE FALSE
        OBVIOUS
      <4>2. p[i][1] = "/" /\ p[i][2] = 0
        BY <2>1, <3>3, <4>1
      <4>3. QED
        BY <2>1, <2>2, <4>2 DEF Bar, Percent
    <3>6. QED
      BY <3>2, <3>3, <3>4, <3>5
  <2>3. CASE ~More(i)
    <3>1. f[i] = p[i]
      BY <1>3, <2>3
    <3>2. p[i][2] = 0
      BY <2>1, <2>3
    <3>3. QED
      BY <2>1, <3>1, <3>2
  <2>4. QED
    BY <2>2, <2>3
<1>6. f \in Text /\ Len(f) = n
  BY <1>1, <1>4, <1>5, MadeText
<1> DEFINE u == Unescape(f)
<1>7. /\ u \in Text /\ Len(u) = n
      /\ \A i \in 1 .. n : u[i] = <<f[i][1], IF f[i][2] = 0 THEN 0 ELSE f[i][2] - 1>>
  BY <1>6, UnescapeEffect
<1> HIDE DEF u
<1>8. \A i \in 1 .. n : u[i] = p[i]
  BY <1>5, <1>7, Zenon
<1>9. u = p
  BY <1>7, <1>8, SameText
<1>10. ~Contains(f, <<"/", 1>>)
  BY <1>5, <1>6 DEF Contains
<1>11. QED
  BY <1>6, <1>9, <1>10 DEF f, u

\* Without escaped slashes, splitting and decoding commute.
LEMMA SegmentsDecoded ==
    ASSUME NEW u \in Text, ~Contains(u, <<"/", 1>>)
    PROVE  Segments(u) = Split(Unescape(u), Slash)
<1> DEFINE v == Unescape(u)
           C == Cuts(u, Slash)
           n == Cardinality(C)
<1>1. /\ v \in Text /\ Len(v) = Len(u)
      /\ \A i \in 1 .. Len(u) : v[i] = <<u[i][1], IF u[i][2] = 0 THEN 0 ELSE u[i][2] - 1>>
      /\ DOMAIN u = 1 .. Len(u) /\ DOMAIN v = 1 .. Len(u) /\ Len(u) \in Nat
  BY UnescapeEffect, DomainProperties
<1> HIDE DEF v
<1>2. ASSUME NEW i \in 1 .. Len(u) PROVE u[i] = Slash <=> v[i] = Slash
  <2>1. u[i] = <<u[i][1], u[i][2]>> /\ u[i][2] \in Nat /\ u[i] # <<"/", 1>>
    BY CharAt DEF Contains
  <2>2. u[i][2] = 0 \/ u[i][2] = 1 \/ u[i][2] > 1
    BY <2>1
  <2>3. v[i] = <<u[i][1], IF u[i][2] = 0 THEN 0 ELSE u[i][2] - 1>>
    BY <1>1
  <2>4. CASE u[i][2] = 0
    BY <2>1, <2>3, <2>4
  <2>5. CASE u[i][2] = 1
    BY <2>1, <2>3, <2>5 DEF Slash
  <2>6. CASE u[i][2] > 1
    <3>1. u[i][2] # 0 /\ u[i][2] - 1 # 0
      BY <2>1, <2>6
    <3>2. v[i] = <<u[i][1], u[i][2] - 1>>
      BY <2>3, <3>1
    <3>3. QED
      BY <2>1, <3>1, <3>2 DEF Slash
  <2>7. QED
    BY <2>2, <2>4, <2>5, <2>6
<1>3. Cuts(v, Slash) = C
  BY <1>1, <1>2 DEF Cuts
<1>4. C \subseteq 0 .. Len(u) + 1 /\ IsFiniteSet(C) /\ C \subseteq Int /\ n \in Nat
  BY CutsFinite
<1> DEFINE s == Split(u, Slash)
           t == Split(v, Slash)
<1>5. /\ s \in Seq(Text) /\ Len(s) = n - 1
      /\ \A j \in 1 .. Len(s) : Between(u, C, j, s[j])
  BY SplitEffect
<1>6. /\ t \in Seq(Text) /\ Len(t) = n - 1
      /\ \A j \in 1 .. Len(t) : Between(v, C, j, t[j])
  BY <1>1, <1>3, SplitEffect
<1>7. DOMAIN s = 1 .. n - 1 /\ DOMAIN t = 1 .. n - 1 /\ t = [j \in 1 .. n - 1 |-> t[j]]
  BY <1>5, <1>6
<1>8. Segments(u) = [j \in DOMAIN s |-> Unescape(s[j])]
  BY DEF Segments
<1> HIDE DEF s, t, C, n
<1>9. ASSUME NEW j \in 1 .. n - 1 PROVE Unescape(s[j]) = t[j]
  <2>1. PICK a, b \in C : /\ a < b /\ Cardinality(Below(C, a)) = j - 1 /\ Cardinality(Below(C, b)) = j
                          /\ s[j] = SubSeq(u, a + 1, b - 1)
    BY <1>5 DEF Between
  <2>2. PICK c, d \in C : /\ c < d /\ Cardinality(Below(C, c)) = j - 1 /\ Cardinality(Below(C, d)) = j
                          /\ t[j] = SubSeq(v, c + 1, d - 1)
    BY <1>6 DEF Between
  <2>3. a = c /\ b = d
    <3>1. \A x, y \in C : Cardinality(Below(C, x)) = Cardinality(Below(C, y)) => x = y
      BY <1>4, BelowProperties
    <3>2. QED
      BY <2>1, <2>2, <3>1
  <2> DEFINE m == b - 1
             x == SubSeq(u, a + 1, m)
             y == SubSeq(v, a + 1, m)
  <2>4. a \in Nat /\ m \in Nat /\ a <= m /\ m <= Len(u)
    BY <1>1, <1>4, <2>1
  <2>5. s[j] = x /\ t[j] = y
    BY <2>1, <2>2, <2>3
  <2> HIDE DEF m
  <2>6. x \in Text /\ Len(x) = m - a /\ \A i \in 1 .. m - a : x[i] = u[a + i]
    BY <2>4, SubSeqEffect
  <2>7. y \in Text /\ Len(y) = m - a /\ \A i \in 1 .. m - a : y[i] = v[a + i]
    BY <1>1, <2>4, SubSeqEffect
  <2> HIDE DEF x, y
  <2> DEFINE z == Unescape(x)
  <2>8. /\ z \in Text /\ Len(z) = Len(x)
        /\ \A i \in 1 .. Len(x) : z[i] = <<x[i][1], IF x[i][2] = 0 THEN 0 ELSE x[i][2] - 1>>
    BY <2>6, UnescapeEffect
  <2> HIDE DEF z
  <2>9. ASSUME NEW i \in 1 .. Len(x) PROVE z[i] = y[i]
    <3>1. i \in 1 .. m - a /\ a + i \in 1 .. Len(u)
      BY <1>1, <2>4, <2>6
    <3>2. x[i] = u[a + i] /\ y[i] = v[a + i]
      BY <2>6, <2>7, <3>1
    <3>3. v[a + i] = <<x[i][1], IF x[i][2] = 0 THEN 0 ELSE x[i][2] - 1>>
      BY <1>1, <3>1, <3>2
    <3>4. QED
      BY <2>8, <3>2, <3>3
  <2>10. z = y
    BY <2>6, <2>7, <2>8, <2>9, SameText
  <2>11. QED
    BY <2>5, <2>10 DEF z
<1>10. QED
  BY <1>7, <1>8, <1>9 DEF t, v

\* A tidy path has no dot segments, and at most the last of its segments is empty.
LEMMA TidyParts ==
    ASSUME NEW c \in Text, Tidy(c), NEW j \in 2 .. Len(Split(c, Slash))
    PROVE  /\ Split(c, Slash)[j] \notin Dots
           /\ Split(c, Slash)[j] = <<>> => j = Len(Split(c, Slash))
<1> DEFINE C == Cuts(c, Slash)
           n == Cardinality(C)
           t == Split(c, Slash)
           s == t[j]
<1>1. C \subseteq 0 .. Len(c) + 1 /\ IsFiniteSet(C) /\ C \subseteq Int /\ n \in Nat
  BY CutsFinite
<1>2. Len(t) = n - 1 /\ \A i \in 1 .. Len(t) : Between(c, C, i, t[i])
  BY SplitEffect
<1>3. DOMAIN c = 1 .. Len(c) /\ Len(c) \in Nat /\ j \in Int /\ j >= 2 /\ j <= n - 1
  BY <1>1, <1>2, DomainProperties
<1>4. PICK a, b \in C : /\ a < b /\ Cardinality(Below(C, a)) = j - 1 /\ Cardinality(Below(C, b)) = j
                        /\ \A x \in C : x <= a \/ x >= b
                        /\ s = SubSeq(c, a + 1, b - 1)
  <2>1. j \in 1 .. Len(t)
    BY <1>1, <1>2, <1>3
  <2>2. Between(c, C, j, s)
    BY <1>2, <2>1
  <2>3. QED
    BY <2>2 DEF Between
<1>5. a # 0
  <2>1. SUFFICES ASSUME a = 0 PROVE FALSE
    OBVIOUS
  <2>2. Below(C, a) = {}
    BY <1>1, <1>3, <2>1 DEF Below
  <2>3. QED
    BY <1>3, <1>4, <2>2, FS_EmptySet
<1>6. a \in 1 .. Len(c) /\ b \in 2 .. Len(c) + 1
  <2>1. a \in 0 .. Len(c) + 1 /\ b \in 0 .. Len(c) + 1
    BY <1>1
  <2>2. a < b
    BY <1>4
  <2>3. QED
    BY <1>3, <1>5, <2>1, <2>2
<1>7. /\ \A x \in C : x = 0 \/ x = Len(c) + 1 \/ c[x] = Slash
      /\ \A x \in 1 .. Len(c) : c[x] = Slash => x \in C
      /\ Len(c) + 1 \in C
  BY <1>3 DEF Cuts
<1> HIDE DEF C, t
<1>8. c[a] = Slash /\ (b = Len(c) + 1 \/ c[b] = Slash)
  BY <1>3, <1>6, <1>7
<1>9. \A x \in a + 1 .. b - 1 : c[x] # Slash
  BY <1>3, <1>4, <1>6, <1>7
<1>10. Segment(c, a, b)
  BY <1>4, <1>6, <1>8, <1>9 DEF Segment
<1>11. SubSeq(c, a + 1, b - 1) \notin Dots /\ (b = a + 1 => b = Len(c) + 1)
  BY <1>6, <1>10 DEF Tidy
<1>12. ASSUME s = <<>> PROVE j = Len(t)
  <2> DEFINE m == b - 1
  <2>1. a \in Nat /\ m \in Nat /\ a <= m /\ m <= Len(c) /\ b = m + 1
    BY <1>3, <1>4, <1>6
  <2>2. Len(SubSeq(c, a + 1, m)) = m - a
    BY <2>1, SubSeqEffect
  <2>3. m - a = 0
    <3>1. SubSeq(c, a + 1, m) = <<>>
      BY <1>4, <1>12
    <3>2. QED
      BY <2>2, <3>1
  <2>4. b = Len(c) + 1
    BY <1>3, <1>6, <1>11, <2>1, <2>3
  <2>5. C = Below(C, b) \cup {b} /\ b \notin Below(C, b) /\ Below(C, b) \subseteq C
    <3>1. \A x \in C : x < b \/ x = b
      BY <1>1, <1>3, <2>4
    <3>2. ~(b < b)
      BY <1>6
    <3>3. QED
      BY <3>1, <3>2 DEF Below
  <2>6. IsFiniteSet(Below(C, b))
    BY <1>1, <2>5, FS_Subset
  <2>7. n = j + 1
    BY <1>4, <2>5, <2>6, AddOne
  <2>8. QED
    BY <1>2, <1>3, <2>7
<1>13. QED
  BY <1>4, <1>11, <1>12 DEF t

-----------------------------------------------------------------------------
(* Keys, put together and taken apart.                                     *)

KeyFront == << <<"GET", 0>>, Bar, <<"host", 0>>, Bar >>

\* The method and the host: four characters, two of them bars.
LEMMA KeyFrontProperties ==
    /\ KeyFront \in Text /\ Len(KeyFront) = 4
    /\ KeyFront[1] # Bar /\ KeyFront[2] = Bar /\ KeyFront[3] # Bar /\ KeyFront[4] = Bar
<1>1. <<"GET", 0>> \in Char /\ <<"host", 0>> \in Char /\ Bar \in Char
  BY AlphabetAssumption DEF Char, Bar
<1>2. QED
  BY <1>1 DEF KeyFront, Text, Bar

\* The head and a path.
Rooted(h, p) ==
    /\ Len(h) = 4 + Len(p)
    /\ h[1] # Bar /\ h[2] = Bar /\ h[3] # Bar /\ h[4] = Bar
    /\ \A i \in 1 .. Len(p) : h[4 + i] = p[i]

\* A key up to the end of its path.
LEMMA RootedEffect ==
    ASSUME NEW p \in Text
    PROVE  KeyFront \o p \in Text /\ Rooted(KeyFront \o p, p)
<1> DEFINE h == KeyFront
           k == h \o p
<1>1. /\ h \in Text /\ Len(h) = 4
      /\ h[1] # Bar /\ h[2] = Bar /\ h[3] # Bar /\ h[4] = Bar
  BY KeyFrontProperties
<1> HIDE DEF h
<1>2. /\ k \in Text /\ Len(k) = Len(h) + Len(p)
      /\ \A i \in 1 .. Len(h) : k[i] = h[i]
      /\ \A i \in 1 .. Len(p) : k[Len(h) + i] = p[i]
  BY <1>1, ConcatEffect
<1> HIDE DEF k
<1>3. k[1] = h[1] /\ k[2] = h[2] /\ k[3] = h[3] /\ k[4] = h[4]
  BY <1>1, <1>2
<1>4. Rooted(k, p)
  BY <1>1, <1>2, <1>3 DEF Rooted
<1>5. QED
  BY <1>2, <1>4 DEF k, h

\* How a key is made of a path, a query and encodings.
Key(k, p, q, e) ==
    \E h, g \in Text : Rooted(h, p) /\ Joined(g, h, Bar, q) /\ Joined(k, g, Bar, e)

\* CacheKey makes such keys.
LEMMA CacheKeyShape ==
    ASSUME NEW p \in Text, NEW q, Query(q) \in Text, NEW ae \in Accept
    PROVE  /\ CacheKey(p, q, ae) \in Text
           /\ Key(CacheKey(p, q, ae), Path(p), Query(q), AcceptEncoding(ae))
<1> DEFINE P == Path(p)
           Q == Query(q)
           E == AcceptEncoding(ae)
           h == KeyFront \o P
           g == Join(h, Bar, Q)
           k == Join(g, Bar, E)
<1>1. P \in Text /\ Q \in Text /\ E \in Text /\ Bar \in Char
  BY PathEffect, AcceptProperties, Separators
<1>2. CacheKey(p, q, ae) = k
  BY DEF CacheKey, Join, KeyFront
<1> HIDE DEF P, Q, E
<1>3. h \in Text /\ Rooted(h, P)
  BY <1>1, RootedEffect
<1> HIDE DEF h
<1>4. g \in Text /\ Joined(g, h, Bar, Q)
  BY <1>1, <1>3, JoinEffect
<1> HIDE DEF g
<1>5. k \in Text /\ Joined(k, g, Bar, E)
  BY <1>1, <1>4, JoinEffect
<1> HIDE DEF k
<1>6. Key(k, P, Q, E)
  BY <1>3, <1>4, <1>5 DEF Key
<1>7. QED
  BY <1>2, <1>5, <1>6 DEF P, Q, E

Barless(x) == \A i \in DOMAIN x : x[i] # Bar

\* After the host there is no bar up to the end of such a path.
LEMMA RootedBarless ==
    ASSUME NEW h \in Text, NEW p \in Text, Rooted(h, p), Barless(p)
    PROVE  4 <= Len(h) /\ \A i \in DOMAIN h : i > 4 => h[i] # Bar
<1>1. Len(p) \in Nat /\ Len(h) = 4 + Len(p) /\ DOMAIN h = 1 .. Len(h) /\ DOMAIN p = 1 .. Len(p)
  BY DomainProperties DEF Rooted
<1>2. ASSUME NEW i \in DOMAIN h, i > 4 PROVE h[i] # Bar
  <2>1. i - 4 \in 1 .. Len(p) /\ 4 + (i - 4) = i
    BY <1>1, <1>2
  <2>2. h[4 + (i - 4)] = p[i - 4]
    BY <2>1 DEF Rooted
  <2>3. QED
    BY <1>1, <2>1, <2>2 DEF Barless
<1>3. QED
  BY <1>1, <1>2

\* Two keys that are equal have the same parts.
LEMMA KeyParts ==
    ASSUME NEW k, NEW p \in Text, NEW q \in Text, NEW e \in Text,
           NEW r \in Text, NEW s \in Text, NEW f \in Text,
           Key(k, p, q, e), Key(k, r, s, f), Barless(e), Barless(f)
    PROVE  e = f /\ (Barless(p) /\ Barless(r) => p = r /\ q = s)
<1>1. PICK h, g \in Text : Rooted(h, p) /\ Joined(g, h, Bar, q) /\ Joined(k, g, Bar, e)
  BY DEF Key
<1>2. PICK i, j \in Text : Rooted(i, r) /\ Joined(j, i, Bar, s) /\ Joined(k, j, Bar, f)
  BY DEF Key
<1>3. g = j /\ e = f
  BY <1>1, <1>2, LastBar DEF Barless
<1>4. ASSUME Barless(p), Barless(r) PROVE p = r /\ q = s
  <2>1. /\ 4 <= Len(h) /\ \A x \in DOMAIN h : x > 4 => h[x] # Bar
        /\ 4 <= Len(i) /\ \A x \in DOMAIN i : x > 4 => i[x] # Bar
    BY <1>1, <1>2, <1>4, RootedBarless
  <2>2. Joined(g, h, Bar, q) /\ Joined(g, i, Bar, s) /\ 4 \in Nat
    BY <1>1, <1>2, <1>3
  <2>3. h = i /\ q = s
    BY <2>1, <2>2, FirstBar
  <2>4. Len(p) = Len(r) /\ \A x \in 1 .. Len(p) : p[x] = r[x]
    <3>1. Len(p) \in Nat /\ Len(r) \in Nat /\ Len(h) = 4 + Len(p) /\ Len(h) = 4 + Len(r)
      BY <1>1, <1>2, <2>3, DomainProperties DEF Rooted
    <3>2. Len(p) = Len(r)
      BY <3>1
    <3>3. \A x \in 1 .. Len(p) : h[4 + x] = p[x] /\ h[4 + x] = r[x]
      BY <1>1, <1>2, <2>3, <3>2 DEF Rooted
    <3>4. QED
      BY <3>2, <3>3
  <2>5. QED
    BY <2>3, <2>4, SameText
<1>5. QED
  BY <1>3, <1>4

\* The third part of a key is the path, if that has no bar.
LEMMA ThirdPart ==
    ASSUME NEW k \in Text, NEW p \in Text, NEW q \in Text, NEW e \in Text,
           Key(k, p, q, e), Barless(p)
    PROVE  splitCacheKey(k)[3] = p
<1>1. PICK h, g \in Text : Rooted(h, p) /\ Joined(g, h, Bar, q) /\ Joined(k, g, Bar, e)
  BY DEF Key
<1> DEFINE n == Len(p)
           d == n + 5
           C == Cuts(k, Bar)
<1>2. /\ n \in Nat /\ Len(h) = 4 + n /\ Len(g) = d + Len(q) /\ Len(k) = d + Len(q) + 1 + Len(e)
      /\ Len(q) \in Nat /\ Len(e) \in Nat /\ DOMAIN k = 1 .. Len(k)
  <2>1. Len(h) = 4 + n /\ Len(g) = Len(h) + 1 + Len(q) /\ Len(k) = Len(g) + 1 + Len(e)
    BY <1>1 DEF Rooted, Joined
  <2>2. n \in Nat /\ Len(q) \in Nat /\ Len(e) \in Nat /\ DOMAIN k = 1 .. Len(k)
    BY DomainProperties
  <2>3. QED
    BY <2>1, <2>2
<1>3. \A i \in 1 .. n + 4 : k[i] = h[i] /\ i \in DOMAIN k
  <2>1. ASSUME NEW i \in 1 .. n + 4
        PROVE  i \in 1 .. Len(h) /\ i \in 1 .. Len(g) /\ i \in 1 .. Len(k)
    BY <1>2
  <2>2. QED
    BY <1>1, <1>2, <2>1 DEF Joined
<1>4. k[d] = Bar /\ d \in DOMAIN k
  <2>1. d = Len(h) + 1 /\ d \in 1 .. Len(g) /\ d \in 1 .. Len(k)
    BY <1>2
  <2>2. g[d] = Bar
    BY <1>1, <2>1 DEF Joined
  <2>3. k[d] = g[d]
    BY <1>1, <2>1 DEF Joined
  <2>4. QED
    BY <1>2, <2>1, <2>2, <2>3
<1>5. /\ k[1] # Bar /\ k[2] = Bar /\ k[3] # Bar /\ k[4] = Bar
      /\ 1 \in DOMAIN k /\ 2 \in DOMAIN k /\ 3 \in DOMAIN k /\ 4 \in DOMAIN k
  <2>1. 1 \in 1 .. n + 4 /\ 2 \in 1 .. n + 4 /\ 3 \in 1 .. n + 4 /\ 4 \in 1 .. n + 4
    BY <1>2
  <2>2. QED
    BY <1>1, <1>3, <2>1 DEF Rooted
<1>6. ASSUME NEW i \in 1 .. n PROVE k[4 + i] = p[i] /\ k[4 + i] # Bar
  <2>1. 4 + i \in 1 .. n + 4
    BY <1>2
  <2>2. h[4 + i] = p[i]
    BY <1>1 DEF Rooted
  <2>3. p[i] # Bar
    BY DomainProperties DEF Barless
  <2>4. QED
    BY <1>3, <2>1, <2>2, <2>3
<1>7. C \subseteq 0 .. Len(k) + 1 /\ IsFiniteSet(C) /\ C \subseteq Int
  BY CutsFinite
<1>8. /\ 0 \in C /\ 2 \in C /\ 4 \in C /\ d \in C
      /\ \A x \in C : x = 0 \/ x = Len(k) + 1 \/ k[x] = Bar
  BY <1>4, <1>5 DEF Cuts
<1> HIDE DEF C
<1>9. \A x \in C : x <= 0 \/ x >= 2
  BY <1>2, <1>5, <1>7, <1>8
<1>10. \A x \in C : x <= 2 \/ x >= 4
  BY <1>2, <1>5, <1>7, <1>8
<1>11. \A x \in C : x <= 4 \/ x >= d
  <2>1. SUFFICES ASSUME NEW x \in C, x > 4, x < d PROVE FALSE
    BY <1>2, <1>7
  <2>2. x - 4 \in 1 .. n /\ 4 + (x - 4) = x /\ x # 0 /\ x # Len(k) + 1
    BY <1>2, <1>7, <2>1
  <2>3. QED
    BY <1>6, <1>8, <2>2
<1>12. Cardinality(Below(C, 0)) = 0
  <2>1. Below(C, 0) = {}
    <3>1. \A x \in C : ~(x < 0)
      BY <1>2, <1>7
    <3>2. QED
      BY <3>1 DEF Below
  <2>2. QED
    BY <2>1, FS_EmptySet
<1>13. Cardinality(Below(C, 2)) = 1
  <2>1. Cardinality(Below(C, 2)) = Cardinality(Below(C, 0)) + 1
    BY <1>7, <1>8, <1>9, 0 < 2, NextCut
  <2>2. QED
    BY <1>12, <2>1
<1>14. Cardinality(Below(C, 4)) = 3 - 1
  <2>1. Cardinality(Below(C, 4)) = Cardinality(Below(C, 2)) + 1
    BY <1>7, <1>8, <1>10, 2 < 4, NextCut
  <2>2. QED
    BY <1>13, <2>1
<1>15. Split(k, Bar)[3] = SubSeq(k, 4 + 1, d - 1)
  <2> DEFINE a == 4
             j == 3
  <2>1. a < d /\ j \in Nat
    BY <1>2
  <2>2. /\ a \in Cuts(k, Bar) /\ d \in Cuts(k, Bar)
        /\ \A x \in Cuts(k, Bar) : x <= a \/ x >= d
        /\ Cardinality(Below(Cuts(k, Bar), a)) = j - 1
    BY <1>8, <1>11, <1>14 DEF C
  <2> HIDE DEF a, j, d
  <2>3. Split(k, Bar)[j] = SubSeq(k, a + 1, d - 1)
    BY <2>1, <2>2, PartAt
  <2>4. QED
    BY <2>3 DEF a, j
<1>16. SubSeq(k, 4 + 1, d - 1) = p
  <2> DEFINE a == 4
             m == n + 4
             x == SubSeq(k, a + 1, m)
  <2>1. m \in Nat /\ a \in Nat /\ a <= m /\ m <= Len(k) /\ d - 1 = m /\ m - a = n
    BY <1>2
  <2>2. \A i \in 1 .. n : k[a + i] = p[i]
    BY <1>6
  <2> HIDE DEF a, m
  <2>3. x \in Text /\ Len(x) = m - a /\ \A i \in 1 .. m - a : x[i] = k[a + i]
    BY <2>1, SubSeqEffect
  <2> HIDE DEF x
  <2>4. Len(x) = Len(p) /\ \A i \in 1 .. Len(x) : x[i] = p[i]
    BY <2>1, <2>2, <2>3
  <2>5. x = p
    BY <2>3, <2>4, SameText
  <2>6. QED
    BY <2>1, <2>5 DEF x, a
<1>17. QED
  BY <1>15, <1>16 DEF splitCacheKey

-----------------------------------------------------------------------------
(* Requests.                                                               *)

\* What goes to the origin decodes to the path, and the key is made of that path.
LEMMA RequestFacts ==
    ASSUME NEW rq \in Requests
    PROVE  /\ URLPath[rq] \in Text /\ Tidy(URLPath[rq])
           /\ Len(URLPath[rq]) > 0 /\ URLPath[rq][1] = Slash
           /\ OriginURL[rq] \in Text /\ Unescape(OriginURL[rq]) = URLPath[rq]
           /\ URLQuery[rq] \in Text /\ rq.accept \in Accept /\ Path(URLPath[rq]) \in Text
           /\ cacheKey[rq] \in Text
           /\ Key(cacheKey[rq], Path(URLPath[rq]), URLQuery[rq], AcceptEncoding(rq.accept))
<1>1. /\ rq.target \in Text /\ rq.accept \in Accept /\ QueryOK(rq.query)
  BY RequestsAssumption DEF Accept, QueryOK
<1> DEFINE u == Unescape(rq.target)
           p == URLPath[rq]
           q == URLQuery[rq]
           o == OriginURL[rq]
<1>2. u \in Text
  BY <1>1, UnescapeEffect
<1>3. p = Path(u) /\ q = Query(rq.query) /\ cacheKey[rq] = CacheKey(p, q, rq.accept)
  BY DEF URLPath, URLQuery, cacheKey
<1>4. o = IF u = p /\ ~Contains(rq.target, Bar) THEN rq.target ELSE EscapePath(p)
  BY DEF OriginURL
<1> HIDE DEF p, q, o
<1>5. p \in Text /\ Tidy(p) /\ Len(p) > 0 /\ p[1] = Slash
  BY <1>2, <1>3, PathEffect
<1>6. q \in Text /\ Query(q) = q
  BY <1>1, <1>3, QueryProperties
<1>7. Path(p) \in Text
  BY <1>5, PathEffect
<1>8. o \in Text /\ Unescape(o) = p
  <2>1. CASE u = p /\ ~Contains(rq.target, Bar)
    BY <1>1, <1>4, <2>1
  <2>2. CASE ~(u = p /\ ~Contains(rq.target, Bar))
    BY <1>4, <1>5, <2>2, EscapePathEffect
  <2>3. QED
    BY <2>1, <2>2
<1>9. cacheKey[rq] \in Text /\ Key(cacheKey[rq], Path(p), q, AcceptEncoding(rq.accept))
  <2>1. Query(q) \in Text
    BY <1>6
  <2>2. /\ CacheKey(p, q, rq.accept) \in Text
        /\ Key(CacheKey(p, q, rq.accept), Path(p), Query(q), AcceptEncoding(rq.accept))
    BY <1>1, <1>5, <2>1, CacheKeyShape
  <2>3. QED
    BY <1>3, <1>6, <2>2
<1>10. QED
  BY <1>1, <1>5, <1>6, <1>7, <1>8, <1>9 DEF p, q, o

\* Requests that are not awkward: the key has the path itself, without bars.
LEMMA NotAwkward ==
    ASSUME NEW rq \in Requests, rq \notin Awkward
    PROVE  /\ Path(URLPath[rq]) = URLPath[rq] /\ Barless(URLPath[rq])
           /\ Segments(OriginURL[rq]) = Split(URLPath[rq], Slash)
<1> DEFINE p == URLPath[rq]
           o == OriginURL[rq]
<1>1. Path(p) = p /\ ~Contains(rq.target, <<"/", 1>>) /\ ~Contains(p, Bar)
  BY DEF Awkward
<1>2. p \in Text /\ o \in Text /\ Unescape(o) = p /\ DOMAIN p = 1 .. Len(p)
  BY RequestFacts, DomainProperties
<1>3. o = rq.target \/ o = EscapePath(p)
  BY DEF OriginURL
<1> HIDE DEF p, o
<1>4. ~Contains(o, <<"/", 1>>)
  BY <1>1, <1>2, <1>3, EscapePathEffect
<1>5. Segments(o) = Split(p, Slash)
  BY <1>2, <1>4, SegmentsDecoded
<1>6. Barless(p)
  BY <1>1, <1>2 DEF Barless, Contains
<1>7. QED
  BY <1>1, <1>5, <1>6 DEF p, o

\* Two requests with the same key.
LEMMA SameKey ==
    ASSUME NEW a \in Requests, NEW b \in Requests, cacheKey[a] = cacheKey[b]
    PROVE  /\ AcceptEncoding(a.accept) = AcceptEncoding(b.accept)
           /\ a \notin Awkward /\ b \notin Awkward =>
                 URLPath[a] = URLPath[b] /\ URLQuery[a] = URLQuery[b]
<1> DEFINE k == cacheKey[a]
           p == Path(URLPath[a])
           q == URLQuery[a]
           e == AcceptEncoding(a.accept)
           r == Path(URLPath[b])
           s == URLQuery[b]
           f == AcceptEncoding(b.accept)
<1>1. /\ p \in Text /\ q \in Text /\ a.accept \in Accept /\ Key(k, p, q, e)
      /\ r \in Text /\ s \in Text /\ b.accept \in Accept /\ Key(k, r, s, f)
  BY RequestFacts
<1>2. e \in Text /\ Barless(e) /\ f \in Text /\ Barless(f)
  BY <1>1, AcceptProperties DEF Barless
<1>3. a \notin Awkward => p = URLPath[a] /\ Barless(p)
  BY NotAwkward
<1>4. b \notin Awkward => r = URLPath[b] /\ Barless(r)
  BY NotAwkward
<1> HIDE DEF k, p, q, e, r, s, f
<1>5. e = f /\ (Barless(p) /\ Barless(r) => p = r /\ q = s)
  BY <1>1, <1>2, KeyParts
<1>6. QED
  BY <1>3, <1>4, <1>5 DEF q, e, s, f

-----------------------------------------------------------------------------
(* The store and the last answer.                                          *)

\* An entry was made by a request for its key, and holds the answer to it.
MadeFor(entry, key) ==
    /\ entry.request \in Requests /\ key = cacheKey[entry.request]
    /\ entry.url = OriginURL[entry.request] /\ entry.query = URLQuery[entry.request]
    /\ entry.enc \in Acceptable(entry.request.accept)

StoreInv == \A k \in DOMAIN store : MadeFor(store[k], k)

LastInv ==
    last.op \in {"HIT", "MISS"} =>
        /\ last.request \in Requests /\ MadeFor(last.entry, cacheKey[last.request])
        /\ last.op = "MISS" => last.entry.request = last.request

KeyedInv == StoreInv /\ LastInv

\* Removing entries makes none.
LEMMA WithoutInv ==
    ASSUME NEW keys, StoreInv
    PROVE  \A k \in DOMAIN Without(keys) : MadeFor(Without(keys)[k], k)
<1>1. /\ DOMAIN Without(keys) = DOMAIN store \ keys
      /\ \A k \in DOMAIN store \ keys : Without(keys)[k] = store[k]
  BY DEF Without
<1>2. QED
  BY <1>1 DEF StoreInv

\* An entry that was made for its key can be added.
LEMMA PutInv ==
    ASSUME NEW entries, NEW key, NEW entry, MadeFor(entry, key),
           \A k \in DOMAIN entries : MadeFor(entries[k], k)
    PROVE  \A k \in DOMAIN Put(entries, key, entry) : MadeFor(Put(entries, key, entry)[k], k)
<1> DEFINE s == Put(entries, key, entry)
<1>1. /\ DOMAIN s = DOMAIN entries \cup {key}
      /\ \A k \in DOMAIN entries \cup {key} : s[k] = IF k = key THEN entry ELSE entries[k]
  BY DEF Put
<1> HIDE DEF s
<1>2. ASSUME NEW k \in DOMAIN s PROVE MadeFor(s[k], k)
  <2>1. CASE k = key
    BY <1>1, <2>1
  <2>2. CASE k # key
    BY <1>1, <2>2
  <2>3. QED
    BY <2>1, <2>2
<1>3. QED
  BY <1>2 DEF s

\* There are no entries at first.
LEMMA KeyedInvInit == Init => KeyedInv
  BY DEF Init, KeyedInv, StoreInv, LastInv

\* Hits and purges make no entries; a miss makes one, for its own key.
LEMMA KeyedInvStep == KeyedInv /\ [Next]_vars => KeyedInv'
<1> SUFFICES ASSUME KeyedInv, [Next]_vars PROVE KeyedInv'
  OBVIOUS
<1>1. ASSUME NEW keys, store' = Without(keys) PROVE StoreInv'
  <2>1. \A k \in DOMAIN Without(keys) : MadeFor(Without(keys)[k], k)
    BY WithoutInv DEF KeyedInv
  <2>2. \A k \in DOMAIN store' : MadeFor(store'[k], k)
    BY <1>1, <2>1
  <2>3. QED
    BY <2>2 DEF StoreInv, MadeFor
<1>2. ASSUME UNCHANGED store PROVE StoreInv'
  BY <1>2 DEF KeyedInv, StoreInv, MadeFor
<1>3. ASSUME last'.op \notin {"HIT", "MISS"} PROVE LastInv'
  BY <1>3 DEF LastInv
<1>4. ASSUME NEW rq \in Requests, Redirect(rq) PROVE KeyedInv'
  <2>1. UNCHANGED store /\ last'.op \notin {"HIT", "MISS"}
    BY <1>4 DEF Redirect
  <2>2. QED
    BY <1>2, <1>3, <2>1 DEF KeyedInv
<1>5. ASSUME NEW rq \in Requests, Hit(rq) PROVE KeyedInv'
  <2>1. /\ UNCHANGED store /\ cacheKey[rq] \in DOMAIN store
        /\ last' = [op |-> "HIT", request |-> rq, entry |-> store[cacheKey[rq]]]
    BY <1>5 DEF Hit
  <2>2. MadeFor(store[cacheKey[rq]], cacheKey[rq])
    BY <2>1 DEF KeyedInv, StoreInv
  <2>3. last'.op = "HIT" /\ last'.request = rq /\ last'.entry = store[cacheKey[rq]]
    BY <2>1
  <2>4. LastInv'
    BY <2>2, <2>3 DEF LastInv, MadeFor
  <2>5. QED
    BY <1>2, <2>1, <2>4 DEF KeyedInv
<1>6. ASSUME NEW rq \in Requests, Miss(rq) PROVE KeyedInv'
  <2>1. PICK enc \in Acceptable(rq.accept), evicted \in SUBSET DOMAIN store :
          LET entry == [url |-> OriginURL[rq], query |-> URLQuery[rq], enc |-> enc, request |-> rq]
          IN /\ store' = Put(Without(evicted), cacheKey[rq], entry)
             /\ last' = [op |-> "MISS", request |-> rq, entry |-> entry]
    BY <1>6 DEF Miss
  <2> DEFINE entry == [url |-> OriginURL[rq], query |-> URLQuery[rq], enc |-> enc, request |-> rq]
  <2>2. MadeFor(entry, cacheKey[rq]) /\ entry.request = rq
    BY DEF MadeFor
  <2>3. /\ store' = Put(Without(evicted), cacheKey[rq], entry)
        /\ last' = [op |-> "MISS", request |-> rq, entry |-> entry]
    BY <2>1
  <2> HIDE DEF entry
  <2>4. \A k \in DOMAIN Without(evicted) : MadeFor(Without(evicted)[k], k)
    BY WithoutInv DEF KeyedInv
  <2> DEFINE s == Put(Without(evicted), cacheKey[rq], entry)
  <2>5. \A k \in DOMAIN s : MadeFor(s[k], k)
    BY <2>2, <2>4, PutInv
  <2> HIDE DEF s
  <2>6. \A k \in DOMAIN store' : MadeFor(store'[k], k)
    BY <2>3, <2>5 DEF s
  <2>7. StoreInv'
    BY <2>6 DEF StoreInv, MadeFor
  <2>8. last'.op = "MISS" /\ last'.request = rq /\ last'.entry = entry
    BY <2>3
  <2>9. LastInv'
    BY <2>2, <2>8 DEF LastInv, MadeFor
  <2>10. QED
    BY <2>7, <2>9 DEF KeyedInv
<1>7. ASSUME NEW text \in PurgeTexts, handleCachePurge(text) PROVE KeyedInv'
  <2>1. (\E removed : store' = Without(removed)) /\ last'.op \notin {"HIT", "MISS"}
    BY <1>7 DEF handleCachePurge
  <2>2. QED
    BY <1>1, <1>3, <2>1 DEF KeyedInv
<1>8. ASSUME NEW prefix \in PurgePrefixes, handleCachePurgePrefix(prefix) PROVE KeyedInv'
  <2>1. (\E removed : store' = Without(removed)) /\ last'.op \notin {"HIT", "MISS"}
    BY <1>8 DEF handleCachePurgePrefix
  <2>2. QED
    BY <1>1, <1>3, <2>1 DEF KeyedInv
<1>9. CASE handleCachePurgeAll
  <2>1. store' = <<>> /\ last'.op \notin {"HIT", "MISS"}
    BY <1>9 DEF handleCachePurgeAll
  <2>2. StoreInv'
    BY <2>1 DEF StoreInv
  <2>3. QED
    BY <1>3, <2>1, <2>2 DEF KeyedInv
<1>10. CASE AdminReads \/ Refuse
  <2>1. UNCHANGED store /\ last'.op \notin {"HIT", "MISS"}
    BY <1>10 DEF AdminReads, Refuse
  <2>2. QED
    BY <1>2, <1>3, <2>1 DEF KeyedInv
<1>11. CASE UNCHANGED vars
  <2>1. UNCHANGED store /\ UNCHANGED last
    BY <1>11 DEF vars
  <2>2. LastInv'
    BY <2>1 DEF KeyedInv, LastInv, MadeFor
  <2>3. QED
    BY <1>2, <2>1, <2>2 DEF KeyedInv
<1>12. QED
  BY <1>4, <1>5, <1>6, <1>7, <1>8, <1>9, <1>10, <1>11 DEF Next

\* An entry is always the answer to a request for its key, and so is what a
\* client has got last.
THEOREM EntriesMadeForTheirKeys == Spec => []KeyedInv
<1>1. QED
  BY KeyedInvInit, KeyedInvStep, PTL DEF Spec

-----------------------------------------------------------------------------
(* What follows for clients, the origin and operators.                     *)

\* A HIT is the answer to the path and query of the client: the last bar ends
\* the query and the first one after the host's ends the path, so a key has
\* the parts of one path and one query only.
THEOREM ClientsGetTheirOwnAnswer == Spec => []OwnAnswer
<1>1. KeyedInv => OwnAnswer
  <2> SUFFICES ASSUME KeyedInv, last.op = "HIT",
                      {last.request, last.entry.request} \cap Awkward = {}
               PROVE  /\ Segments(last.entry.url) = Segments(OriginURL[last.request])
                      /\ last.entry.query = URLQuery[last.request]
    BY DEF OwnAnswer
  <2> DEFINE a == last.entry.request
             b == last.request
  <2>1. /\ a \in Requests /\ b \in Requests /\ cacheKey[b] = cacheKey[a]
        /\ last.entry.url = OriginURL[a] /\ last.entry.query = URLQuery[a]
    BY DEF KeyedInv, LastInv, MadeFor
  <2>2. a \notin Awkward /\ b \notin Awkward
    OBVIOUS
  <2> HIDE DEF a, b
  <2>3. URLPath[a] = URLPath[b] /\ URLQuery[a] = URLQuery[b]
    BY <2>1, <2>2, SameKey
  <2>4. Segments(OriginURL[a]) = Segments(OriginURL[b])
    BY <2>1, <2>2, <2>3, NotAwkward
  <2>5. QED
    BY <2>1, <2>3, <2>4 DEF b
<1>2. QED
  BY <1>1, EntriesMadeForTheirKeys, PTL

\* The last part of a key lists the encodings, so two headers with the same
\* key list the same ones.
THEOREM EncodingsAreAcceptable == Spec => []EncodingAcceptable
<1>1. KeyedInv => EncodingAcceptable
  <2> SUFFICES ASSUME KeyedInv, last.op = "HIT",
                      \A i \in DOMAIN last.request.accept : last.request.accept[i].q > 0
               PROVE  last.entry.enc \in Acceptable(last.request.accept)
    BY DEF EncodingAcceptable
  <2> DEFINE a == last.entry.request
             b == last.request
             x == a.accept
             y == b.accept
             enc == last.entry.enc
  <2>1. /\ a \in Requests /\ b \in Requests /\ cacheKey[a] = cacheKey[b]
        /\ enc \in Acceptable(x)
    BY DEF KeyedInv, LastInv, MadeFor
  <2>2. \A i \in DOMAIN y : y[i].q > 0
    OBVIOUS
  <2> HIDE DEF a, b, enc
  <2>3. x \in Accept /\ y \in Accept /\ AcceptEncoding(x) = AcceptEncoding(y)
    BY <2>1, RequestFacts, SameKey
  <2> HIDE DEF x, y
  <2>4. Listed(x) = Listed(y)
    BY <2>3, AcceptProperties
  <2>5. enc = Identity \/ \E i \in DOMAIN x : enc = x[i].enc
    BY <2>1 DEF Acceptable, ToSet
  <2>6. enc = Identity \/ enc \in Listed(x)
    <3>1. ASSUME NEW i \in DOMAIN x, enc = x[i].enc PROVE enc \in Listed(x)
      <4>1. x # <<>>
        OBVIOUS
      <4>2. QED
        BY <3>1, <4>1 DEF Listed
    <3>2. QED
      BY <2>5, <3>1
  <2>7. enc = Identity \/ \E i \in DOMAIN y : enc = y[i].enc
    BY <2>4, <2>6 DEF Listed
  <2>8. enc \in Acceptable(y)
    BY <2>2, <2>7 DEF Acceptable, ToSet
  <2>9. QED
    BY <2>8 DEF enc, y, b
<1>2. QED
  BY <1>1, EntriesMadeForTheirKeys, PTL

\* Whatever a client sends, what the origin decodes is the normalised path,
\* which Clean leaves without dot segments and inner empty segments.
THEOREM NoDotSegmentsReachOrigin == Spec => []NoDotSegments
<1>1. KeyedInv => NoDotSegments
  <2> SUFFICES ASSUME KeyedInv, last.op = "MISS" PROVE NoDotSegments
    BY DEF NoDotSegments
  <2> DEFINE b == last.request
             read == Unescape(last.entry.url)
             parts == Split(read, Slash)
  <2>1. b \in Requests /\ last.entry.url = OriginURL[b]
    BY DEF KeyedInv, LastInv, MadeFor
  <2> HIDE DEF b
  <2>2. read = URLPath[b] /\ read \in Text /\ Tidy(read)
    BY <2>1, RequestFacts
  <2> HIDE DEF read
  <2>3. \A i \in 2 .. Len(parts) : parts[i] \notin Dots /\ (parts[i] = <<>> => i = Len(parts))
    BY <2>2, TidyParts
  <2> HIDE DEF parts
  <2>4. \A i \in 2 .. Len(parts) : /\ parts[i] \notin {<<Dot>>, <<Dot, Dot>>}
                                   /\ parts[i] = <<>> => i = Len(parts)
    BY <2>3 DEF Dots
  <2>5. QED
    BY <2>2, <2>4 DEF NoDotSegments, b, read, parts
<1>2. QED
  BY <1>1, EntriesMadeForTheirKeys, PTL

\* The third part of a key without awkward characters is the path, so a purge
\* by path or prefix finds the entries of that path.
THEOREM PurgesAreExact == Spec => PurgeIsExact
<1> DEFINE Exact ==
      last'.op \in {"purge", "purge-prefix"} /\ last'.text \notin DOMAIN store =>
         \A k \in DOMAIN store :
            LET path == URLPath[store[k].request]
            IN store[k].request \notin Awkward =>
                 (k \notin DOMAIN store' <=> IF last'.op = "purge" THEN path = last'.text
                                             ELSE IsPrefix(last'.text, path))
<1>1. KeyedInv /\ [Next]_vars => [Exact]_vars
  <2> SUFFICES ASSUME KeyedInv, Next, last'.op \in {"purge", "purge-prefix"},
                      last'.text \notin DOMAIN store,
                      NEW k \in DOMAIN store, store[k].request \notin Awkward
               PROVE  k \notin DOMAIN store' <=>
                        IF last'.op = "purge" THEN URLPath[store[k].request] = last'.text
                        ELSE IsPrefix(last'.text, URLPath[store[k].request])
    OBVIOUS
  <2> DEFINE rq == store[k].request
             path == URLPath[rq]
  <2>1. rq \in Requests /\ k = cacheKey[rq]
    BY DEF KeyedInv, StoreInv, MadeFor
  <2>2. path \in Text /\ Len(path) > 0 /\ path[1] = Slash
    BY <2>1, RequestFacts
  <2>3. splitCacheKey(k)[3] = path
    <3> DEFINE q == URLQuery[rq]
               e == AcceptEncoding(rq.accept)
    <3>1. /\ k \in Text /\ q \in Text /\ rq.accept \in Accept
          /\ Key(k, Path(path), q, e) /\ Path(path) = path /\ Barless(path)
      BY <2>1, RequestFacts, NotAwkward
    <3>2. e \in Text
      BY <3>1, AcceptProperties
    <3>3. Key(k, path, q, e)
      BY <3>1
    <3> HIDE DEF q, e, path, rq
    <3>4. QED
      BY <2>2, <3>1, <3>2, <3>3, ThirdPart
  <2>4. \A keys : store' = Without(keys) => (k \notin DOMAIN store' <=> k \in keys)
    BY DEF Without
  <2>5. ASSUME NEW text \in PurgeTexts, handleCachePurge(text)
        PROVE  last'.op = "purge" /\ (k \notin DOMAIN store' <=> path = last'.text)
    <3>1. last'.op = "purge" /\ last'.text = text
      BY <2>5 DEF handleCachePurge
    <3>2. text \notin DOMAIN store
      BY <3>1
    <3>3. CASE text # <<>> /\ text[1] = Slash
      <4>1. store' = Without(DeleteByPath(text))
        BY <2>5, <3>2, <3>3 DEF handleCachePurge
      <4>2. k \in DeleteByPath(text) <=> path = text
        BY <2>3 DEF DeleteByPath
      <4>3. QED
        BY <2>4, <3>1, <4>1, <4>2
    <3>4. CASE ~(text # <<>> /\ text[1] = Slash)
      <4>1. store' = Without({})
        BY <2>5, <3>2, <3>4 DEF handleCachePurge
      <4>2. path # text
        BY <2>2, <3>4
      <4>3. QED
        BY <2>4, <3>1, <4>1, <4>2
    <3>5. QED
      BY <3>3, <3>4
  <2>6. ASSUME NEW prefix \in PurgePrefixes, handleCachePurgePrefix(prefix)
        PROVE  last'.op # "purge" /\ (k \notin DOMAIN store' <=> IsPrefix(last'.text, path))
    <3>1. last'.op # "purge" /\ last'.text = prefix
      BY <2>6 DEF handleCachePurgePrefix
    <3>2. store' = Without({l \in DOMAIN store : containsPrefix(l, prefix)})
      BY <2>6 DEF handleCachePurgePrefix
    <3>3. k \notin DOMAIN store' <=> k \in {l \in DOMAIN store : containsPrefix(l, prefix)}
      BY <2>4, <3>2
    <3>4. containsPrefix(k, prefix) <=> IsPrefix(prefix, path)
      BY <2>3 DEF containsPrefix
    <3>5. QED
      BY <3>1, <3>3, <3>4
  <2>7. ASSUME NEW r \in Requests PROVE ~(Redirect(r) \/ Hit(r) \/ Miss(r))
    <3>1. Redirect(r) => last'.op = "301"
      BY DEF Redirect
    <3>2. Hit(r) => last'.op = "HIT"
      BY DEF Hit
    <3>3. Miss(r) => last'.op = "MISS"
      BY DEF Miss
    <3>4. QED
      BY <3>1, <3>2, <3>3
  <2>8. ~(handleCachePurgeAll \/ AdminReads \/ Refuse)
    BY DEF handleCachePurgeAll, AdminReads, Refuse
  <2>9. QED
    BY <2>5, <2>6, <2>7, <2>8 DEF Next
<1>2. PurgeIsExact <=> [][Exact]_vars
  BY DEF PurgeIsExact
<1> HIDE DEF Exact
<1>3. QED
  BY <1>1, <1>2, EntriesMadeForTheirKeys, PTL DEF Spec

\* A rearrangement is a permutation of the positions.
LEMMA RearrangedBy ==
    ASSUME NEW m \in Nat, NEW n \in Nat, NEW s, NEW t, DOMAIN s = 1 .. m, DOMAIN t = 1 .. n,
           Rearranged(s, t)
    PROVE  m = n /\ \E p : By(s, t, p)
<1>1. PICK p \in Bijection(DOMAIN t, DOMAIN s) : \A i \in DOMAIN t : t[i] = s[p[i]]
  BY DEF Rearranged
<1>2. /\ p \in [DOMAIN t -> DOMAIN s]
      /\ \A i, j \in DOMAIN t : p[i] = p[j] => i = j
      /\ \A j \in DOMAIN s : \E i \in DOMAIN t : p[i] = j
  <2> DEFINE S == DOMAIN t
             T == DOMAIN s
  <2>1. p \in Bijection(S, T)
    OBVIOUS
  <2> HIDE DEF S, T
  <2>2. /\ p \in [S -> T]
        /\ \A i, j \in S : p[i] = p[j] => i = j
        /\ \A j \in T : \E i \in S : p[i] = j
    BY <2>1, Fun_BijectionProperties
  <2>3. QED
    BY <2>2 DEF S, T
<1>3. /\ IsFiniteSet(DOMAIN s) /\ Cardinality(DOMAIN s) = m
      /\ IsFiniteSet(DOMAIN t) /\ Cardinality(DOMAIN t) = n
  <2>1. /\ IsFiniteSet(1 .. m) /\ Cardinality(1 .. m) = IF 1 > m THEN 0 ELSE m - 1 + 1
        /\ IsFiniteSet(1 .. n) /\ Cardinality(1 .. n) = IF 1 > n THEN 0 ELSE n - 1 + 1
    BY FS_Interval
  <2>2. QED
    BY <2>1
<1>4. ExistsBijection(DOMAIN t, DOMAIN s)
  BY <1>1 DEF ExistsBijection
<1>5. m = n
  BY <1>3, <1>4, FS_Bijection, Zenon
<1>6. DOMAIN s = DOMAIN t
  BY <1>5
<1>7. By(s, t, p)
  BY <1>1, <1>2, <1>6 DEF By
<1>8. QED
  BY <1>5, <1>7

\* The order of the parameters makes no difference ...
LEMMA SameQuery ==
    ASSUME NEW s, NEW t, QueryOK(s), QueryOK(t), Unescapable(s), Rearranged(s, t)
    PROVE  Query(s) = Query(t)
<1>1. /\ DOMAIN s = 1 .. Len(s) /\ Len(s) \in Nat /\ DOMAIN t = 1 .. Len(t) /\ Len(t) \in Nat
  BY DomainProperties DEF QueryOK
<1>2. PICK p : By(s, t, p)
  BY <1>1, RearrangedBy
<1>3. /\ DOMAIN t = DOMAIN s /\ p \in [DOMAIN s -> DOMAIN s]
      /\ \A i \in DOMAIN s : t[i] = s[p[i]]
  BY <1>2 DEF By
<1>4. Unescapable(t)
  <2>1. \A i \in DOMAIN s : s[i] # Percent
    BY <1>1 DEF Unescapable, Contains
  <2>2. \A i \in DOMAIN t : t[i] # Percent
    BY <1>3, <2>1
  <2>3. QED
    BY <1>1, <2>2 DEF Unescapable, Contains
<1> DEFINE x == Escape(s)
           y == Escape(t)
<1>5. x \in Text /\ DOMAIN x = DOMAIN s /\ Distinct(x) /\ y \in Text /\ DOMAIN y = DOMAIN s
  BY <1>3, <1>4, EscapeProperties
<1>6. \A i \in DOMAIN s : y[i] = x[p[i]]
  BY <1>3 DEF Escape
<1> HIDE DEF x, y
<1>7. By(x, y, p)
  BY <1>2, <1>5, <1>6 DEF By
<1>8. Sorted(x) = Sorted(y)
  BY <1>5, <1>7, SortedUnique
<1>9. QED
  BY <1>4, <1>8 DEF Query, x, y

\* ... nor does that of the encodings.
LEMMA SameAccept ==
    ASSUME NEW a \in Accept, NEW b \in Accept, Rearranged(Encodings(a), Encodings(b))
    PROVE  AcceptEncoding(a) = AcceptEncoding(b)
<1> DEFINE s == Encodings(a)
           t == Encodings(b)
           x == Names(a)
           y == Names(b)
<1>1. /\ DOMAIN a = 1 .. Len(a) /\ Len(a) \in Nat /\ DOMAIN b = 1 .. Len(b) /\ Len(b) \in Nat
      /\ (a = <<>> <=> Len(a) = 0) /\ (b = <<>> <=> Len(b) = 0)
  BY LenProperties, EmptySeq DEF Accept
<1>2. /\ DOMAIN s = DOMAIN a /\ \A i \in DOMAIN a : s[i] = a[i].enc
      /\ DOMAIN t = DOMAIN b /\ \A i \in DOMAIN b : t[i] = b[i].enc
  BY DEF Encodings
<1>3. /\ x \in Text /\ DOMAIN x = DOMAIN a /\ Distinct(x) /\ y \in Text /\ DOMAIN y = DOMAIN b
      /\ \A i \in DOMAIN a : x[i] = <<"e", a[i].enc>>
      /\ \A i \in DOMAIN b : y[i] = <<"e", b[i].enc>>
  BY NamesProperties
<1>4. AcceptEncoding(a) = (IF a = <<>> THEN << <<"e", Identity>> >> ELSE Sorted(x))
      /\ AcceptEncoding(b) = (IF b = <<>> THEN << <<"e", Identity>> >> ELSE Sorted(y))
  BY DEF AcceptEncoding, Names
<1>5. Rearranged(s, t)
  OBVIOUS
<1> HIDE DEF s, t, x, y
<1>6. Len(a) = Len(b) /\ \E p : By(s, t, p)
  BY <1>1, <1>2, <1>5, RearrangedBy
<1>7. PICK p : By(s, t, p)
  BY <1>6
<1>8. DOMAIN t = DOMAIN s /\ p \in [DOMAIN s -> DOMAIN s] /\ \A i \in DOMAIN s : t[i] = s[p[i]]
  BY <1>7 DEF By
<1>9. \A i \in DOMAIN x : y[i] = x[p[i]]
  BY <1>2, <1>3, <1>8
<1>10. By(x, y, p)
  BY <1>2, <1>3, <1>7, <1>8, <1>9 DEF By
<1>11. Sorted(x) = Sorted(y)
  BY <1>3, <1>10, SortedUnique
<1>12. CASE a = <<>>
  BY <1>1, <1>4, <1>6, <1>12
<1>13. CASE a # <<>>
  BY <1>1, <1>4, <1>6, <1>11, <1>13
<1>14. QED
  BY <1>12, <1>13

\* Sorting has one result for all orders of the same items, so requests that
\* differ only in the order of parameters or encodings, or in escapes, have one
\* key and one entry.  A parameter given twice is another item, and another key.
THEOREM OrderIsIgnored == Spec => []OrderMakesNoDifference
<1>1. KeyedInv => OrderMakesNoDifference
  <2> SUFFICES ASSUME KeyedInv, NEW k \in DOMAIN store, NEW l \in DOMAIN store,
                      Unescape(store[k].request.target) = Unescape(store[l].request.target),
                      Rearranged(store[k].request.query, store[l].request.query),
                      Unescapable(store[k].request.query),
                      Rearranged(Encodings(store[k].request.accept), Encodings(store[l].request.accept))
               PROVE  k = l
    BY DEF OrderMakesNoDifference
  <2> DEFINE a == store[k].request
             b == store[l].request
  <2>1. a \in Requests /\ k = cacheKey[a] /\ b \in Requests /\ l = cacheKey[b]
    BY DEF KeyedInv, StoreInv, MadeFor
  <2>2. /\ Unescape(a.target) = Unescape(b.target) /\ Unescapable(a.query)
        /\ Rearranged(a.query, b.query) /\ Rearranged(Encodings(a.accept), Encodings(b.accept))
    OBVIOUS
  <2> HIDE DEF a, b
  <2>3. QueryOK(a.query) /\ QueryOK(b.query) /\ a.accept \in Accept /\ b.accept \in Accept
    BY <2>1, RequestsAssumption DEF Accept, QueryOK
  <2>4. Query(a.query) = Query(b.query) /\ AcceptEncoding(a.accept) = AcceptEncoding(b.accept)
    BY <2>2, <2>3, SameQuery, SameAccept
  <2>5. URLPath[a] = URLPath[b] /\ URLQuery[a] = URLQuery[b]
    BY <2>1, <2>2, <2>4 DEF URLPath, URLQuery
  <2>6. /\ cacheKey[a] = CacheKey(URLPath[a], URLQuery[a], a.accept)
        /\ cacheKey[b] = CacheKey(URLPath[b], URLQuery[b], b.accept)
    BY <2>1 DEF cacheKey
  <2>7. CacheKey(URLPath[a], URLQuery[a], a.accept) = CacheKey(URLPath[b], URLQuery[b], b.accept)
    BY <2>4, <2>5 DEF CacheKey
  <2>8. QED
    BY <2>1, <2>6, <2>7
<1>2. QED
  BY <1>1, EntriesMadeForTheirKeys, PTL
=============================================================================
