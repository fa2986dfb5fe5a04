------------------------ MODULE MemoryBackendProofs ------------------------
(***************************************************************************)
(* Proofs about MemoryBackend, for every set of keys and every limits.     *)
(***************************************************************************)
EXTENDS MemoryBackend, SequenceTheorems, FiniteSetTheorems, WellFoundedInduction, TLAPS

-----------------------------------------------------------------------------
(* The list.                                                               *)

\* Removing the element at position i keeps the others in their order.
LEMMA RemoveAtProperties ==
    ASSUME NEW S, NEW s \in Seq(S), NEW i \in 1 .. Len(s)
    PROVE  /\ RemoveAt(s, i) \in Seq(S)
           /\ Len(RemoveAt(s, i)) = Len(s) - 1
           /\ \A j \in 1 .. Len(s) - 1 :
                 RemoveAt(s, i)[j] = IF j < i THEN s[j] ELSE s[j+1]
<1> DEFINE a == SubSeq(s, 1, i-1)
           b == SubSeq(s, i+1, Len(s))
<1>0. Len(s) \in Nat /\ i \in Int /\ 1 <= i /\ i <= Len(s)
  BY LenProperties
<1>1. a \in Seq(S) /\ Len(a) = i - 1 /\ \A j \in 1 .. i-1 : a[j] = s[j]
  BY <1>0, SubSeqProperties
<1>2. b \in Seq(S) /\ Len(b) = Len(s) - i /\ \A j \in 1 .. Len(s)-i : b[j] = s[i+j]
  BY <1>0, SubSeqProperties
<1>3. RemoveAt(s, i) = a \o b
  BY DEF RemoveAt
<1> HIDE DEF a, b
<1>4. /\ a \o b \in Seq(S)
      /\ Len(a \o b) = Len(s) - 1
      /\ \A j \in 1 .. Len(s) - 1 :
            (a \o b)[j] = IF j <= i - 1 THEN a[j] ELSE b[j - (i - 1)]
  <2>1. /\ a \o b \in Seq(S)
        /\ Len(a \o b) = Len(a) + Len(b)
        /\ \A j \in 1 .. Len(a) + Len(b) :
              (a \o b)[j] = IF j <= Len(a) THEN a[j] ELSE b[j - Len(a)]
    BY <1>1, <1>2, ConcatProperties, Zenon
  <2>2. Len(a) + Len(b) = Len(s) - 1
    BY <1>0, <1>1, <1>2
  <2>3. QED
    BY <2>1, <2>2, <1>1
<1>5. ASSUME NEW j \in 1 .. Len(s) - 1
      PROVE  (a \o b)[j] = IF j < i THEN s[j] ELSE s[j+1]
  <2>1. CASE j < i
    BY <2>1, <1>0, <1>1, <1>4
  <2>2. CASE j >= i
    <3>1. j - (i - 1) \in 1 .. Len(s) - i /\ i + (j - (i - 1)) = j + 1
      BY <2>2, <1>0
    <3>2. (a \o b)[j] = b[j - (i - 1)]
      BY <2>2, <1>0, <1>4
    <3>3. QED
      BY <2>2, <3>1, <3>2, <1>0, <1>2
  <2>3. j < i \/ j >= i
    BY <1>0
  <2>4. QED
    BY <2>1, <2>2, <2>3
<1>6. QED
  BY <1>3, <1>4, <1>5

\* Unlinking a key takes its only element out of the list.
LEMMA UnlinkProperties ==
    ASSUME NEW S, NEW s \in Seq(S), NEW k \in Range(s)
    PROVE  \E i \in 1 .. Len(s) :
              /\ s[i] = k
              /\ Unlink(s, k) \in Seq(S)
              /\ Len(Unlink(s, k)) = Len(s) - 1
              /\ \A j \in 1 .. Len(s) - 1 :
                    Unlink(s, k)[j] = IF j < i THEN s[j] ELSE s[j+1]
<1> DEFINE i == CHOOSE i \in DOMAIN s : s[i] = k
<1>1. DOMAIN s = 1 .. Len(s)
  BY LenProperties
<1>2. \E j \in DOMAIN s : s[j] = k
  BY DEF Range
<1>3. i \in 1 .. Len(s) /\ s[i] = k
  BY <1>1, <1>2
<1>4. Unlink(s, k) = RemoveAt(s, i)
  BY DEF Unlink
<1> HIDE DEF i
<1>5. QED
  BY <1>3, <1>4, RemoveAtProperties

-----------------------------------------------------------------------------
(* The contents: map, list and byte counter.                               *)

(***************************************************************************)
(* The map it, the list s, the byte count and the stamps t agree:          *)
(* ListMatchesMap, LRUOrder and SizeAccounted of them, the running total   *)
(* also known to be monotone, which would take induction to derive from    *)
(* its recurrence.                                                         *)
(***************************************************************************)
Agree(it, s, total, t) ==
    /\ Contents(it) /\ s \in Seq(Keys) /\ total \in Nat /\ t \in [Keys -> Nat]
    /\ Range(s) = DOMAIN it /\ IsInjective(s)
    /\ \A i, j \in 1 .. Len(s) : i < j => t[s[j]] < t[s[i]]
    /\ \E p \in [0 .. Len(s) -> 0 .. total] :
          /\ p[0] = 0 /\ p[Len(s)] = total
          /\ \A i \in 1 .. Len(s) : p[i] = p[i-1] + it[s[i]].size
          /\ \A i, j \in 0 .. Len(s) : i <= j => p[i] <= p[j]

\* removeElement keeps map, list, order and byte counter in agreement.
LEMMA RemoveAgrees ==
    ASSUME NEW it, NEW s, NEW total, NEW t, Agree(it, s, total, t),
           NEW k \in DOMAIN it
    PROVE  /\ Agree(Restrict(it, DOMAIN it \ {k}), Unlink(s, k),
                    total - it[k].size, t)
           /\ Len(Unlink(s, k)) = Len(s) - 1
           /\ it[k].size \in 0 .. total
<1> DEFINE n == Len(s)
           r == Unlink(s, k)
           jt == Restrict(it, DOMAIN it \ {k})
           z == it[k].size
           m == total - z
<1>1. /\ Contents(it) /\ s \in Seq(Keys) /\ total \in Nat
      /\ Range(s) = DOMAIN it /\ IsInjective(s) /\ t \in [Keys -> Nat]
      /\ \A a, b \in 1 .. n : a < b => t[s[b]] < t[s[a]]
  BY DEF Agree
<1>2. PICK i \in 1 .. n :
              /\ s[i] = k
              /\ r \in Seq(Keys)
              /\ Len(r) = n - 1
              /\ \A j \in 1 .. n - 1 :
                    r[j] = IF j < i THEN s[j] ELSE s[j+1]
  BY <1>1, UnlinkProperties
<1>3. n \in Nat /\ i \in 1 .. n /\ DOMAIN s = 1 .. n
  BY <1>1, LenProperties
<1>4. DOMAIN r = 1 .. n - 1
  BY <1>2, LenProperties
<1> HIDE DEF n, r
<1>5. /\ DOMAIN jt = DOMAIN it \ {k}
      /\ \A x \in DOMAIN jt : jt[x] = it[x]
      /\ Contents(jt)
  BY <1>1 DEF Restrict, Contents
<1> HIDE DEF jt
<1>6. Range(r) = DOMAIN jt /\ IsInjective(r)
  <2>1. ASSUME NEW j \in 1 .. n - 1
        PROVE  /\ r[j] \in DOMAIN it
               /\ r[j] # k
    <3> DEFINE u == IF j < i THEN j ELSE j + 1
    <3>1. u \in 1 .. n /\ u # i /\ r[j] = s[u]
      BY <1>2, <1>3
    <3> HIDE DEF u
    <3>2. QED
      BY <3>1, <1>1, <1>2, <1>3, ZenonT(40) DEF Range, IsInjective
  <2>2. ASSUME NEW x \in DOMAIN it, x # k
        PROVE  \E j \in 1 .. n - 1 : r[j] = x
    <3>1. PICK j \in 1 .. n : s[j] = x
      BY <1>1, <1>3 DEF Range
    <3>2. CASE j < i
      <4>1. j \in 1 .. n - 1
        BY <3>2, <1>3
      <4>2. QED
        BY <4>1, <3>1, <3>2, <1>2
    <3>3. CASE j > i
      <4>1. j - 1 \in 1 .. n - 1 /\ ~(j - 1 < i) /\ (j - 1) + 1 = j
        BY <3>3, <1>3
      <4>2. QED
        BY <4>1, <3>1, <1>2
    <3>4. j # i
      BY <3>1, <2>2, <1>2
    <3>5. j < i \/ j > i
      BY <3>4, <1>3
    <3>6. QED
      BY <3>2, <3>3, <3>5
  <2>3. Range(r) = DOMAIN jt
    BY <2>1, <2>2, <1>4, <1>5 DEF Range
  <2>4. IsInjective(r)
    <3> SUFFICES ASSUME NEW a \in 1 .. n - 1, NEW b \in 1 .. n - 1,
                        r[a] = r[b]
                 PROVE  a = b
      BY <1>4 DEF IsInjective
    <3> DEFINE u(x) == IF x < i THEN x ELSE x + 1
    <3>1. /\ u(a) \in 1 .. n /\ u(b) \in 1 .. n
          /\ r[a] = s[u(a)] /\ r[b] = s[u(b)]
      BY <1>2, <1>3
    <3>2. u(a) = u(b)
      BY <3>1, <1>1, <1>3 DEF IsInjective
    <3>3. QED
      BY <3>2, <1>3
  <2>5. QED
    BY <2>3, <2>4
<1>7. ASSUME NEW a \in 1 .. n - 1, NEW b \in 1 .. n - 1, a < b
      PROVE  t[r[b]] < t[r[a]]
  <2> DEFINE u(x) == IF x < i THEN x ELSE x + 1
  <2>1. /\ u(a) \in 1 .. n /\ u(b) \in 1 .. n /\ u(a) < u(b)
        /\ r[a] = s[u(a)] /\ r[b] = s[u(b)]
    BY <1>2, <1>3, <1>7
  <2>2. t[s[u(b)]] < t[s[u(a)]]
    BY <2>1, <1>1
  <2>3. QED
    BY <2>1, <2>2
<1>8. /\ z \in 0 .. total /\ m \in Nat
      /\ \E q \in [0 .. n - 1 -> 0 .. m] :
            /\ q[0] = 0 /\ q[n-1] = m
            /\ \A j \in 1 .. n - 1 : q[j] = q[j-1] + jt[r[j]].size
            /\ \A a, b \in 0 .. n - 1 : a <= b => q[a] <= q[b]
  <2>1. PICK p \in [0 .. n -> 0 .. total] :
          /\ p[0] = 0 /\ p[n] = total
          /\ \A j \in 1 .. n : p[j] = p[j-1] + it[s[j]].size
          /\ \A a, b \in 0 .. n : a <= b => p[a] <= p[b]
    BY DEF Agree, n
  <2> DEFINE q == [j \in 0 .. n - 1 |-> IF j < i THEN p[j] ELSE p[j+1] - z]
  <2>2. z \in Nat
    BY <1>1, SizesAssumption DEF Contents, Entry
  <2> HIDE DEF z
  <2>3. p[i] = p[i-1] + z /\ p[i] <= total /\ p[i] \in Nat /\ p[i-1] \in Nat
    BY <2>1, <1>1, <1>2, <1>3 DEF z
  <2>4. m = total - z
    OBVIOUS
  <2> HIDE DEF m
  <2>5. \A j \in 0 .. n : p[j] \in Nat
    <3>1. 0 .. total \subseteq Nat
      BY <1>1
    <3>2. QED
      BY <3>1, p \in [0 .. n -> 0 .. total]
  <2>6. ASSUME NEW j \in 0 .. n - 1, j >= i
        PROVE  p[j+1] - z \in 0 .. total - z
    <3>1. p[i] <= p[j+1] /\ p[j+1] <= p[n]
      BY <2>6, <2>1, <1>3
    <3>2. p[j+1] \in Nat
      BY <2>5, <1>3
    <3>3. QED
      BY <3>1, <3>2, <2>1, <2>2, <2>3, <1>1
  <2>7. ASSUME NEW j \in 0 .. n - 1, j < i
        PROVE  p[j] \in 0 .. total - z
    <3>1. p[j] <= p[i-1]
      BY <2>7, <2>1, <1>3
    <3>2. p[j] \in Nat
      BY <2>5, <1>3
    <3>3. QED
      BY <3>1, <3>2, <2>2, <2>3, <1>1
  <2>8. q \in [0 .. n - 1 -> 0 .. m]
    BY <2>4, <2>6, <2>7, <1>3
  <2>9. q[0] = 0 /\ q[n-1] = m
    <3>1. q[0] = p[0]
      BY <1>3
    <3>2. CASE i = n
      BY <3>1, <3>2, <2>1, <2>2, <2>3, <2>4, <1>3
    <3>3. CASE i < n
      <4>1. n - 1 \in 0 .. n - 1 /\ ~(n - 1 < i) /\ (n - 1) + 1 = n
        BY <3>3, <1>3
      <4>2. QED
        BY <3>1, <4>1, <2>1, <2>4
    <3>4. QED
      BY <3>2, <3>3, <1>3
  <2>10. ASSUME NEW j \in 1 .. n - 1
         PROVE  q[j] = q[j-1] + jt[r[j]].size
    <3>1. r[j] \in DOMAIN jt
      BY <1>4, <1>6 DEF Range
    <3>2. jt[r[j]] = it[r[j]]
      BY <3>1, <1>5
    <3>3. CASE j < i
      <4>0. j \in 0 .. n - 1 /\ j - 1 \in 0 .. n - 1 /\ j - 1 < i /\ j \in 1 .. n
        BY <3>3, <1>3
      <4>1. q[j] = p[j] /\ q[j-1] = p[j-1]
        BY <3>3, <4>0
      <4>2. r[j] = s[j]
        BY <3>3, <1>2
      <4>3. QED
        BY <4>0, <4>1, <4>2, <3>2, <2>1
    <3>4. CASE j >= i
      <4>1. r[j] = s[j+1] /\ q[j] = p[j+1] - z
        BY <3>4, <1>2, <1>3
      <4>2. p[j+1] = p[j] + it[s[j+1]].size
        <5>1. j + 1 \in 1 .. n /\ (j + 1) - 1 = j
          BY <1>3
        <5>2. QED
          BY <5>1, <2>1
      <4>3. q[j-1] = p[j] - z
        <5>1. CASE j = i
          <6>1. j - 1 \in 0 .. n - 1 /\ j - 1 < i /\ q[j-1] = p[i-1]
            BY <5>1, <1>3
          <6>2. QED
            BY <6>1, <5>1, <2>3, <2>2
        <5>2. CASE j > i
          BY <5>2, <1>3
        <5>3. QED
          BY <5>1, <5>2, <3>4, <1>3
      <4>4. it[s[j+1]].size \in Nat
        BY <1>1, <1>3, SizesAssumption, SMTT(30) DEF Contents, Entry, Range
      <4>5. p[j] \in Nat /\ p[j+1] \in Nat
        BY <2>5, <1>3
      <4>6. QED
        BY <4>1, <4>2, <4>3, <4>4, <4>5, <3>2, <2>2
    <3>5. QED
      BY <3>3, <3>4, <1>3
  <2>11. ASSUME NEW a \in 0 .. n - 1, NEW b \in 0 .. n - 1, a <= b
         PROVE  q[a] <= q[b]
    <3>1. CASE b < i
      BY <3>1, <2>11, <2>1, <1>3
    <3>2. CASE a >= i
      <4>1. p[a+1] <= p[b+1] /\ p[a+1] \in Nat /\ p[b+1] \in Nat
        <5>1. a + 1 \in 0 .. n /\ b + 1 \in 0 .. n /\ a + 1 <= b + 1
          BY <2>11, <1>3
        <5>2. QED
          BY <5>1, <2>1, <2>5
      <4>2. q[a] = p[a+1] - z /\ q[b] = p[b+1] - z
        BY <3>2, <2>11, <1>3
      <4>3. QED
        BY <4>1, <4>2, <2>2
    <3>3. CASE a < i /\ b >= i
      <4>1. p[a] <= p[i-1] /\ p[i] <= p[b+1] /\ p[a] \in Nat /\ p[b+1] \in Nat
        <5>1. /\ a \in 0 .. n /\ i - 1 \in 0 .. n /\ a <= i - 1
              /\ b + 1 \in 0 .. n /\ i \in 0 .. n /\ i <= b + 1
          BY <3>3, <2>11, <1>3
        <5>2. QED
          BY <5>1, <2>1, <2>5
      <4>2. q[a] = p[a] /\ q[b] = p[b+1] - z
        BY <3>3, <1>3
      <4>3. QED
        BY <4>1, <4>2, <2>2, <2>3
    <3>4. QED
      BY <3>1, <3>2, <3>3, <1>3
  <2>12. z \in 0 .. total /\ m \in Nat
    BY <2>2, <2>3, <2>4, <1>1
  <2> HIDE DEF q
  <2>13. QED
    BY <2>8, <2>9, <2>10, <2>11, <2>12
<1>9. QED
  <2> HIDE DEF z, m
  <2>1. Agree(jt, r, m, t)
    BY <1>1, <1>2, <1>5, <1>6, <1>7, <1>8 DEF Agree
  <2>2. QED
    BY <2>1, <1>2, <1>8 DEF jt, r, m, z, n

\* Inserting a key that is not held, at the front, stamped later than all
\* the others, keeps the agreement.
LEMMA PushAgrees ==
    ASSUME NEW it, NEW s, NEW total, NEW t, Agree(it, s, total, t),
           NEW k \in Keys \ DOMAIN it, NEW e \in Entry, NEW stamp \in Nat,
           \A x \in DOMAIN it : t[x] < stamp
    PROVE  /\ Agree([x \in DOMAIN it \cup {k} |-> IF x = k THEN e ELSE it[x]],
                    <<k>> \o s, total + e.size, [t EXCEPT ![k] = stamp])
           /\ Len(<<k>> \o s) = Len(s) + 1
<1> DEFINE n == Len(s)
           r == <<k>> \o s
           jt == [x \in DOMAIN it \cup {k} |-> IF x = k THEN e ELSE it[x]]
           u == [t EXCEPT ![k] = stamp]
           z == e.size
           m == total + z
<1>1. /\ Contents(it) /\ s \in Seq(Keys) /\ total \in Nat
      /\ Range(s) = DOMAIN it /\ IsInjective(s) /\ t \in [Keys -> Nat]
      /\ \A a, b \in 1 .. n : a < b => t[s[b]] < t[s[a]]
  BY DEF Agree
<1>2. n \in Nat /\ DOMAIN s = 1 .. n
  BY <1>1, LenProperties
<1>3. /\ r \in Seq(Keys) /\ Len(r) = n + 1 /\ DOMAIN r = 1 .. n + 1
      /\ r[1] = k /\ \A j \in 2 .. n + 1 : r[j] = s[j-1]
  <2> DEFINE c == <<k>>
  <2>1. c \in Seq(Keys) /\ Len(c) = 1 /\ c[1] = k
    OBVIOUS
  <2> HIDE DEF c
  <2>2. /\ c \o s \in Seq(Keys)
        /\ Len(c \o s) = Len(c) + Len(s)
        /\ \A j \in 1 .. Len(c) + Len(s) :
              (c \o s)[j] = IF j <= Len(c) THEN c[j] ELSE s[j - Len(c)]
    BY <2>1, <1>1, ConcatProperties, Zenon
  <2>3. /\ r \in Seq(Keys) /\ Len(r) = n + 1
        /\ \A j \in 1 .. n + 1 : r[j] = IF j <= 1 THEN c[j] ELSE s[j - 1]
    <3>1. r = c \o s /\ Len(c) + Len(s) = n + 1
      BY <2>1, <1>2 DEF c
    <3>2. QED
      BY <3>1, <2>1, <2>2
  <2>4. DOMAIN r = 1 .. n + 1
    BY <2>3, LenProperties
  <2> HIDE DEF r, n
  <2>5. QED
    BY <2>1, <2>3, <2>4, <1>2
<1> HIDE DEF n, r
<1>4. ASSUME NEW j \in 1 .. n
      PROVE  s[j] \in DOMAIN it /\ s[j] # k /\ s[j] \in Keys
  BY <1>1, <1>2 DEF Range, Contents
<1>5. /\ DOMAIN jt = DOMAIN it \cup {k} /\ jt[k] = e
      /\ \A x \in DOMAIN it : jt[x] = it[x]
      /\ Contents(jt)
  BY <1>1 DEF Contents
<1>6. u \in [Keys -> Nat] /\ u[k] = stamp /\ \A x \in DOMAIN it : u[x] = t[x]
  BY <1>1 DEF Contents
<1> HIDE DEF jt, u
<1>7. Range(r) = DOMAIN jt
  <2>1. ASSUME NEW j \in 1 .. n + 1
        PROVE  r[j] \in DOMAIN jt
    <3>1. CASE j = 1
      BY <3>1, <1>3, <1>5
    <3>2. CASE j # 1
      <4>1. j \in 2 .. n + 1 /\ j - 1 \in 1 .. n
        BY <3>2, <1>2
      <4>2. QED
        BY <4>1, <1>3, <1>4, <1>5
    <3>3. QED
      BY <3>1, <3>2
  <2>2. ASSUME NEW x \in DOMAIN jt
        PROVE  \E j \in 1 .. n + 1 : r[j] = x
    <3>1. CASE x = k
      BY <3>1, <1>2, <1>3
    <3>2. CASE x # k
      <4>1. PICK j \in 1 .. n : s[j] = x
        BY <3>2, <1>1, <1>2, <1>5 DEF Range
      <4>2. j + 1 \in 2 .. n + 1 /\ (j + 1) - 1 = j /\ j + 1 \in 1 .. n + 1
        BY <1>2
      <4>3. QED
        BY <4>1, <4>2, <1>3
    <3>3. QED
      BY <3>1, <3>2
  <2>3. QED
    BY <2>1, <2>2, <1>3 DEF Range
<1>8. ASSUME NEW a \in 1 .. n + 1, NEW b \in 1 .. n + 1, a < b
      PROVE  r[a] # r[b] /\ u[r[b]] < u[r[a]]
  <2>1. b \in 2 .. n + 1 /\ b - 1 \in 1 .. n /\ r[b] = s[b-1]
    BY <1>2, <1>3, <1>8
  <2>2. CASE a = 1
    BY <2>1, <2>2, <1>3, <1>4, <1>6
  <2>3. CASE a # 1
    <3>1. a \in 2 .. n + 1 /\ a - 1 \in 1 .. n /\ r[a] = s[a-1] /\ a - 1 < b - 1
      BY <2>3, <1>2, <1>3, <1>8
    <3>2. s[a-1] # s[b-1]
      BY <3>1, <2>1, <1>1, <1>2 DEF IsInjective
    <3>3. t[s[b-1]] < t[s[a-1]]
      BY <3>1, <2>1, <1>1
    <3>4. QED
      BY <3>1, <3>2, <3>3, <2>1, <1>4, <1>6
  <2>4. QED
    BY <2>2, <2>3
<1>9. IsInjective(r)
  <2> SUFFICES ASSUME NEW a \in 1 .. n + 1, NEW b \in 1 .. n + 1, r[a] = r[b]
               PROVE  a = b
    BY <1>3 DEF IsInjective
  <2>1. ~(a < b) /\ ~(b < a)
    BY <1>8
  <2>2. QED
    BY <2>1, <1>2
<1>10. /\ m \in Nat
       /\ \E q \in [0 .. n + 1 -> 0 .. m] :
            /\ q[0] = 0 /\ q[n+1] = m
            /\ \A j \in 1 .. n + 1 : q[j] = q[j-1] + jt[r[j]].size
            /\ \A a, b \in 0 .. n + 1 : a <= b => q[a] <= q[b]
  <2>1. PICK p \in [0 .. n -> 0 .. total] :
          /\ p[0] = 0 /\ p[n] = total
          /\ \A j \in 1 .. n : p[j] = p[j-1] + it[s[j]].size
          /\ \A a, b \in 0 .. n : a <= b => p[a] <= p[b]
    BY DEF Agree, n
  <2> DEFINE q == [j \in 0 .. n + 1 |-> IF j = 0 THEN 0 ELSE p[j-1] + z]
  <2>2. z \in Nat /\ m \in Nat
    <3>1. e.size \in Sizes
      BY DEF Entry
    <3>2. z \in Nat
      BY <3>1, SizesAssumption
    <3>3. total \in Nat
      BY <1>1
    <3> HIDE DEF z
    <3>4. QED
      BY <3>2, <3>3
  <2> HIDE DEF z
  <2>3. \A j \in 0 .. n : p[j] \in Nat /\ p[j] <= total
    <3>1. 0 .. total \subseteq Nat /\ \A x \in 0 .. total : x <= total
      BY <1>1
    <3>2. QED
      BY <3>1, p \in [0 .. n -> 0 .. total]
  <2>4. \A j \in 1 .. n + 1 : j - 1 \in 0 .. n /\ q[j] = p[j-1] + z
    BY <1>2
  <2>5. q[0] = 0 /\ q[n+1] = m
    BY <2>1, <2>4, <1>2
  <2>6. q \in [0 .. n + 1 -> 0 .. m]
    <3>1. ASSUME NEW j \in 0 .. n + 1, j # 0
          PROVE  p[j-1] + z \in 0 .. m
      <4>1. p[j-1] \in Nat /\ p[j-1] <= total
        BY <3>1, <2>3, <1>2
      <4>2. QED
        BY <4>1, <2>2, <1>1
    <3>2. 0 \in 0 .. m
      BY <2>2
    <3>3. QED
      BY <3>1, <3>2
  <2> HIDE DEF q, m
  <2>7. ASSUME NEW j \in 1 .. n + 1
        PROVE  q[j] = q[j-1] + jt[r[j]].size
    <3>1. CASE j = 1
      BY <3>1, <2>1, <2>2, <2>4, <2>5, <1>2, <1>3, <1>5 DEF z
    <3>2. CASE j # 1
      <4>1. j \in 2 .. n + 1 /\ j - 1 \in 1 .. n /\ j - 1 \in 1 .. n + 1
        BY <3>2, <1>2
      <4>2. r[j] = s[j-1] /\ jt[r[j]] = it[s[j-1]] /\ s[j-1] \in DOMAIN it
        BY <4>1, <1>3, <1>4, <1>5
      <4>3. p[j-1] = p[(j-1)-1] + it[s[j-1]].size
        BY <4>1, <2>1
      <4>4. q[j] = p[j-1] + z /\ q[j-1] = p[(j-1)-1] + z
        BY <4>1, <2>4
      <4>5. it[s[j-1]].size \in Nat
        BY <4>2, <1>1, SizesAssumption DEF Contents, Entry
      <4>6. p[(j-1)-1] \in Nat
        BY <4>1, <2>3, <1>2
      <4>7. QED
        BY <4>2, <4>3, <4>4, <4>5, <4>6, <2>2
    <3>3. QED
      BY <3>1, <3>2
  <2>8. ASSUME NEW a \in 0 .. n + 1, NEW b \in 0 .. n + 1, a <= b
        PROVE  q[a] <= q[b]
    <3>1. q[b] \in Nat
      BY <2>6, <2>2
    <3>2. CASE a = 0
      BY <3>1, <3>2, <2>5
    <3>3. CASE a # 0
      <4>1. /\ a \in 1 .. n + 1 /\ b \in 1 .. n + 1
            /\ a - 1 \in 0 .. n /\ b - 1 \in 0 .. n /\ a - 1 <= b - 1
        BY <3>3, <2>8, <1>2
      <4>2. p[a-1] <= p[b-1] /\ p[a-1] \in Nat /\ p[b-1] \in Nat
        BY <4>1, <2>1, <2>3
      <4>3. QED
        BY <4>1, <4>2, <2>2, <2>4
    <3>4. QED
      BY <3>2, <3>3
  <2>9. QED
    BY <2>2, <2>5, <2>6, <2>7, <2>8
<1>11. QED
  <2> HIDE DEF z, m
  <2>1. Agree(jt, r, m, u)
    BY <1>1, <1>3, <1>5, <1>6, <1>7, <1>8, <1>9, <1>10, ZenonT(40) DEF Agree
  <2>2. QED
    BY <2>1, <1>3 DEF jt, r, m, z, n, u

-----------------------------------------------------------------------------
(* The inductive invariant.                                                *)

(***************************************************************************)
(* What the call that holds the lock may rely on: Set has taken the old    *)
(* entry of its key out before it inserts the new one; the elements that   *)
(* DeleteBy* collected are still in the cache when it gets to them.        *)
(***************************************************************************)
CallInv ==
    /\ mu.op = "set" => mu.key \notin DOMAIN items
    /\ mu.op = "delete" => mu.toRemove \subseteq DOMAIN items

IInv ==
    /\ TypeOK
    /\ Agree(items, evictList, sizeBytes, touched)
    /\ \A k \in Keys : touched[k] <= hits + stores
    /\ EntriesBounded
    /\ BytesBounded
    /\ StoresAccounted
    /\ CallInv

\* The part of TypeOK about mu.
MuType ==
    \/ mu = Free
    \/ mu \in DeleteCall
    \/ mu \in SetCall(mu.before) /\ Contents(mu.before)

\* Only the calls named in its op field have the fields of that call.
LEMMA MuCases ==
    ASSUME MuType
    PROVE  /\ mu.op \in {"free", "set", "delete"}
           /\ mu.op = "free" => mu = Free
           /\ mu.op = "set" => /\ mu.key \in Keys /\ mu.entry \in Entry
                               /\ Contents(mu.before)
           /\ mu.op = "delete" => mu.toRemove \subseteq Keys /\ mu.count \in Nat
<1>1. CASE mu = Free
  BY <1>1 DEF Free
<1>2. CASE mu \in DeleteCall
  BY <1>2 DEF DeleteCall
<1>3. CASE mu \in SetCall(mu.before) /\ Contents(mu.before)
  BY <1>3 DEF SetCall
<1>4. QED
  BY <1>1, <1>2, <1>3 DEF MuType

\* removeElement in a state of the invariant.
LEMMA RemoveStep ==
    ASSUME IInv, NEW k \in DOMAIN items, removeElement(k), touched' = touched
    PROVE  /\ Agree(items', evictList', sizeBytes', touched')
           /\ Len(evictList') = Len(evictList) - 1
           /\ Len(evictList') <= Len(evictList)
           /\ DOMAIN items' = DOMAIN items \ {k}
           /\ EntriesBounded' /\ BytesBounded'
<1>1. /\ Agree(items, evictList, sizeBytes, touched)
      /\ evictList \in Seq(Keys) /\ sizeBytes \in Nat
  BY DEF IInv, TypeOK
<1>2. /\ Agree(Restrict(items, DOMAIN items \ {k}), Unlink(evictList, k),
               sizeBytes - items[k].size, touched)
      /\ Len(Unlink(evictList, k)) = Len(evictList) - 1
      /\ items[k].size \in 0 .. sizeBytes
  BY <1>1, RemoveAgrees
<1>3. sizeBytes' = sizeBytes - items[k].size /\ sizeBytes' <= sizeBytes /\ sizeBytes' \in Nat
  BY <1>1, <1>2 DEF removeElement
<1>4. Agree(items', evictList', sizeBytes', touched')
  BY <1>2, <1>3 DEF removeElement
<1>5. Len(evictList') = Len(evictList) - 1 /\ DOMAIN items' = DOMAIN items \ {k}
  BY <1>2 DEF removeElement, Restrict
<1>6. evictList' \in Seq(Keys)
  BY <1>4 DEF Agree
<1>7. Len(evictList) \in Nat /\ Len(evictList') \in Nat
  BY <1>1, <1>6, LenProperties
<1>8. EntriesBounded'
  <2>1. evictList # <<>>
    BY <1>5, <1>7
  <2>2. QED
    BY <2>1, <1>5, <1>7, LimitsAssumption DEF IInv, EntriesBounded
<1>9. BytesBounded'
  BY <1>1, <1>3, <1>5, <1>7, LimitsAssumption DEF IInv, BytesBounded
<1>10. QED
  <2>1. Len(evictList') <= Len(evictList)
    BY <1>5, <1>7
  <2>2. QED
    BY <2>1, <1>4, <1>5, <1>8, <1>9

\* The parts of TypeOK that Agree does not contain.
RestType ==
    /\ hits \in Nat /\ misses \in Nat /\ bypasses \in Nat
    /\ stores \in Nat /\ evictions \in Nat
    /\ MuType
    /\ ret \in [entry : Entry \cup {NoEntry}, count : Nat, bytes : Nat]
    /\ now \in Nat

IRest ==
    /\ RestType
    /\ \A k \in Keys : touched[k] <= hits + stores
    /\ StoresAccounted
    /\ CallInv

\* IInv without the redundancy between TypeOK and Agree.
LEMMA IInvParts ==
    IInv <=> /\ Agree(items, evictList, sizeBytes, touched)
             /\ EntriesBounded /\ BytesBounded
             /\ IRest
  BY DEF IInv, IRest, RestType, MuType, TypeOK, Agree

\* The same, one step later.
LEMMA IInvPartsNext ==
    ASSUME Agree(items', evictList', sizeBytes', touched'),
           EntriesBounded', BytesBounded', IRest'
    PROVE  IInv'
  BY DEF IInv, IRest, RestType, MuType, TypeOK, Agree

\* A new backend is empty.
LEMMA InitIInv == Init => IInv
<1> SUFFICES ASSUME Init PROVE IInv
  OBVIOUS
<1>1. Agree(items, evictList, sizeBytes, touched)
  <2> DEFINE p == [j \in 0 .. 0 |-> 0]
  <2>1. evictList = <<>> /\ Len(evictList) = 0 /\ sizeBytes = 0 /\ DOMAIN items = {}
    BY DEF Init
  <2>2. p \in [0 .. 0 -> 0 .. 0] /\ p[0] = 0
    OBVIOUS
  <2>3. Contents(items) /\ Range(evictList) = DOMAIN items /\ IsInjective(evictList)
    BY DEF Init, Contents, Range, IsInjective
  <2>4. touched \in [Keys -> Nat] /\ evictList \in Seq(Keys)
    BY DEF Init
  <2>5. \E q \in [0 .. 0 -> 0 .. 0] :
          /\ q[0] = 0 /\ q[0] = 0
          /\ \A i \in 1 .. 0 : q[i] = q[i-1] + items[evictList[i]].size
          /\ \A i, j \in 0 .. 0 : i <= j => q[i] <= q[j]
    <3>1. \A i \in 1 .. 0 : FALSE
      OBVIOUS
    <3>2. \A i, j \in 0 .. 0 : i <= j => p[i] <= p[j]
      OBVIOUS
    <3> HIDE DEF p
    <3>3. QED
      BY <3>1, <3>2, <2>2
  <2>6. QED
    BY <2>1, <2>3, <2>4, <2>5 DEF Agree
<1>2. EntriesBounded /\ BytesBounded
  BY DEF Init, EntriesBounded, BytesBounded
<1>3. IRest
  BY DEF Init, IRest, RestType, MuType, StoresAccounted, CallInv, Free, Answer
<1>4. QED
  BY <1>1, <1>2, <1>3, IInvParts

\* A return value without an entry has its type.
LEMMA AnswerType ==
    ASSUME NEW e \in Entry \cup {NoEntry}, NEW n \in Nat, NEW b \in Nat
    PROVE  Answer(e, n, b) \in [entry : Entry \cup {NoEntry}, count : Nat, bytes : Nat]
  BY DEF Answer

\* A step that leaves the contents alone keeps what is said about them.
LEMMA ContentsUnchanged ==
    ASSUME IInv, unchangedContents, touched' = touched
    PROVE  /\ Agree(items', evictList', sizeBytes', touched')
           /\ EntriesBounded' /\ BytesBounded'
           /\ Len(evictList') = Len(evictList) /\ DOMAIN items' = DOMAIN items
           /\ Len(evictList') <= Len(evictList)
<1>1. items' = items /\ evictList' = evictList /\ sizeBytes' = sizeBytes
  BY DEF unchangedContents
<1>2. QED
  <2>1. Len(evictList) \in Nat
    BY LenProperties DEF IInv, TypeOK
  <2>2. Len(evictList') <= Len(evictList)
    BY <1>1, <2>1
  <2>3. QED
    BY <1>1, <2>2, IInvParts DEF EntriesBounded, BytesBounded

\* What is left to show when a step uses no key and stores nothing.
LEMMA RestStep ==
    ASSUME IRest, evictList \in Seq(Keys), evictList' \in Seq(Keys),
           Len(evictList') <= Len(evictList), touched' = touched,
           hits' = hits, stores' = stores, evictions' = evictions,
           misses' \in Nat, bypasses' \in Nat, now' \in Nat,
           ret' \in [entry : Entry \cup {NoEntry}, count : Nat, bytes : Nat],
           MuType', CallInv'
    PROVE  IRest'
<1>1. Len(evictList) \in Nat /\ Len(evictList') \in Nat
  BY LenProperties
<1>2. StoresAccounted'
  BY <1>1 DEF IRest, RestType, StoresAccounted
<1>3. \A k \in Keys : touched'[k] <= hits' + stores'
  BY DEF IRest
<1>4. RestType'
  BY DEF IRest, RestType
<1>5. QED
  BY <1>2, <1>3, <1>4 DEF IRest

\* A lookup: a miss changes only a counter, an expired entry is removed, a hit
\* moves to the front.
LEMMA GetIInv ==
    ASSUME IInv, NEW k \in Keys, Get(k)
    PROVE  IInv'
<1>1. /\ IRest /\ Len(evictList) \in Nat /\ evictList \in Seq(Keys)
      /\ Agree(items, evictList, sizeBytes, touched)
  BY IInvParts, LenProperties DEF Agree
<1>2. UNCHANGED <<bypasses, stores, evictions, mu, now>> /\ mu = Free
  BY DEF Get, Enter
<1>3. MuType' /\ CallInv'
  BY <1>2 DEF MuType, CallInv, Free
<1>4. CASE GetAbsent(k)
  <2>1. /\ Agree(items', evictList', sizeBytes', touched')
        /\ EntriesBounded' /\ BytesBounded' /\ Len(evictList') = Len(evictList)
    BY <1>4, ContentsUnchanged DEF GetAbsent
  <2>2. IRest'
    <3>1. misses' \in Nat /\ bypasses' \in Nat /\ now' \in Nat
      BY <1>1, <1>2, <1>4 DEF GetAbsent, IRest, RestType
    <3>2. ret' \in [entry : Entry \cup {NoEntry}, count : Nat, bytes : Nat]
      BY <1>4, AnswerType DEF GetAbsent
    <3>3. evictList' \in Seq(Keys) /\ Len(evictList') <= Len(evictList)
      BY <1>1, <2>1 DEF Agree
    <3>4. QED
      BY <1>1, <1>2, <1>3, <1>4, <3>1, <3>2, <3>3, RestStep DEF GetAbsent
  <2>3. QED
    BY <2>1, <2>2, IInvPartsNext
<1>5. CASE GetExpired(k)
  <2>1. /\ Agree(items', evictList', sizeBytes', touched')
        /\ EntriesBounded' /\ BytesBounded' /\ Len(evictList') = Len(evictList) - 1
    BY <1>5, RemoveStep DEF GetExpired
  <2>2. IRest'
    <3>1. misses' \in Nat /\ bypasses' \in Nat /\ now' \in Nat
      BY <1>1, <1>2, <1>5 DEF GetExpired, IRest, RestType
    <3>2. ret' \in [entry : Entry \cup {NoEntry}, count : Nat, bytes : Nat]
      BY <1>5, AnswerType DEF GetExpired
    <3>3. evictList' \in Seq(Keys) /\ Len(evictList') <= Len(evictList)
      BY <1>1, <2>1 DEF Agree
    <3>4. QED
      BY <1>1, <1>2, <1>3, <1>5, <3>1, <3>2, <3>3, RestStep DEF GetExpired
  <2>3. QED
    BY <2>1, <2>2, IInvPartsNext
<1>6. CASE GetHit(k)
  <2> DEFINE jt == Restrict(items, DOMAIN items \ {k})
             r == Unlink(evictList, k)
             m == sizeBytes - items[k].size
             stamp == hits + stores + 1
             e == items[k]
  <2>1. k \in DOMAIN items /\ e \in Entry /\ stamp \in Nat /\ hits \in Nat /\ stores \in Nat
    BY <1>1, <1>6 DEF GetHit, Agree, Contents, IRest, RestType
  <2>2. Agree(jt, r, m, touched) /\ Len(r) = Len(evictList) - 1 /\ items[k].size \in 0 .. sizeBytes
    BY <1>1, <2>1, RemoveAgrees
  <2>3. DOMAIN jt = DOMAIN items \ {k} /\ \A x \in DOMAIN jt : jt[x] = items[x]
    BY DEF Restrict
  <2>4. k \in Keys \ DOMAIN jt
    BY <2>3
  <2>5. \A x \in DOMAIN jt : touched[x] < stamp
    BY <1>1, <2>1, <2>3 DEF Agree, Contents, IRest
  <2> DEFINE it2 == [x \in DOMAIN jt \cup {k} |-> IF x = k THEN e ELSE jt[x]]
  <2>6. items = it2
    BY <1>1, <2>1, <2>3 DEF Agree, Contents
  <2> HIDE DEF jt, r, stamp, e
  <2>7. /\ Agree(it2, <<k>> \o r, m + e.size, [touched EXCEPT ![k] = stamp])
        /\ Len(<<k>> \o r) = Len(r) + 1
    BY <2>1, <2>2, <2>4, <2>5, PushAgrees
  <2>8. m + e.size = sizeBytes
    BY <1>1, <2>2 DEF e, Agree
  <2>9. /\ evictList' = <<k>> \o r /\ touched' = [touched EXCEPT ![k] = stamp]
        /\ items' = items /\ sizeBytes' = sizeBytes
    BY <1>6 DEF GetHit, r, stamp
  <2>10. Agree(items', evictList', sizeBytes', touched')
    BY <2>6, <2>7, <2>8, <2>9
  <2>11. Len(evictList') = Len(evictList)
    BY <1>1, <2>2, <2>7, <2>9
  <2>12. EntriesBounded' /\ BytesBounded'
    <3>1. evictList # <<>>
      BY <1>1, <2>1 DEF Agree, Range
    <3>2. QED
      BY <3>1, <2>9, <2>11 DEF IInv, EntriesBounded, BytesBounded
  <2>13. \A x \in Keys : touched'[x] <= hits' + stores'
    <3>1. hits' = hits + 1 /\ stores' = stores /\ touched \in [Keys -> Nat]
      BY <1>1, <1>2, <1>6 DEF GetHit, Agree
    <3>2. QED
      BY <3>1, <2>1, <2>9, <1>1 DEF IRest, stamp
  <2>14. IRest'
    <3>1. ret' \in [entry : Entry \cup {NoEntry}, count : Nat, bytes : Nat]
      BY <1>6, <2>1, AnswerType DEF GetHit, e
    <3>2. QED
      BY <1>1, <1>2, <1>3, <1>6, <2>11, <2>13, <3>1
      DEF GetHit, IRest, RestType, StoresAccounted
  <2>15. QED
    BY <2>10, <2>12, <2>14, IInvPartsNext
<1>7. QED
  BY <1>4, <1>5, <1>6 DEF Get

\* Set takes the lock and unlinks the entry it replaces.
LEMMA SetBeginIInv ==
    ASSUME IInv, NEW k \in Keys, NEW e \in Entry, SetBegin(k, e)
    PROVE  IInv'
<1>1. /\ IRest /\ evictList \in Seq(Keys) /\ Contents(items)
      /\ Len(evictList) \in Nat
  BY IInvParts, LenProperties DEF Agree
<1>2. /\ UNCHANGED <<counters, ret, now, touched>>
      /\ mu' = [op |-> "set", key |-> k, entry |-> e, before |-> items]
      /\ IF k \in DOMAIN items THEN removeElement(k) ELSE unchangedContents
  BY DEF SetBegin
<1>3. /\ Agree(items', evictList', sizeBytes', touched')
      /\ EntriesBounded' /\ BytesBounded'
      /\ Len(evictList') <= Len(evictList)
      /\ DOMAIN items' = DOMAIN items \ {k}
  <2>0. touched' = touched
    BY <1>2
  <2>1. CASE k \in DOMAIN items
    BY <1>2, <2>0, <2>1, RemoveStep
  <2>2. CASE k \notin DOMAIN items
    <3>1. unchangedContents
      BY <1>2, <2>2
    <3>2. QED
      BY <2>0, <2>2, <3>1, ContentsUnchanged, DOMAIN items \ {k} = DOMAIN items
  <2>3. QED
    BY <2>1, <2>2
<1>4. MuType'
  BY <1>1, <1>2 DEF MuType, SetCall
<1>5. CallInv'
  BY <1>2, <1>3 DEF CallInv
<1>6. IRest'
  BY <1>1, <1>2, <1>3, <1>4, <1>5, RestStep DEF Agree, counters, IRest, RestType
<1>7. QED
  BY <1>3, <1>6, IInvPartsNext

\* One turn of the eviction loop removes the last element.
LEMMA SetEvictIInv ==
    ASSUME IInv, SetEvict
    PROVE  IInv'
<1>1. /\ IRest /\ evictList \in Seq(Keys) /\ Len(evictList) \in Nat
      /\ DOMAIN evictList = 1 .. Len(evictList)
      /\ Range(evictList) = DOMAIN items
  BY IInvParts, LenProperties DEF Agree
<1>2. /\ mu.op = "set" /\ evictOldest
      /\ UNCHANGED <<hits, misses, bypasses, stores, mu, ret, now, touched>>
  BY DEF SetEvict
<1>3. CASE evictList = <<>>
  <2>1. UNCHANGED <<items, evictList, sizeBytes, evictions>>
    BY <1>2, <1>3 DEF evictOldest
  <2>2. /\ Agree(items', evictList', sizeBytes', touched')
        /\ EntriesBounded' /\ BytesBounded'
    BY <1>2, <2>1, ContentsUnchanged DEF unchangedContents
  <2>3. MuType' /\ CallInv'
    BY <1>1, <1>2, <2>1 DEF MuType, CallInv, IRest, RestType
  <2>4. IRest'
    BY <1>1, <1>2, <2>1, <2>2, <2>3, RestStep DEF Agree, IRest, RestType
  <2>5. QED
    BY <2>2, <2>4, IInvPartsNext
<1>4. CASE evictList # <<>>
  <2> DEFINE k == evictList[Len(evictList)]
  <2>1. removeElement(k) /\ evictions' = evictions + 1
    BY <1>2, <1>4 DEF evictOldest
  <2>2. k \in DOMAIN items
    BY <1>1, <1>4 DEF Range
  <2> HIDE DEF k
  <2>3. /\ Agree(items', evictList', sizeBytes', touched')
        /\ EntriesBounded' /\ BytesBounded'
        /\ Len(evictList') = Len(evictList) - 1
        /\ DOMAIN items' = DOMAIN items \ {k}
    BY <1>2, <2>1, <2>2, RemoveStep
  <2>4. MuType' /\ CallInv'
    BY <1>1, <1>2, <2>3 DEF MuType, CallInv, IRest, RestType
  <2>5. StoresAccounted'
    BY <1>1, <1>2, <2>1, <2>3 DEF StoresAccounted, IRest, RestType
  <2>6. RestType' /\ \A x \in Keys : touched'[x] <= hits' + stores'
    BY <1>1, <1>2, <2>1, <2>4 DEF IRest, RestType
  <2>7. IRest'
    BY <2>4, <2>5, <2>6 DEF IRest
  <2>8. QED
    BY <2>3, <2>7, IInvPartsNext
<1>5. QED
  BY <1>3, <1>4

\* When the loop has ended there is room, and the entry goes to the front.
LEMMA SetEndIInv ==
    ASSUME IInv, SetEnd
    PROVE  IInv'
<1> DEFINE k == mu.key
           e == mu.entry
           stamp == hits + stores + 1
<1>1. /\ IRest /\ evictList \in Seq(Keys) /\ Len(evictList) \in Nat
      /\ Agree(items, evictList, sizeBytes, touched)
      /\ sizeBytes \in Nat /\ touched \in [Keys -> Nat]
      /\ hits \in Nat /\ stores \in Nat /\ evictions \in Nat
  BY IInvParts, LenProperties DEF Agree, IRest, RestType
<1>2. mu.op = "set" /\ ~NeedsRoom(e)
  BY DEF SetEnd
<1>3. k \in Keys \ DOMAIN items /\ e \in Entry
  BY <1>1, <1>2, MuCases DEF IRest, RestType, CallInv
<1>4. e.size \in Nat
  BY <1>3, SizesAssumption DEF Entry
<1>5. stamp \in Nat /\ \A x \in DOMAIN items : touched[x] < stamp
  BY <1>1 DEF Agree, Contents, IRest
<1>6. /\ evictList' = <<k>> \o evictList
      /\ items' = [x \in DOMAIN items \cup {k} |-> IF x = k THEN e ELSE items[x]]
      /\ sizeBytes' = sizeBytes + e.size
      /\ stores' = stores + 1
      /\ touched' = [touched EXCEPT ![k] = stamp]
      /\ mu' = Free
      /\ ret' = Answer(NoEntry, 0, 0)
      /\ UNCHANGED <<hits, misses, bypasses, evictions, now>>
  BY DEF SetEnd
<1> HIDE DEF k, e, stamp
<1>7. /\ Agree(items', evictList', sizeBytes', touched')
      /\ Len(evictList') = Len(evictList) + 1
  <2>1. /\ Agree([x \in DOMAIN items \cup {k} |-> IF x = k THEN e ELSE items[x]],
                 <<k>> \o evictList, sizeBytes + e.size, [touched EXCEPT ![k] = stamp])
        /\ Len(<<k>> \o evictList) = Len(evictList) + 1
    BY <1>1, <1>3, <1>5, PushAgrees
  <2>2. QED
    BY <2>1, <1>6
<1>8. EntriesBounded' /\ BytesBounded'
  <2>1. /\ Len(evictList) < MaxEntries
        /\ sizeBytes + e.size <= MaxBytes \/ Len(evictList) = 0
    BY <1>1, <1>2, <1>4, LimitsAssumption DEF NeedsRoom
  <2>2. QED
    BY <2>1, <1>1, <1>4, <1>6, <1>7, LimitsAssumption DEF EntriesBounded, BytesBounded
<1>9. MuType' /\ CallInv'
  BY <1>6 DEF MuType, CallInv, Free
<1>10. StoresAccounted'
  BY <1>1, <1>6, <1>7 DEF StoresAccounted, IRest
<1>11. \A x \in Keys : touched'[x] <= hits' + stores'
  BY <1>1, <1>3, <1>5, <1>6 DEF IRest, stamp
<1>12. RestType'
  <2>1. ret' \in [entry : Entry \cup {NoEntry}, count : Nat, bytes : Nat]
    BY <1>6, AnswerType
  <2>2. QED
    BY <2>1, <1>1, <1>6, <1>9 DEF IRest, RestType
<1>13. IRest'
  BY <1>9, <1>10, <1>11, <1>12 DEF IRest
<1>14. QED
  BY <1>7, <1>8, <1>13, IInvPartsNext

\* Delete removes one element, or nothing.
LEMMA DeleteIInv ==
    ASSUME IInv, NEW k \in Keys, Delete(k)
    PROVE  IInv'
<1>1. /\ IRest /\ evictList \in Seq(Keys) /\ Len(evictList) \in Nat
  BY IInvParts, LenProperties DEF Agree
<1>2. /\ mu = Free /\ UNCHANGED <<counters, mu, now, touched>>
      /\ ret' = Answer(NoEntry, IF k \in DOMAIN items THEN 1 ELSE 0, 0)
      /\ IF k \in DOMAIN items THEN removeElement(k) ELSE unchangedContents
  BY DEF Delete
<1>3. /\ Agree(items', evictList', sizeBytes', touched')
      /\ EntriesBounded' /\ BytesBounded'
      /\ Len(evictList') <= Len(evictList)
  <2>0. touched' = touched
    BY <1>2
  <2>1. CASE k \in DOMAIN items
    BY <1>2, <2>0, <2>1, RemoveStep
  <2>2. CASE k \notin DOMAIN items
    <3>1. unchangedContents
      BY <1>2, <2>2
    <3>2. QED
      BY <2>0, <2>2, <3>1, ContentsUnchanged, DOMAIN items \ {k} = DOMAIN items
  <2>3. QED
    BY <2>1, <2>2
<1>4. MuType' /\ CallInv'
  BY <1>2 DEF MuType, CallInv, Free
<1>5. ret' \in [entry : Entry \cup {NoEntry}, count : Nat, bytes : Nat]
  BY <1>2, AnswerType
<1>6. IRest'
  BY <1>1, <1>2, <1>3, <1>4, <1>5, RestStep DEF Agree, counters, IRest, RestType
<1>7. QED
  BY <1>3, <1>6, IInvPartsNext

\* DeleteByPrefix and DeleteByPath collect the keys to remove.
LEMMA DeleteBeginIInv ==
    ASSUME IInv, NEW S \in SUBSET Keys, DeleteBegin(S)
    PROVE  IInv'
<1>1. /\ IRest /\ evictList \in Seq(Keys) /\ Len(evictList) \in Nat
  BY IInvParts, LenProperties DEF Agree
<1>2. /\ unchangedContents /\ UNCHANGED <<counters, ret, now, touched>>
      /\ mu' = [op |-> "delete", toRemove |-> S \cap DOMAIN items, count |-> 0]
  BY DEF DeleteBegin
<1>3. /\ Agree(items', evictList', sizeBytes', touched')
      /\ EntriesBounded' /\ BytesBounded'
      /\ Len(evictList') <= Len(evictList) /\ DOMAIN items' = DOMAIN items
  BY <1>1, <1>2, ContentsUnchanged
<1>4. MuType' /\ CallInv'
  BY <1>2, <1>3 DEF MuType, CallInv, DeleteCall
<1>5. IRest'
  BY <1>1, <1>2, <1>3, <1>4, RestStep DEF Agree, counters, IRest, RestType
<1>6. QED
  BY <1>3, <1>5, IInvPartsNext

\* One turn of the loop that removes the collected keys.
LEMMA DeleteStepIInv ==
    ASSUME IInv, DeleteStep
    PROVE  IInv'
<1>1. /\ IRest /\ evictList \in Seq(Keys) /\ Len(evictList) \in Nat
  BY IInvParts, LenProperties DEF Agree
<1>2. PICK k \in mu.toRemove :
        /\ removeElement(k)
        /\ mu' = [op |-> "delete", toRemove |-> mu.toRemove \ {k}, count |-> mu.count + 1]
        /\ UNCHANGED <<counters, ret, now, touched>>
        /\ mu.op = "delete"
  BY DEF DeleteStep
<1>3. mu.toRemove \subseteq DOMAIN items /\ mu.toRemove \subseteq Keys /\ mu.count \in Nat
  BY <1>1, <1>2, MuCases DEF IRest, RestType, CallInv
<1>4. /\ Agree(items', evictList', sizeBytes', touched')
      /\ EntriesBounded' /\ BytesBounded'
      /\ Len(evictList') <= Len(evictList) /\ DOMAIN items' = DOMAIN items \ {k}
  <2>1. touched' = touched /\ k \in DOMAIN items /\ removeElement(k)
    BY <1>2, <1>3
  <2>2. QED
    BY <2>1, RemoveStep
<1>5. MuType' /\ CallInv'
  BY <1>2, <1>3, <1>4 DEF MuType, CallInv, DeleteCall
<1>6. IRest'
  BY <1>1, <1>2, <1>4, <1>5, RestStep DEF Agree, counters, IRest, RestType
<1>7. QED
  BY <1>4, <1>6, IInvPartsNext

\* The steps that leave the contents alone and end with the lock free, or as
\* it was.
LEMMA QuietIInv ==
    ASSUME IInv, DeleteEnd \/ Stats \/ IncrementBypasses \/ Tick \/ UNCHANGED vars
    PROVE  IInv'
<1>1. /\ IRest /\ evictList \in Seq(Keys) /\ Len(evictList) \in Nat
      /\ sizeBytes \in Nat /\ now \in Nat /\ MuType /\ CallInv
  BY IInvParts, LenProperties DEF Agree, IRest, RestType
<1>2. unchangedContents /\ touched' = touched /\ UNCHANGED <<hits, misses, stores, evictions>>
  BY DEF DeleteEnd, Stats, IncrementBypasses, Tick, vars, counters, unchangedContents
<1>3. /\ Agree(items', evictList', sizeBytes', touched')
      /\ EntriesBounded' /\ BytesBounded'
      /\ Len(evictList') <= Len(evictList) /\ DOMAIN items' = DOMAIN items
  BY <1>1, <1>2, ContentsUnchanged
<1>4. mu' = mu \/ mu' = Free
  BY DEF DeleteEnd, Stats, IncrementBypasses, Tick, vars
<1>5. MuType' /\ CallInv'
  BY <1>1, <1>3, <1>4 DEF MuType, CallInv, Free
<1>6. ret' \in [entry : Entry \cup {NoEntry}, count : Nat, bytes : Nat]
  <2>1. CASE DeleteEnd
    BY <2>1, <1>1, MuCases, AnswerType DEF DeleteEnd
  <2>2. CASE Stats
    BY <2>2, <1>1, AnswerType DEF Stats
  <2>3. CASE IncrementBypasses \/ Tick \/ UNCHANGED vars
    BY <2>3, <1>1 DEF IncrementBypasses, Tick, vars, IRest, RestType
  <2>4. QED
    BY <2>1, <2>2, <2>3
<1>7. bypasses' \in Nat /\ now' \in Nat
  BY <1>1 DEF DeleteEnd, Stats, IncrementBypasses, Tick, vars, counters, IRest, RestType
<1>8. IRest'
  BY <1>1, <1>2, <1>3, <1>5, <1>6, <1>7, RestStep DEF Agree, IRest, RestType
<1>9. QED
  BY <1>3, <1>8, IInvPartsNext

\* Purge empties map, list and byte count together.
LEMMA PurgeIInv ==
    ASSUME IInv, Purge
    PROVE  IInv'
<1>1. /\ IRest /\ evictList \in Seq(Keys) /\ Len(evictList) \in Nat
      /\ touched \in [Keys -> Nat]
  BY IInvParts, LenProperties DEF Agree
<1>2. /\ evictList' = <<>> /\ Len(evictList') = 0 /\ sizeBytes' = 0
      /\ items' = [k \in {} |-> NoEntry] /\ DOMAIN items' = {}
      /\ mu = Free /\ UNCHANGED <<counters, mu, now, touched>>
      /\ ret' = Answer(NoEntry, Len(evictList), 0)
  BY DEF Purge
<1>3. Agree(items', evictList', sizeBytes', touched')
  <2> DEFINE p == [j \in 0 .. 0 |-> 0]
  <2>1. p \in [0 .. 0 -> 0 .. 0] /\ p[0] = 0
    OBVIOUS
  <2>2. Contents(items') /\ Range(evictList') = DOMAIN items' /\ IsInjective(evictList')
    BY <1>2 DEF Contents, Range, IsInjective
  <2>3. \E q \in [0 .. 0 -> 0 .. 0] :
          /\ q[0] = 0 /\ q[0] = 0
          /\ \A i \in 1 .. 0 : q[i] = q[i-1] + items'[evictList'[i]].size
          /\ \A i, j \in 0 .. 0 : i <= j => q[i] <= q[j]
    <3>1. \A i \in 1 .. 0 : FALSE
      OBVIOUS
    <3>2. \A i, j \in 0 .. 0 : i <= j => p[i] <= p[j]
      OBVIOUS
    <3> HIDE DEF p
    <3>3. QED
      BY <3>1, <3>2, <2>1
  <2>4. evictList' \in Seq(Keys)
    BY <1>2
  <2>5. QED
    BY <1>1, <1>2, <2>2, <2>3, <2>4 DEF Agree
<1>4. EntriesBounded' /\ BytesBounded'
  BY <1>2 DEF EntriesBounded, BytesBounded
<1>5. MuType' /\ CallInv'
  BY <1>2 DEF MuType, CallInv, Free
<1>6. ret' \in [entry : Entry \cup {NoEntry}, count : Nat, bytes : Nat]
  BY <1>1, <1>2, AnswerType
<1>7. IRest'
  BY <1>1, <1>2, <1>3, <1>5, <1>6, RestStep DEF Agree, counters, IRest, RestType
<1>8. QED
  BY <1>3, <1>4, <1>7, IInvPartsNext

\* Every step preserves the invariant.
LEMMA NextIInv == IInv /\ [Next]_vars => IInv'
<1> SUFFICES ASSUME IInv, [Next]_vars PROVE IInv'
  OBVIOUS
<1>1. ASSUME NEW k \in Keys, Get(k) PROVE IInv'
  BY <1>1, GetIInv
<1>2. ASSUME NEW k \in Keys, Delete(k) PROVE IInv'
  BY <1>2, DeleteIInv
<1>3. ASSUME NEW k \in Keys, NEW s \in Sizes, NEW t \in TTLs, NEW at \in 0 .. now,
             SetBegin(k, [size |-> s, ttl |-> t, storedAt |-> at])
      PROVE  IInv'
  <2> DEFINE e == [size |-> s, ttl |-> t, storedAt |-> at]
  <2>1. e \in Entry
    BY DEF IInv, TypeOK, Entry
  <2> HIDE DEF e
  <2>2. SetBegin(k, e)
    BY <1>3 DEF e
  <2>3. QED
    BY <2>1, <2>2, SetBeginIInv
<1>4. ASSUME NEW p \in PathPrefixes, DeleteByPrefix(p) PROVE IInv'
  BY <1>4, DeleteBeginIInv DEF DeleteByPrefix
<1>5. ASSUME NEW p \in Paths, DeleteByPath(p) PROVE IInv'
  BY <1>5, DeleteBeginIInv DEF DeleteByPath
<1>6. CASE Purge
  BY <1>6, PurgeIInv
<1>7. CASE DeleteEnd \/ Stats \/ IncrementBypasses \/ Tick \/ UNCHANGED vars
  BY <1>7, QuietIInv
<1>8. CASE SetEvict
  BY <1>8, SetEvictIInv
<1>9. CASE SetEnd
  BY <1>9, SetEndIInv
<1>10. CASE DeleteStep
  BY <1>10, DeleteStepIInv
<1>11. QED
  BY <1>1, <1>2, <1>3, <1>4, <1>5, <1>6, <1>7, <1>8, <1>9, <1>10
  DEF Next, Call, Loop

\* IInv holds in every reachable state, for every Keys, Sizes and limits.
THEOREM Inductive == Spec => []IInv
  BY InitIInv, NextIInv, PTL DEF Spec

-----------------------------------------------------------------------------
(* What follows.                                                           *)

\* Every variable keeps its type; in particular no call is ever made on an
\* entry that is not there.
THEOREM TypeCorrect == Spec => []TypeOK
<1>1. IInv => TypeOK
  BY DEF IInv
<1>2. QED
  BY <1>1, Inductive, PTL

\* The map and the list never disagree, not even inside an eviction or a
\* deletion loop.
THEOREM ListAndMapAgree == Spec => []ListMatchesMap
<1>1. IInv => ListMatchesMap
  BY DEF IInv, Agree, ListMatchesMap
<1>2. QED
  BY <1>1, Inductive, PTL

\* sizeBytes is always the sum of the sizes of the entries held; the clamp in
\* removeElement never fires.
THEOREM SizeIsAccounted == Spec => []SizeAccounted
<1>1. IInv => SizeAccounted
  BY DEF IInv, Agree, SizeAccounted
<1>2. QED
  BY <1>1, Inductive, PTL

\* Neither limit is exceeded, but for one entry that alone is larger than
\* max_bytes.
THEOREM CacheIsBounded == Spec => [](EntriesBounded /\ BytesBounded)
<1>1. IInv => EntriesBounded /\ BytesBounded
  BY DEF IInv
<1>2. QED
  BY <1>1, Inductive, PTL

(* max_bytes is exceeded only by an entry that is alone: the loop of Set   *)
(* has evicted everything else for it.                                     *)
THEOREM BytesAreBounded == Spec => []BytesBounded
  BY CacheIsBounded, PTL

\* The list is in order of last use, and the counters add up.
THEOREM RecencyAndCounters == Spec => [](LRUOrder /\ StoresAccounted)
<1>1. IInv => LRUOrder /\ StoresAccounted
  BY DEF IInv, Agree, LRUOrder
<1>2. QED
  BY <1>1, Inductive, PTL

\* Only a Set without room evicts, and it evicts the least recently used.
THEOREM EvictionIsLRU == Spec => EvictsOldest
<1> DEFINE A == evictions' # evictions =>
        /\ evictions' = evictions + 1
        /\ mu.op = "set"
        /\ \E k \in DOMAIN items :
              /\ DOMAIN items' = DOMAIN items \ {k}
              /\ \A x \in DOMAIN items \ {k} : touched[k] < touched[x]
<1>1. IInv /\ [Next]_vars => [A]_vars
  <2> SUFFICES ASSUME IInv, Next, evictions' # evictions PROVE A
    OBVIOUS
  <2>1. SetEvict
    BY DEF Next, Call, Loop, Get, GetAbsent, GetExpired, GetHit, Delete, SetBegin,
           DeleteByPrefix, DeleteByPath, DeleteBegin, Purge, Stats, IncrementBypasses,
           SetEnd, DeleteStep, DeleteEnd, Tick, counters
  <2>2. /\ evictList \in Seq(Keys) /\ Len(evictList) \in Nat
        /\ DOMAIN evictList = 1 .. Len(evictList)
        /\ Range(evictList) = DOMAIN items
        /\ \A i, j \in 1 .. Len(evictList) : i < j => touched[evictList[j]] < touched[evictList[i]]
    BY LenProperties DEF IInv, Agree
  <2>3. evictList # <<>>
    BY <2>1 DEF SetEvict, evictOldest
  <2> DEFINE k == evictList[Len(evictList)]
  <2>4. removeElement(k) /\ evictions' = evictions + 1 /\ mu.op = "set"
    BY <2>1, <2>3 DEF SetEvict, evictOldest
  <2>5. Len(evictList) \in 1 .. Len(evictList)
    BY <2>2, <2>3
  <2>6. k \in DOMAIN items
    BY <2>2, <2>5 DEF Range
  <2>7. DOMAIN items' = DOMAIN items \ {k}
    BY <2>4 DEF removeElement, Restrict
  <2>8. ASSUME NEW x \in DOMAIN items \ {k} PROVE touched[k] < touched[x]
    <3>1. PICK i \in 1 .. Len(evictList) : evictList[i] = x
      BY <2>2 DEF Range
    <3>2. i # Len(evictList)
      BY <3>1
    <3>3. i < Len(evictList)
      <4>1. Len(evictList) \in Nat
        BY <2>2
      <4>2. QED
        BY <4>1, <3>2
    <3>4. QED
      BY <3>1, <3>3, <2>2, <2>5
  <2> HIDE DEF k
  <2>9. QED
    BY <2>4, <2>6, <2>7, <2>8
<1>2. QED
  BY <1>1, Inductive, PTL DEF Spec, EvictsOldest

-----------------------------------------------------------------------------
(* Sums over finite sets, for the refinement.                              *)

\* A set of natural numbers has a least element.
LEMMA Least ==
    ASSUME NEW T, T \subseteq Nat, T # {}
    PROVE  \E x \in T : \A y \in T : x <= y
<1> DEFINE R == OpToRel(<, Nat)
<1>1. IsWellFoundedOn(R, Nat)
  BY NatLessThanWellFounded
<1>2. R = {pair \in Nat \X Nat : pair[1] < pair[2]}
  BY DEF OpToRel
<1> HIDE DEF R
<1>3. PICK x \in T : \A y \in T : ~(<<y, x>> \in R)
  BY <1>1, WFMin, Zenon
<1>4. ASSUME NEW y \in T PROVE x <= y
  <2>1. x \in Nat /\ y \in Nat
    OBVIOUS
  <2>2. ~(y < x)
    BY <1>2, <1>3, <2>1
  <2>3. QED
    BY <2>1, <2>2
<1>5. QED
  BY <1>4

\* Induction over the natural numbers, for a set.
LEMMA SetInduction ==
    ASSUME NEW T, T \subseteq Nat, 0 \in T, \A n \in T : n + 1 \in T
    PROVE  T = Nat
<1> SUFFICES ASSUME Nat \ T # {} PROVE FALSE
  OBVIOUS
<1>1. PICK x \in Nat \ T : \A y \in Nat \ T : x <= y
  BY Least
<1>2. x # 0 /\ x - 1 \in Nat /\ x - 1 \in T
  BY <1>1
<1>3. QED
  BY <1>2

\* g is the sum of f over the subsets of S, whichever element comes first.
Additive(f, S, g) ==
    /\ \A x \in S : f[x] \in Nat
    /\ g \in [SUBSET S -> Nat]
    /\ g[{}] = 0
    /\ \A T \in SUBSET S : \A x \in T : g[T] = f[x] + g[T \ {x}]

\* One more element.
LEMMA AdditiveExtends ==
    ASSUME NEW f, NEW S, NEW x, x \notin S, f[x] \in Nat, NEW g, Additive(f, S, g)
    PROVE  \E h : Additive(f, S \cup {x}, h)
<1> DEFINE U == S \cup {x}
           h == [T \in SUBSET U |-> IF x \in T THEN f[x] + g[T \ {x}] ELSE g[T]]
<1>0. /\ g \in [SUBSET S -> Nat] /\ g[{}] = 0 /\ \A y \in U : f[y] \in Nat
      /\ \A T \in SUBSET S : \A y \in T : g[T] = f[y] + g[T \ {y}]
  BY DEF Additive
<1>1. \A T \in SUBSET U : T \ {x} \in SUBSET S /\ (x \notin T => T \in SUBSET S)
  OBVIOUS
<1>2. h \in [SUBSET U -> Nat]
  <2>1. ASSUME NEW T \in SUBSET U PROVE (IF x \in T THEN f[x] + g[T \ {x}] ELSE g[T]) \in Nat
    <3>1. CASE x \in T
      <4>1. g[T \ {x}] \in Nat
        BY <1>0, <1>1
      <4>2. QED
        BY <3>1, <4>1
    <3>2. CASE x \notin T
      BY <1>0, <1>1, <3>2
    <3>3. QED
      BY <3>1, <3>2
  <2>2. QED
    BY <2>1
<1>3. h[{}] = 0
  BY <1>0
<1>4. ASSUME NEW T \in SUBSET U, NEW y \in T PROVE h[T] = f[y] + h[T \ {y}]
  <2>1. T \ {y} \in SUBSET U
    OBVIOUS
  <2>2. CASE x \notin T
    <3>1. T \in SUBSET S /\ h[T] = g[T] /\ h[T \ {y}] = g[T \ {y}]
      BY <1>1, <2>1, <2>2
    <3>2. QED
      BY <1>0, <3>1
  <2>3. CASE y = x
    <3>1. h[T] = f[x] + g[T \ {x}] /\ h[T \ {x}] = g[T \ {x}]
      BY <2>1, <2>3
    <3>2. QED
      BY <2>3, <3>1
  <2>4. CASE x \in T /\ y # x
    <3> DEFINE V == T \ {x}
               W == V \ {y}
    <3>1. (T \ {y}) \ {x} = W /\ V \in SUBSET S /\ W \in SUBSET S /\ y \in V /\ x \in T \ {y}
      BY <2>4
    <3>2. h[T] = f[x] + g[V] /\ h[T \ {y}] = f[x] + g[(T \ {y}) \ {x}]
      BY <2>1, <2>4
    <3>3. h[T \ {y}] = f[x] + g[W]
      BY <3>1, <3>2
    <3>4. g[V] = f[y] + g[W] /\ g[V] \in Nat /\ g[W] \in Nat
      BY <1>0, <3>1
    <3>5. f[y] \in Nat
      BY <1>0
    <3> HIDE DEF h, V, W
    <3>6. QED
      BY <3>2, <3>3, <3>4, <3>5
  <2>5. QED
    BY <2>2, <2>3, <2>4
<1>5. Additive(f, U, h)
  <2> HIDE DEF h
  <2>1. QED
    BY <1>0, <1>2, <1>3, <1>4 DEF Additive
<1>6. QED
  BY <1>5

\* One element less.
LEMMA OneLess ==
    ASSUME NEW T, IsFiniteSet(T), NEW n \in Nat, Cardinality(T) = n + 1, NEW x \in T
    PROVE  IsFiniteSet(T \ {x}) /\ Cardinality(T \ {x}) = n
<1>1. IsFiniteSet(T \ {x}) /\ Cardinality(T \ {x}) = IF x \in T THEN Cardinality(T) - 1 ELSE Cardinality(T)
  BY FS_RemoveElement, Zenon
<1>2. QED
  BY <1>1

\* There is such a sum over every finite set.
LEMMA AdditiveExists ==
    ASSUME NEW S, IsFiniteSet(S), NEW f, \A x \in S : f[x] \in Nat
    PROVE  \E g : Additive(f, S, g)
<1> DEFINE N == {n \in Nat : \A T \in SUBSET S : Cardinality(T) = n => \E g : Additive(f, T, g)}
<1>1. 0 \in N
  <2>1. ASSUME NEW T \in SUBSET S, Cardinality(T) = 0 PROVE \E g : Additive(f, T, g)
    <3>1. T = {}
      BY <2>1, FS_Subset, FS_EmptySet
    <3>2. Additive(f, {}, [t \in SUBSET {} |-> 0])
      BY DEF Additive
    <3>3. QED
      BY <3>1, <3>2
  <2>2. QED
    BY <2>1
<1>2. ASSUME NEW n \in N PROVE n + 1 \in N
  <2>1. n \in Nat /\ \A T \in SUBSET S : Cardinality(T) = n => \E g : Additive(f, T, g)
    OBVIOUS
  <2>2. ASSUME NEW T \in SUBSET S, Cardinality(T) = n + 1 PROVE \E g : Additive(f, T, g)
    <3>1. IsFiniteSet(T) /\ T # {}
      BY <2>1, <2>2, FS_Subset, FS_EmptySet
    <3>2. PICK x \in T : TRUE
      BY <3>1
    <3> DEFINE V == T \ {x}
    <3>3. IsFiniteSet(V) /\ Cardinality(V) = n /\ V \in SUBSET S
      BY <2>1, <2>2, <3>1, OneLess
    <3>4. PICK g : Additive(f, V, g)
      BY <2>1, <3>3
    <3>5. x \notin V /\ V \cup {x} = T /\ f[x] \in Nat
      OBVIOUS
    <3> HIDE DEF V
    <3>6. QED
      BY <3>4, <3>5, AdditiveExtends
  <2>3. QED
    BY <2>1, <2>2
<1>3. N = Nat
  <2>1. N \subseteq Nat
    OBVIOUS
  <2> HIDE DEF N
  <2>2. QED
    BY <1>1, <1>2, <2>1, SetInduction
<1>4. Cardinality(S) \in N /\ S \in SUBSET S
  BY <1>3, FS_CardinalityType
<1>5. QED
  BY <1>4

\* A fold that takes the elements in some order computes it.
LEMMA FoldIsAdditive ==
    ASSUME NEW S, IsFiniteSet(S), NEW f, NEW g, Additive(f, S, g)
    PROVE  SumFunctionOnSet(f, S) = g[S]
<1> DEFINE body(h) == [s \in SUBSET S |->
                         IF s = {} THEN 0
                         ELSE f[CHOOSE x \in s : TRUE] + h[s \ {CHOOSE x \in s : TRUE}]]
           iter == CHOOSE h : h = body(h)
<1>1. SumFunctionOnSet(f, S) = iter[S]
  BY DEF SumFunctionOnSet, FoldFunctionOnSet, MapThenFoldSet
<1>2. /\ g \in [SUBSET S -> Nat] /\ g[{}] = 0
      /\ \A T \in SUBSET S : \A x \in T : g[T] = f[x] + g[T \ {x}]
  BY DEF Additive
<1>3. g = body(g)
  <2>1. ASSUME NEW s \in SUBSET S PROVE g[s] = body(g)[s]
    <3>1. CASE s = {}
      BY <1>2, <3>1
    <3>2. CASE s # {}
      <4> DEFINE x == CHOOSE x \in s : TRUE
      <4>1. x \in s
        BY <3>2
      <4>2. body(g)[s] = f[x] + g[s \ {x}]
        BY <3>2
      <4> HIDE DEF x
      <4>3. QED
        BY <1>2, <4>1, <4>2
    <3>3. QED
      BY <3>1, <3>2
  <2>2. QED
    BY <1>2, <2>1
<1>4. iter = body(iter)
  BY <1>3
<1> HIDE DEF iter
<1> DEFINE N == {n \in Nat : \A T \in SUBSET S : Cardinality(T) = n => iter[T] = g[T]}
<1>5. 0 \in N
  <2>1. ASSUME NEW T \in SUBSET S, Cardinality(T) = 0 PROVE iter[T] = g[T]
    <3>1. T = {}
      BY <2>1, FS_Subset, FS_EmptySet
    <3>2. iter[{}] = 0
      BY <1>4
    <3>3. QED
      BY <1>2, <3>1, <3>2
  <2>2. QED
    BY <2>1
<1>6. ASSUME NEW n \in N PROVE n + 1 \in N
  <2>1. n \in Nat /\ \A T \in SUBSET S : Cardinality(T) = n => iter[T] = g[T]
    OBVIOUS
  <2>2. ASSUME NEW T \in SUBSET S, Cardinality(T) = n + 1 PROVE iter[T] = g[T]
    <3>1. IsFiniteSet(T) /\ T # {}
      BY <2>1, <2>2, FS_Subset, FS_EmptySet
    <3> DEFINE x == CHOOSE x \in T : TRUE
    <3>2. x \in T /\ iter[T] = f[x] + iter[T \ {x}]
      BY <1>4, <3>1
    <3> HIDE DEF x
    <3>3. Cardinality(T \ {x}) = n /\ T \ {x} \in SUBSET S
      BY <2>1, <2>2, <3>1, <3>2, OneLess
    <3>4. iter[T \ {x}] = g[T \ {x}]
      BY <2>1, <3>3
    <3>5. QED
      BY <1>2, <3>2, <3>4
  <2>3. QED
    BY <2>1, <2>2
<1>7. N = Nat
  <2>1. N \subseteq Nat
    OBVIOUS
  <2> HIDE DEF N
  <2>2. QED
    BY <1>5, <1>6, <2>1, SetInduction
<1>8. Cardinality(S) \in N /\ S \in SUBSET S
  BY <1>7, FS_CardinalityType
<1>9. QED
  BY <1>1, <1>8

\* A sum depends on the values on its set only, ...
LEMMA SumSame ==
    ASSUME NEW S, IsFiniteSet(S), NEW f, \A x \in S : f[x] \in Nat,
           NEW h, \A x \in S : h[x] = f[x]
    PROVE  SumFunctionOnSet(h, S) = SumFunctionOnSet(f, S)
<1>1. PICK g : Additive(f, S, g)
  BY AdditiveExists
<1>2. Additive(h, S, g)
  BY <1>1 DEF Additive
<1>3. QED
  BY <1>1, <1>2, FoldIsAdditive

\* ... it is a natural number, 0 over no element, ...
LEMMA SumType ==
    ASSUME NEW S, IsFiniteSet(S), NEW f, \A x \in S : f[x] \in Nat
    PROVE  SumFunctionOnSet(f, S) \in Nat /\ (S = {} => SumFunctionOnSet(f, S) = 0)
<1>1. PICK g : Additive(f, S, g)
  BY AdditiveExists
<1>2. SumFunctionOnSet(f, S) = g[S]
  BY <1>1, FoldIsAdditive
<1>3. QED
  BY <1>1, <1>2 DEF Additive

\* ... and grows with an element by its value.
LEMMA SumAdd ==
    ASSUME NEW S, IsFiniteSet(S), NEW x, x \notin S, NEW f, \A y \in S \cup {x} : f[y] \in Nat
    PROVE  SumFunctionOnSet(f, S \cup {x}) = f[x] + SumFunctionOnSet(f, S)
<1> DEFINE U == S \cup {x}
<1>1. IsFiniteSet(U)
  BY FS_AddElement
<1>2. PICK g : Additive(f, U, g)
  BY <1>1, AdditiveExists
<1>3. Additive(f, S, [T \in SUBSET S |-> g[T]])
  <2>1. \A T \in SUBSET S : T \in SUBSET U /\ \A y \in T : T \ {y} \in SUBSET S
    OBVIOUS
  <2>2. QED
    BY <1>2, <2>1 DEF Additive
<1>4. SumFunctionOnSet(f, U) = g[U] /\ SumFunctionOnSet(f, S) = [T \in SUBSET S |-> g[T]][S]
  BY <1>1, <1>2, <1>3, FoldIsAdditive
<1>5. g[U] = f[x] + g[U \ {x}] /\ U \ {x} = S
  BY <1>2 DEF Additive
<1>6. QED
  BY <1>4, <1>5

-----------------------------------------------------------------------------
(* The refinement: what else holds inside a Set, and the size of the list. *)

(***************************************************************************)
(* Until it inserts, a Set has only taken entries out of what its caller   *)
(* found; and if it evicted any, the last one did not fit beside the rest. *)
(***************************************************************************)
SetInv ==
    mu.op = "set" =>
      LET others == DOMAIN mu.before \ {mu.key}
      IN /\ DOMAIN items \subseteq others
         /\ \A x \in DOMAIN items : items[x] = mu.before[x]
         /\ mu.entry.storedAt <= now
         /\ DOMAIN items # others =>
               \E d \in others \ DOMAIN items :
                  \/ Len(evictList) + 1 >= MaxEntries
                  \/ sizeBytes + mu.before[d].size + mu.entry.size > MaxBytes

\* The list has an element for every entry, and sizeBytes is their sum.
LEMMA ListCounts ==
    ASSUME NEW it, NEW s, NEW total, NEW t, Agree(it, s, total, t)
    PROVE  /\ IsFiniteSet(DOMAIN it) /\ Cardinality(DOMAIN it) = Len(s)
           /\ SumFunctionOnSet([k \in DOMAIN it |-> it[k].size], DOMAIN it) = total
<1> DEFINE f == [k \in DOMAIN it |-> it[k].size]
           L == Len(s)
           Upto(n) == {s[j] : j \in 1 .. n}
           N == {n \in Nat : n <= L => /\ IsFiniteSet(Upto(n)) /\ Cardinality(Upto(n)) = n}
<1>1. /\ s \in Seq(Keys) /\ L \in Nat /\ DOMAIN s = 1 .. L
      /\ Range(s) = DOMAIN it /\ IsInjective(s) /\ Contents(it)
  BY LenProperties DEF Agree
<1>2. PICK p :
          /\ p[0] = 0 /\ p[L] = total
          /\ \A i \in 1 .. L : p[i] = p[i-1] + it[s[i]].size
          /\ \A i \in 0 .. L : p[i] \in Int
  <2>1. total \in Nat
    BY DEF Agree
  <2>2. PICK p \in [0 .. L -> 0 .. total] :
          /\ p[0] = 0 /\ p[L] = total
          /\ \A i \in 1 .. L : p[i] = p[i-1] + it[s[i]].size
    BY Zenon DEF Agree
  <2>3. \A i \in 0 .. L : p[i] \in Int
    BY <2>1, <2>2
  <2>4. QED
    BY <2>2, <2>3
<1>3. \A j \in 1 .. L : s[j] \in DOMAIN it
  BY <1>1 DEF Range
<1>4. \A i, j \in 1 .. L : s[i] = s[j] => i = j
  BY <1>1 DEF IsInjective
<1>5. \A k \in DOMAIN it : f[k] \in Nat /\ f[k] = it[k].size
  BY <1>1, SizesAssumption DEF Contents, Entry
<1> HIDE DEF f, L
<1>6. Upto(L) = DOMAIN it
  BY <1>1 DEF Range
<1>7. ASSUME NEW n \in Nat, n + 1 <= L
      PROVE  /\ Upto(n + 1) = Upto(n) \cup {s[n + 1]} /\ s[n + 1] \notin Upto(n)
             /\ Upto(n + 1) \subseteq DOMAIN it
  <2>1. 1 .. n + 1 = (1 .. n) \cup {n + 1} /\ 1 .. n + 1 \subseteq 1 .. L
    BY <1>1, <1>7
  <2>2. Upto(n + 1) = Upto(n) \cup {s[n + 1]}
    BY <2>1
  <2>3. ASSUME NEW j \in 1 .. n PROVE s[j] # s[n + 1]
    BY <1>1, <1>4, <1>7
  <2>4. Upto(n + 1) \subseteq DOMAIN it
    BY <1>3, <2>1
  <2>5. QED
    BY <2>2, <2>3, <2>4
<1>8. Upto(0) = {}
  OBVIOUS
<1> HIDE DEF Upto
<1>9. N = Nat
  <2>1. 0 \in N
    BY <1>8, FS_EmptySet
  <2>2. ASSUME NEW n \in N PROVE n + 1 \in N
    <3>1. n \in Nat /\ (n <= L => IsFiniteSet(Upto(n)) /\ Cardinality(Upto(n)) = n)
      OBVIOUS
    <3>2. ASSUME n + 1 <= L PROVE IsFiniteSet(Upto(n + 1)) /\ Cardinality(Upto(n + 1)) = n + 1
      <4>1. n <= L
        BY <1>1, <3>1, <3>2
      <4>2. Upto(n + 1) = Upto(n) \cup {s[n + 1]} /\ s[n + 1] \notin Upto(n)
        BY <1>7, <3>1, <3>2
      <4>3. QED
        BY <3>1, <4>1, <4>2, FS_AddElement
    <3>3. QED
      BY <3>1, <3>2
  <2>3. N \subseteq Nat
    OBVIOUS
  <2> HIDE DEF N
  <2>4. QED
    BY <2>1, <2>2, <2>3, SetInduction
<1>10. IsFiniteSet(DOMAIN it) /\ Cardinality(DOMAIN it) = L
  BY <1>1, <1>6, <1>9
<1> DEFINE M == {n \in Nat : n <= L => SumFunctionOnSet(f, Upto(n)) = p[n]}
<1>11. M = Nat
  <2>1. 0 \in M
    <3>1. IsFiniteSet(Upto(0)) /\ \A x \in Upto(0) : f[x] \in Nat
      BY <1>8, FS_EmptySet
    <3>2. SumFunctionOnSet(f, Upto(0)) = 0
      BY <1>8, <3>1, SumType
    <3>3. QED
      BY <1>2, <3>2
  <2>2. ASSUME NEW n \in M PROVE n + 1 \in M
    <3>1. n \in Nat /\ (n <= L => SumFunctionOnSet(f, Upto(n)) = p[n])
      OBVIOUS
    <3>2. ASSUME n + 1 <= L PROVE SumFunctionOnSet(f, Upto(n + 1)) = p[n + 1]
      <4>1. n <= L /\ n + 1 \in 1 .. L /\ n + 1 - 1 = n /\ n \in 0 .. L
        BY <1>1, <3>1, <3>2
      <4>2. /\ Upto(n + 1) = Upto(n) \cup {s[n + 1]} /\ s[n + 1] \notin Upto(n)
            /\ Upto(n + 1) \subseteq DOMAIN it
        BY <1>7, <3>1, <3>2
      <4>3. IsFiniteSet(Upto(n))
        BY <1>9, <3>1, <4>1
      <4>4. \A y \in Upto(n) \cup {s[n + 1]} : f[y] \in Nat
        BY <1>5, <4>2
      <4>5. SumFunctionOnSet(f, Upto(n + 1)) = f[s[n + 1]] + SumFunctionOnSet(f, Upto(n))
        BY <4>2, <4>3, <4>4, SumAdd
      <4>6. p[n + 1] = p[n] + it[s[n + 1]].size /\ p[n] \in Int
        <5>1. p[n + 1] = p[(n + 1) - 1] + it[s[n + 1]].size
          BY <1>2, <4>1
        <5>2. QED
          BY <1>2, <4>1, <5>1
      <4>7. f[s[n + 1]] = it[s[n + 1]].size /\ f[s[n + 1]] \in Nat
        BY <1>5, <4>2
      <4>8. QED
        BY <3>1, <4>1, <4>5, <4>6, <4>7
    <3>3. QED
      BY <3>1, <3>2
  <2>3. M \subseteq Nat
    OBVIOUS
  <2> HIDE DEF M
  <2>4. QED
    BY <2>1, <2>2, <2>3, SetInduction
<1>12. SumFunctionOnSet(f, DOMAIN it) = total
  <2>1. L \in M /\ L <= L
    BY <1>1, <1>11
  <2>2. SumFunctionOnSet(f, Upto(L)) = p[L]
    BY <2>1
  <2>3. QED
    BY <1>2, <1>6, <2>2
<1>13. QED
  BY <1>10, <1>12 DEF f, L

\* A new call to Set has taken nothing out but the old entry of its key.
LEMMA SetBeginSetInv ==
    ASSUME IInv, NEW k \in Keys, NEW e \in Entry, e.storedAt <= now, SetBegin(k, e)
    PROVE  SetInv'
<1>1. /\ mu' = [op |-> "set", key |-> k, entry |-> e, before |-> items] /\ now' = now
      /\ IF k \in DOMAIN items THEN removeElement(k) ELSE unchangedContents
  BY DEF SetBegin
<1>2. DOMAIN items' = DOMAIN items \ {k} /\ \A x \in DOMAIN items' : items'[x] = items[x]
  <2>1. CASE k \in DOMAIN items
    BY <1>1, <2>1 DEF removeElement, Restrict
  <2>2. CASE k \notin DOMAIN items
    BY <1>1, <2>2 DEF unchangedContents
  <2>3. QED
    BY <2>1, <2>2
<1>3. mu'.key = k /\ mu'.entry = e /\ mu'.before = items
  BY <1>1
<1>4. QED
  BY <1>1, <1>2, <1>3 DEF SetInv

\* An eviction takes an entry for which there was no room.
LEMMA SetEvictSetInv ==
    ASSUME IInv, SetInv, SetEvict
    PROVE  SetInv'
<1> DEFINE others == DOMAIN mu.before \ {mu.key}
<1>1. /\ mu.op = "set" /\ NeedsRoom(mu.entry) /\ evictOldest /\ mu' = mu /\ now' = now
      /\ touched' = touched
  BY DEF SetEvict
<1>2. /\ evictList \in Seq(Keys) /\ Len(evictList) \in Nat /\ sizeBytes \in Nat
      /\ DOMAIN evictList = 1 .. Len(evictList)
      /\ Range(evictList) = DOMAIN items /\ MuType
      /\ Agree(items, evictList, sizeBytes, touched)
  BY IInvParts, LenProperties DEF Agree, IRest, RestType
<1>3. /\ DOMAIN items \subseteq others /\ mu.entry.storedAt <= now
      /\ \A x \in DOMAIN items : items[x] = mu.before[x]
  BY <1>1 DEF SetInv
<1>4. CASE evictList = <<>>
  <2>1. UNCHANGED <<items, evictList, sizeBytes>>
    BY <1>1, <1>4 DEF evictOldest
  <2>2. QED
    BY <1>1, <2>1 DEF SetInv
<1>5. CASE evictList # <<>>
  <2> DEFINE d == evictList[Len(evictList)]
  <2>1. removeElement(d)
    BY <1>1, <1>5 DEF evictOldest
  <2>2. d \in DOMAIN items
    BY <1>2, <1>5 DEF Range
  <2> HIDE DEF d
  <2>3. /\ Len(evictList') = Len(evictList) - 1 /\ DOMAIN items' = DOMAIN items \ {d}
    BY <1>1, <2>1, <2>2, RemoveStep
  <2>4. items[d].size \in 0 .. sizeBytes
    BY <1>2, <2>2, RemoveAgrees
  <2>5. sizeBytes' = sizeBytes - items[d].size /\ items[d].size \in Nat
    BY <1>2, <2>1, <2>4 DEF removeElement
  <2>6. \A x \in DOMAIN items' : items'[x] = mu.before[x]
    BY <1>3, <2>1, <2>3 DEF removeElement, Restrict
  <2>7. d \in others \ DOMAIN items' /\ mu.before[d] = items[d]
    BY <1>3, <2>2, <2>3
  <2>8. mu.entry.size \in Nat
    BY <1>1, <1>2, MuCases, SizesAssumption DEF Entry
  <2>9. \/ Len(evictList') + 1 >= MaxEntries
        \/ sizeBytes' + mu.before[d].size + mu.entry.size > MaxBytes
    <3>1. CASE Len(evictList) >= MaxEntries
      BY <1>2, <2>3, <3>1, LimitsAssumption
    <3>2. CASE sizeBytes + mu.entry.size > MaxBytes
      BY <1>2, <2>5, <2>7, <2>8, <3>2, LimitsAssumption, SMTT(30)
    <3>3. QED
      BY <1>1, <3>1, <3>2 DEF NeedsRoom
  <2>10. DOMAIN items' \subseteq others
    BY <1>3, <2>3
  <2> HIDE DEF others
  <2>11. \E y \in others \ DOMAIN items' :
            \/ Len(evictList') + 1 >= MaxEntries
            \/ sizeBytes' + mu.before[y].size + mu.entry.size > MaxBytes
    BY <2>7, <2>9
  <2>12. QED
    BY <1>1, <1>3, <2>6, <2>10, <2>11 DEF SetInv, others
<1>6. QED
  BY <1>4, <1>5

\* Every step preserves SetInv.
LEMMA NextSetInv == IInv /\ SetInv /\ [Next]_vars => SetInv'
<1> SUFFICES ASSUME IInv, SetInv, [Next]_vars PROVE SetInv'
  OBVIOUS
<1>1. ASSUME NEW k \in Keys, NEW s \in Sizes, NEW t \in TTLs, NEW at \in 0 .. now,
             SetBegin(k, [size |-> s, ttl |-> t, storedAt |-> at])
      PROVE  SetInv'
  <2> DEFINE e == [size |-> s, ttl |-> t, storedAt |-> at]
  <2>0. now \in Nat /\ at \in Nat /\ at <= now
    BY DEF IInv, TypeOK
  <2>1. e \in Entry /\ e.storedAt <= now
    BY <2>0 DEF Entry
  <2> HIDE DEF e
  <2>2. SetBegin(k, e)
    BY <1>1 DEF e
  <2>3. QED
    BY <2>1, <2>2, SetBeginSetInv
<1>2. CASE SetEvict
  BY <1>2, SetEvictSetInv
<1>3. CASE mu'.op # "set"
  BY <1>3 DEF SetInv
<1>4. CASE Tick \/ UNCHANGED vars
  <2>1. UNCHANGED <<items, evictList, sizeBytes, mu>>
    BY <1>4 DEF Tick, vars, unchangedContents
  <2>2. now \in Nat /\ (now' = now \/ now' = now + 1)
    BY <1>4 DEF Tick, vars, IInv, TypeOK
  <2>3. ASSUME mu.op = "set" PROVE mu.entry.storedAt <= now'
    <3>1. mu.entry.storedAt <= now /\ mu.entry.storedAt \in Nat
      BY <2>3, MuCases DEF SetInv, IInv, TypeOK, MuType, Entry
    <3>2. QED
      BY <2>2, <3>1
  <2>4. QED
    BY <2>1, <2>3 DEF SetInv
<1>5. ASSUME \/ \E k \in Keys : Get(k) \/ Delete(k)
             \/ \E p \in PathPrefixes : DeleteByPrefix(p)
             \/ \E p \in Paths : DeleteByPath(p)
             \/ Purge \/ Stats \/ IncrementBypasses \/ SetEnd \/ DeleteStep \/ DeleteEnd
      PROVE  mu'.op # "set"
  BY <1>5 DEF Get, Enter, Delete, DeleteByPrefix, DeleteByPath, DeleteBegin, Purge, Stats,
              IncrementBypasses, SetEnd, DeleteStep, DeleteEnd, Free
<1>6. QED
  BY <1>1, <1>2, <1>3, <1>4, <1>5 DEF Next, Call, Loop

-----------------------------------------------------------------------------
(* The refinement, one lemma per action.                                   *)

\* Nothing is erased where there is nothing.
LEMMA RestrictSame ==
    ASSUME NEW f, Contents(f), NEW A, A \cap DOMAIN f = {}
    PROVE  Restrict(f, DOMAIN f \ A) = f
<1>1. DOMAIN f \ A = DOMAIN f
  OBVIOUS
<1>2. QED
  BY <1>1 DEF Restrict, Contents

\* The mapping, by the call that holds the lock.
LEMMA AbsNow ==
    /\ mu.op = "free" => absStore = items /\ absRet = ret
    /\ mu.op = "set" => absStore = mu.before /\ absRet = ret
    /\ mu.op = "delete" =>
          /\ absStore = Restrict(items, DOMAIN items \ mu.toRemove)
          /\ absRet = Answer(NoEntry, mu.count + Cardinality(mu.toRemove), 0)
  BY DEF absStore, absRet

LEMMA AbsNext ==
    /\ mu'.op = "free" => absStore' = items' /\ absRet' = ret'
    /\ mu'.op = "set" => absStore' = mu'.before /\ absRet' = ret'
    /\ mu'.op = "delete" =>
          /\ absStore' = Restrict(items', DOMAIN items' \ mu'.toRemove)
          /\ absRet' = Answer(NoEntry, mu'.count + Cardinality(mu'.toRemove), 0)
  BY DEF absStore, absRet

\* The operators that both specifications have.
LEMMA AbsOperators ==
    /\ \A e, n, b : Abstract!Answer(e, n, b) = Answer(e, n, b)
    /\ \A S : Abstract!Cardinality(S) = Cardinality(S)
    /\ \A S : Abstract!Erase(S) <=> absStore' = Restrict(absStore, DOMAIN absStore \ S)
    /\ \A S : Abstract!Bytes(S) =
                SumFunctionOnSet([k \in DOMAIN absStore |-> absStore[k].size], S)
<1>1. \A e, n, b : Abstract!Answer(e, n, b) = Answer(e, n, b)
  BY DEF Abstract!Answer, Answer
<1>2. \A S : Abstract!Cardinality(S) = Cardinality(S)
  BY DEF Abstract!Cardinality, Cardinality
<1>3. \A S : Abstract!Erase(S) <=> absStore' = Restrict(absStore, DOMAIN absStore \ S)
  BY DEF Abstract!Erase, Restrict, Abstract!Restrict
<1>4. \A S : Abstract!Bytes(S) =
                SumFunctionOnSet([k \in DOMAIN absStore |-> absStore[k].size], S)
  BY DEF Abstract!Bytes, SumFunctionOnSet, Abstract!SumFunctionOnSet, FoldFunctionOnSet,
         MapThenFoldSet, Abstract!FoldFunctionOnSet, Abstract!MapThenFoldSet
<1>5. QED
  BY <1>1, <1>2, <1>3, <1>4

\* A lookup is a lookup of the interface.
LEMMA GetRefines ==
    ASSUME IInv, NEW k \in Keys, Get(k)
    PROVE  Abstract!Get(k)
<1>1. /\ mu = Free /\ mu' = mu /\ now' = now /\ Contents(items)
      /\ GetAbsent(k) \/ GetExpired(k) \/ GetHit(k)
  BY DEF Get, Enter, IInv, TypeOK
<1>2. absStore = items /\ absStore' = items' /\ absRet' = ret'
  BY <1>1, AbsNow, AbsNext DEF Free
<1>3. Abstract!Fresh(k) <=> k \in DOMAIN items /\ ~IsExpired(items[k])
  BY <1>2 DEF Abstract!Fresh, Abstract!IsExpired, IsExpired
<1> DEFINE fresh == k \in DOMAIN items /\ ~IsExpired(items[k])
<1>4. /\ items' = Restrict(items, DOMAIN items \ (IF fresh THEN {} ELSE {k}))
      /\ ret' = Answer(IF fresh THEN items[k] ELSE NoEntry, 0, 0)
  <2>1. CASE GetAbsent(k)
    <3>1. ~fresh /\ items' = items /\ ret' = Answer(NoEntry, 0, 0) /\ {k} \cap DOMAIN items = {}
      BY <2>1 DEF GetAbsent, unchangedContents
    <3>2. QED
      BY <1>1, <3>1, RestrictSame
  <2>2. CASE GetExpired(k)
    <3>1. ~fresh /\ ret' = Answer(NoEntry, 0, 0) /\ items' = Restrict(items, DOMAIN items \ {k})
      BY <2>2 DEF GetExpired, removeElement
    <3>2. QED
      BY <3>1
  <2>3. CASE GetHit(k)
    <3>1. fresh /\ items' = items /\ ret' = Answer(items[k], 0, 0) /\ {} \cap DOMAIN items = {}
      BY <2>3 DEF GetHit
    <3>2. QED
      BY <1>1, <3>1, RestrictSame
  <2>4. QED
    BY <1>1, <2>1, <2>2, <2>3
<1>5. Abstract!Read(k)
  BY <1>2, <1>3, <1>4, AbsOperators DEF Abstract!Read
<1>6. absRet' = Abstract!Answer(IF Abstract!Fresh(k) THEN absStore[k] ELSE NoEntry, 0, 0)
  BY <1>2, <1>3, <1>4, AbsOperators
<1>7. QED
  BY <1>1, <1>5, <1>6 DEF Abstract!Get

\* The finite contents that a deletion counts.
LEMMA FiniteItems ==
    ASSUME IInv
    PROVE  /\ IsFiniteSet(DOMAIN items) /\ Cardinality(DOMAIN items) = Len(evictList)
           /\ SumFunctionOnSet([k \in DOMAIN items |-> items[k].size], DOMAIN items) = sizeBytes
           /\ Contents(items)
  BY ListCounts DEF IInv, TypeOK

\* Delete removes one key.
LEMMA DeleteRefines ==
    ASSUME IInv, NEW k \in Keys, Delete(k)
    PROVE  Abstract!Remove({k})
<1>1. /\ mu = Free /\ mu' = mu /\ now' = now /\ Contents(items)
      /\ IF k \in DOMAIN items THEN removeElement(k) ELSE unchangedContents
      /\ ret' = Answer(NoEntry, IF k \in DOMAIN items THEN 1 ELSE 0, 0)
  BY DEF Delete, IInv, TypeOK
<1>2. absStore = items /\ absStore' = items' /\ absRet' = ret'
  BY <1>1, AbsNow, AbsNext DEF Free
<1>3. /\ items' = Restrict(items, DOMAIN items \ {k})
      /\ ret' = Answer(NoEntry, Cardinality({k} \cap DOMAIN items), 0)
  <2>1. CASE k \in DOMAIN items
    <3>1. {k} \cap DOMAIN items = {k} /\ Cardinality({k}) = 1
      BY <2>1, FS_Singleton
    <3>2. QED
      BY <1>1, <2>1, <3>1 DEF removeElement
  <2>2. CASE k \notin DOMAIN items
    <3>1. {k} \cap DOMAIN items = {} /\ Cardinality({}) = 0
      BY <2>2, FS_EmptySet
    <3>2. QED
      BY <1>1, <2>2, <3>1, RestrictSame DEF unchangedContents
  <2>3. QED
    BY <2>1, <2>2
<1>4. Abstract!Erase({k})
  BY <1>2, <1>3, AbsOperators
<1>5. absRet' = Abstract!Answer(NoEntry, Abstract!Cardinality({k} \cap DOMAIN absStore), 0)
  BY <1>2, <1>3, AbsOperators
<1>6. QED
  BY <1>1, <1>4, <1>5 DEF Abstract!Remove

\* Purge removes every key.
LEMMA PurgeRefines ==
    ASSUME IInv, Purge
    PROVE  Abstract!Remove(Keys)
<1>1. /\ mu = Free /\ mu' = mu /\ now' = now /\ Contents(items)
      /\ items' = [k \in {} |-> NoEntry]
      /\ ret' = Answer(NoEntry, Len(evictList), 0)
  BY DEF Purge, IInv, TypeOK
<1>2. absStore = items /\ absStore' = items' /\ absRet' = ret'
  BY <1>1, AbsNow, AbsNext DEF Free
<1>3. Keys \cap DOMAIN items = DOMAIN items /\ DOMAIN items \ Keys = {}
  BY <1>1 DEF Contents
<1>4. items' = Restrict(items, DOMAIN items \ Keys)
  BY <1>1, <1>3 DEF Restrict
<1>5. Abstract!Erase(Keys)
  BY <1>2, <1>4, AbsOperators
<1>6. absRet' = Abstract!Answer(NoEntry, Abstract!Cardinality(Keys \cap DOMAIN absStore), 0)
  BY <1>1, <1>2, <1>3, AbsOperators, FiniteItems
<1>7. QED
  BY <1>1, <1>5, <1>6 DEF Abstract!Remove

\* Stats reports the number of entries and the sum of their sizes, which the
\* code reads off the list and off its running counter.
LEMMA StatsRefines ==
    ASSUME IInv, Stats
    PROVE  Abstract!Stats
<1>1. /\ mu = Free /\ mu' = mu /\ now' = now /\ items' = items
      /\ ret' = Answer(NoEntry, Len(evictList), sizeBytes)
  BY DEF Stats, unchangedContents
<1>2. absStore = items /\ absStore' = items' /\ absRet' = ret'
  BY <1>1, AbsNow, AbsNext DEF Free
<1>3. Abstract!Cardinality(DOMAIN absStore) = Len(evictList)
  BY <1>2, AbsOperators, FiniteItems
<1>4. Abstract!Bytes(DOMAIN absStore) = sizeBytes
  BY <1>2, AbsOperators, FiniteItems
<1>5. absRet' = Abstract!Answer(NoEntry, Abstract!Cardinality(DOMAIN absStore),
                               Abstract!Bytes(DOMAIN absStore))
  BY <1>1, <1>2, <1>3, <1>4, AbsOperators
<1>6. QED
  BY <1>1, <1>2, <1>5 DEF Abstract!Stats

\* The insertion is the Set of the interface: what the loop has left in the
\* cache is what the interface keeps.
LEMMA SetEndRefines ==
    ASSUME IInv, SetInv, SetEnd
    PROVE  mu.key \in Keys /\ mu.entry \in Abstract!Entry /\ Abstract!Set(mu.key, mu.entry)
<1> DEFINE k == mu.key
           e == mu.entry
           old == mu.before
           kept == DOMAIN items
           others == DOMAIN old \ {k}
           f == [x \in DOMAIN old |-> old[x].size]
           g == [x \in kept |-> items[x].size]
           fits(S) == /\ Abstract!Cardinality(S) < MaxEntries
                      /\ Abstract!Bytes(S) + e.size <= MaxBytes \/ S = {}
<1>1. /\ mu.op = "set" /\ ~NeedsRoom(e) /\ mu' = Free /\ now' = now
      /\ items' = [x \in kept \cup {k} |-> IF x = k THEN e ELSE items[x]]
      /\ ret' = Answer(NoEntry, 0, 0)
  BY DEF SetEnd
<1>2. /\ k \in Keys /\ e \in Entry /\ Contents(old)
      /\ sizeBytes \in Nat /\ Len(evictList) \in Nat /\ now \in Nat
      /\ Range(evictList) = DOMAIN items
  BY <1>1, MuCases, LenProperties DEF IInv, TypeOK, MuType, Agree
<1>3. /\ kept \subseteq others /\ e.storedAt <= now
      /\ \A x \in kept : items[x] = old[x]
      /\ kept # others => \E d \in others \ kept :
            \/ Len(evictList) + 1 >= MaxEntries
            \/ sizeBytes + old[d].size + e.size > MaxBytes
  BY <1>1 DEF SetInv
<1>4. absStore = old /\ absStore' = items' /\ absRet' = ret'
  BY <1>1, AbsNow, AbsNext DEF Free
<1>5. IsFiniteSet(kept) /\ Cardinality(kept) = Len(evictList) /\ SumFunctionOnSet(g, kept) = sizeBytes
  BY FiniteItems
<1>6. /\ \A x \in DOMAIN old : f[x] = old[x].size /\ f[x] \in Nat
      /\ \A x \in kept : g[x] = f[x] /\ g[x] \in Nat
      /\ e.size \in Nat
  BY <1>2, <1>3, SizesAssumption DEF Contents, Entry
<1>7. \A S : Abstract!Bytes(S) = SumFunctionOnSet(f, S) /\ Abstract!Cardinality(S) = Cardinality(S)
  BY <1>4, AbsOperators
<1>8. e \in Abstract!Entry
  <2>1. e.storedAt \in 0 .. now
    BY <1>2, <1>3 DEF Entry
  <2>2. QED
    BY <1>2, <2>1 DEF Entry, Abstract!Entry
<1>9. kept # {} => Len(evictList) > 0
  BY <1>2, <1>5, FS_EmptySet
<1>10. ~(Len(evictList) >= MaxEntries) /\ ~(sizeBytes + e.size > MaxBytes /\ Len(evictList) > 0)
  BY <1>1 DEF NeedsRoom
<1>11. items' = [x \in kept \cup {k} |-> IF x = k THEN e ELSE old[x]]
  BY <1>1, <1>3
<1> HIDE DEF k, e, old, kept, others, f, g
<1>12. SumFunctionOnSet(f, kept) = sizeBytes
  <2>1. \A x \in kept : f[x] = g[x]
    BY <1>6
  <2>2. SumFunctionOnSet(f, kept) = SumFunctionOnSet(g, kept)
    BY <1>5, <1>6, <2>1, SumSame
  <2>3. QED
    BY <1>5, <2>2
<1>13. fits(kept)
  <2>1. Abstract!Cardinality(kept) < MaxEntries
    BY <1>2, <1>5, <1>7, <1>10, LimitsAssumption
  <2>2. Abstract!Bytes(kept) = sizeBytes
    BY <1>7, <1>12
  <2>3. Abstract!Bytes(kept) + e.size <= MaxBytes \/ kept = {}
    BY <1>2, <1>6, <1>9, <1>10, <2>2, LimitsAssumption
  <2>4. QED
    BY <2>1, <2>3
<1>14. ASSUME kept # others PROVE \E d \in others \ kept : ~fits(kept \cup {d})
  <2>1. PICK d \in others \ kept :
            \/ Len(evictList) + 1 >= MaxEntries
            \/ sizeBytes + old[d].size + e.size > MaxBytes
    BY <1>3, <1>14
  <2>2. d \notin kept /\ d \in DOMAIN old
    BY DEF others
  <2>3. Cardinality(kept \cup {d}) = Len(evictList) + 1
    BY <1>5, <2>2, FS_AddElement
  <2>4. SumFunctionOnSet(f, kept \cup {d}) = old[d].size + sizeBytes
    <3>1. \A y \in kept \cup {d} : f[y] \in Nat
      BY <1>6, <2>2
    <3>2. SumFunctionOnSet(f, kept \cup {d}) = f[d] + SumFunctionOnSet(f, kept)
      BY <1>5, <2>2, <3>1, SumAdd
    <3>3. QED
      BY <1>6, <1>12, <2>2, <3>2
  <2>5. ~fits(kept \cup {d})
    <3>1. CASE Len(evictList) + 1 >= MaxEntries
      <4>1. ~(Abstract!Cardinality(kept \cup {d}) < MaxEntries)
        BY <1>2, <1>7, <2>3, <3>1, LimitsAssumption
      <4>2. QED
        BY <4>1
    <3>2. CASE sizeBytes + old[d].size + e.size > MaxBytes
      <4>1. old[d].size \in Nat /\ Abstract!Bytes(kept \cup {d}) = old[d].size + sizeBytes
        BY <1>6, <1>7, <2>2, <2>4
      <4>2. ~(Abstract!Bytes(kept \cup {d}) + e.size <= MaxBytes)
        BY <1>2, <1>6, <3>2, <4>1, LimitsAssumption
      <4>3. QED
        BY <4>2
    <3>3. QED
      BY <2>1, <3>1, <3>2
  <2>6. QED
    BY <2>5
<1>15. Abstract!Write(k, e)
  <2> HIDE DEF fits
  <2>1. others = DOMAIN absStore \ {k}
    BY <1>4 DEF others
  <2>2. kept \in SUBSET others
    BY <1>3
  <2>3. absStore' = [x \in kept \cup {k} |-> IF x = k THEN e ELSE absStore[x]]
    BY <1>4, <1>11
  <2>4. \E K \in SUBSET others :
           /\ fits(K)
           /\ K # others => \E d \in others \ K : ~fits(K \cup {d})
           /\ absStore' = [x \in K \cup {k} |-> IF x = k THEN e ELSE absStore[x]]
    BY <1>13, <1>14, <2>2, <2>3
  <2>5. QED
    BY <2>1, <2>4 DEF Abstract!Write, fits
<1>16. absRet' = Abstract!Answer(NoEntry, 0, 0)
  BY <1>1, <1>4, AbsOperators
<1>17. QED
  BY <1>1, <1>2, <1>8, <1>15, <1>16 DEF Abstract!Set, k, e

\* A DeleteBy* takes effect when it has collected what it will remove.
LEMMA DeleteBeginRefines ==
    ASSUME IInv, NEW S \in SUBSET Keys, DeleteBegin(S)
    PROVE  Abstract!Remove(S)
<1>1. /\ mu = Free /\ now' = now /\ items' = items
      /\ mu' = [op |-> "delete", toRemove |-> S \cap DOMAIN items, count |-> 0]
  BY DEF DeleteBegin, unchangedContents
<1>2. /\ absStore = items /\ absStore' = Restrict(items', DOMAIN items' \ mu'.toRemove)
      /\ absRet' = Answer(NoEntry, mu'.count + Cardinality(mu'.toRemove), 0)
  BY <1>1, AbsNow, AbsNext DEF Free
<1>3. mu'.toRemove = S \cap DOMAIN items /\ mu'.count = 0
  BY <1>1
<1>4. DOMAIN items \ (S \cap DOMAIN items) = DOMAIN items \ S
  OBVIOUS
<1>5. Abstract!Erase(S)
  BY <1>1, <1>2, <1>3, <1>4, AbsOperators
<1>6. Cardinality(S \cap DOMAIN items) \in Nat
  BY FiniteItems, FS_Subset, FS_CardinalityType
<1>7. absRet' = Answer(NoEntry, Cardinality(S \cap DOMAIN items), 0)
  BY <1>2, <1>3, <1>6
<1>8. absRet' = Abstract!Answer(NoEntry, Abstract!Cardinality(S \cap DOMAIN absStore), 0)
  BY <1>2, <1>7, AbsOperators
<1>9. QED
  BY <1>1, <1>5, <1>8 DEF Abstract!Remove

\* Its loop changes nothing the interface can see: what is still to be
\* removed is gone already, and the count is the one already promised.
LEMMA DeleteStepStutters ==
    ASSUME IInv, DeleteStep
    PROVE  UNCHANGED <<absStore, absRet, now>>
<1>1. PICK k \in mu.toRemove :
         /\ removeElement(k)
         /\ mu' = [op |-> "delete", toRemove |-> mu.toRemove \ {k}, count |-> mu.count + 1]
  BY DEF DeleteStep
<1>2. /\ mu.op = "delete" /\ now' = now /\ mu.toRemove \subseteq DOMAIN items /\ mu.count \in Nat
  BY MuCases DEF DeleteStep, IInv, TypeOK, MuType, CallInv
<1>3. mu'.op = "delete" /\ mu'.toRemove = mu.toRemove \ {k} /\ mu'.count = mu.count + 1
  BY <1>1
<1>4. /\ absStore = Restrict(items, DOMAIN items \ mu.toRemove)
      /\ absRet = Answer(NoEntry, mu.count + Cardinality(mu.toRemove), 0)
      /\ absStore' = Restrict(items', DOMAIN items' \ mu'.toRemove)
      /\ absRet' = Answer(NoEntry, mu'.count + Cardinality(mu'.toRemove), 0)
  BY <1>2, <1>3, AbsNow, AbsNext
<1>5. /\ DOMAIN items' = DOMAIN items \ {k}
      /\ \A x \in DOMAIN items' : items'[x] = items[x]
  BY <1>1 DEF removeElement, Restrict
<1>6. DOMAIN items' \ mu'.toRemove = DOMAIN items \ mu.toRemove
  BY <1>1, <1>3, <1>5
<1>7. absStore' = absStore
  <2>1. \A x \in DOMAIN items \ mu.toRemove : items'[x] = items[x]
    BY <1>1, <1>5
  <2>2. QED
    BY <1>4, <1>6, <2>1 DEF Restrict
<1>8. mu'.count + Cardinality(mu'.toRemove) = mu.count + Cardinality(mu.toRemove)
  <2> DEFINE T == mu.toRemove
  <2>1. IsFiniteSet(T) /\ Cardinality(T) \in Nat
    BY <1>2, FiniteItems, FS_Subset, FS_CardinalityType
  <2>2. Cardinality(T \ {k}) = IF k \in T THEN Cardinality(T) - 1 ELSE Cardinality(T)
    BY <2>1, FS_RemoveElement, Zenon
  <2>3. QED
    BY <1>1, <1>2, <1>3, <2>1, <2>2
<1>9. QED
  BY <1>2, <1>4, <1>7, <1>8

\* The steps the interface does not see.
LEMMA Stutters ==
    ASSUME IInv, IncrementBypasses \/ SetEvict \/ DeleteEnd \/ UNCHANGED vars
    PROVE  UNCHANGED <<absStore, absRet, now>>
<1>1. CASE IncrementBypasses
  <2>1. mu = Free /\ mu' = mu /\ items' = items /\ ret' = ret /\ now' = now
    BY <1>1 DEF IncrementBypasses, Enter, unchangedContents
  <2>2. QED
    BY <2>1, AbsNow, AbsNext DEF Free
<1>2. CASE SetEvict
  <2>1. mu.op = "set" /\ mu' = mu /\ ret' = ret /\ now' = now
    BY <1>2 DEF SetEvict
  <2>2. QED
    BY <2>1, AbsNow, AbsNext
<1>3. CASE DeleteEnd
  <2>1. /\ mu.op = "delete" /\ mu.toRemove = {} /\ mu' = Free /\ items' = items /\ now' = now
        /\ ret' = Answer(NoEntry, mu.count, 0) /\ mu.count \in Nat /\ Contents(items)
    BY <1>3, MuCases DEF DeleteEnd, unchangedContents, IInv, TypeOK, MuType
  <2>2. /\ absStore = Restrict(items, DOMAIN items \ mu.toRemove)
        /\ absRet = Answer(NoEntry, mu.count + Cardinality(mu.toRemove), 0)
        /\ absStore' = items' /\ absRet' = ret'
    BY <2>1, AbsNow, AbsNext DEF Free
  <2>3. absStore = items
    BY <2>1, <2>2, RestrictSame
  <2>4. mu.count + Cardinality(mu.toRemove) = mu.count
    BY <2>1, FS_EmptySet
  <2>5. QED
    BY <2>1, <2>2, <2>3, <2>4
<1>4. CASE UNCHANGED vars
  BY <1>4 DEF vars, absStore, absRet
<1>5. QED
  BY <1>1, <1>2, <1>3, <1>4

\* SetBegin takes out an entry that the interface still shows, ...
LEMMA SetBeginStutters ==
    ASSUME NEW k, NEW e, SetBegin(k, e)
    PROVE  UNCHANGED <<absStore, absRet, now>>
<1>1. /\ mu = Free /\ ret' = ret /\ now' = now
      /\ mu' = [op |-> "set", key |-> k, entry |-> e, before |-> items]
  BY DEF SetBegin, Enter
<1>2. mu'.op = "set" /\ mu'.before = items
  BY <1>1
<1>3. QED
  BY <1>1, <1>2, AbsNow, AbsNext DEF Free

\* ... and the clock is the same clock.
LEMMA TickRefines ==
    ASSUME IInv, Tick
    PROVE  Abstract!Tick
<1>1. UNCHANGED <<items, mu, ret>> /\ now < MaxTime /\ now' = now + 1
  BY DEF Tick, unchangedContents
<1>2. UNCHANGED <<absStore, absRet>>
  BY <1>1 DEF absStore, absRet
<1>3. QED
  BY <1>1, <1>2 DEF Abstract!Tick

\* Every step is a step of the interface, or one it does not see.
LEMMA StepRefines == IInv /\ SetInv /\ [Next]_vars => [Abstract!Next]_(Abstract!vars)
<1> SUFFICES ASSUME IInv, SetInv, [Next]_vars
             PROVE  Abstract!Next \/ UNCHANGED <<absStore, absRet, now>>
  BY DEF Abstract!vars
<1>1. ASSUME NEW k \in Keys, Get(k) PROVE Abstract!Next
  BY <1>1, GetRefines DEF Abstract!Next
<1>2. ASSUME NEW k \in Keys, Delete(k) PROVE Abstract!Next
  BY <1>2, DeleteRefines DEF Abstract!Next
<1>3. ASSUME NEW k, NEW e, SetBegin(k, e) PROVE UNCHANGED <<absStore, absRet, now>>
  BY <1>3, SetBeginStutters
<1>4. ASSUME NEW p \in PathPrefixes, DeleteByPrefix(p) PROVE Abstract!Next
  BY <1>4, DeleteBeginRefines DEF DeleteByPrefix, Abstract!Next
<1>5. ASSUME NEW p \in Paths, DeleteByPath(p) PROVE Abstract!Next
  BY <1>5, DeleteBeginRefines DEF DeleteByPath, Abstract!Next
<1>6. CASE Purge
  BY <1>6, PurgeRefines DEF Abstract!Next
<1>7. CASE Stats
  BY <1>7, StatsRefines DEF Abstract!Next
<1>8. CASE Tick
  BY <1>8, TickRefines DEF Abstract!Next
<1>9. CASE SetEnd
  BY <1>9, SetEndRefines DEF Abstract!Next
<1>10. CASE DeleteStep
  BY <1>10, DeleteStepStutters
<1>11. CASE IncrementBypasses \/ SetEvict \/ DeleteEnd \/ UNCHANGED vars
  BY <1>11, Stutters
<1>12. QED
  BY <1>1, <1>2, <1>3, <1>4, <1>5, <1>6, <1>7, <1>8, <1>9, <1>10, <1>11
  DEF Next, Call, Loop

\* The LRU cache implements the Backend interface, for every set of keys and
\* every pair of limits: a lookup, a write, a deletion or a report of the
\* abstract store is one step of the code, whatever loops it takes.
THEOREM ImplementsInterface == Spec => ImplementsCacheStore
<1>1. Init => Abstract!Init
  BY AbsNow, AbsOperators DEF Init, Abstract!Init, Free
<1>2. Init => SetInv
  BY DEF Init, SetInv, Free
<1>3. Spec => []SetInv
  BY <1>2, Inductive, NextSetInv, PTL DEF Spec
<1>4. QED
  BY <1>1, <1>3, Inductive, StepRefines, PTL DEF Spec, ImplementsCacheStore, Abstract!Spec
=============================================================================
