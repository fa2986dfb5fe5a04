------------------------- MODULE RateLimiterProofs -------------------------
(***************************************************************************)
(* Proofs about RateLimiter, for any number of requests, clients and       *)
(* rules, with or without identifiers in common, any rates and bursts, and *)
(* any cleanup interval.                                                   *)
(***************************************************************************)
EXTENDS RateLimiter, SequenceTheorems, WellFoundedInduction, TLAPS

-----------------------------------------------------------------------------
(* The inductive invariant.  A bucket is compared by what it lacks to be   *)
(* full: regaining and taking change that alike for all buckets of a key.  *)

\* A request past getLimiter holds a bucket of its own key.
Holding ==
    /\ \A r \in Requests : pc[r] \in {"find", "touch", "create", "take"} => rule[r] \in 1 .. Len(Rules)
    /\ \A r \in Requests : pc[r] \in {"touch", "take"} =>
          held[r] \in 1 .. Len(heap) /\ heap[held[r]].key = KeyOf(r)

\* The map and what cleanup deleted make up the heap.
Mapped ==
    /\ \A k \in DOMAIN limiters : heap[limiters[k]].key = k /\ limiters[k] \notin discarded
    /\ \A b \in 1 .. Len(heap) : b \notin discarded =>
          heap[b].key \in DOMAIN limiters /\ limiters[heap[b].key] = b

\* No bucket is overdrawn or overfull, and none lacks more than the strictest
\* one of its key would.
Filled ==
    /\ \A k \in BucketKeys : strict[k] <= LeastFull(k)
    /\ \A b \in 1 .. Len(heap) :
          /\ heap[b].rule \in Sharers(heap[b].key)
          /\ heap[b].tokens >= 0 /\ Lacks(heap[b]) >= 0
          /\ Lacks(heap[b]) <= LeastFull(heap[b].key) - strict[heap[b].key]

\* What the loosest one would lack is lacking in the bucket of the map or was
\* given away.
Granted ==
    \A k \in BucketKeys :
        /\ k \in DOMAIN limiters => MostFull(k) - loose[k] <= Lacks(heap[limiters[k]]) + given[k]
        /\ k \notin DOMAIN limiters => MostFull(k) - loose[k] <= given[k]

IInv == TypeOK /\ Holding /\ Mapped /\ Filled /\ Granted

-----------------------------------------------------------------------------
(* The rules of a key.                                                     *)

\* A set of natural numbers has a least element.
LEMMA Least ==
    ASSUME NEW T, T \subseteq Nat, T # {}
    PROVE  \E x \in T : \A y \in T : x <= y
<1> DEFINE R == OpToRel(<, Nat)
<1>1. IsWellFoundedOn(R, Nat)
  BY NatLessThanWellFounded
<1>2. R = {pair \in Nat \X Nat : pair[1] < pair[2]}
  BY DEF OpToRel
<1> HIDE DEF R
<1>3. PICK x \in T : \A y \in T : ~(<<y, x>> \in R)
  BY <1>1, WFMin, Zenon
<1>4. ASSUME NEW y \in T PROVE x <= y
  <2>1. x \in Nat /\ y \in Nat
    OBVIOUS
  <2>2. ~(y < x)
    BY <1>2, <1>3, <2>1
  <2>3. QED
    BY <2>1, <2>2
<1>5. QED
  BY <1>4

\* So has a set of integers in a range a greatest one.
LEMMA Extremes ==
    ASSUME NEW n \in Nat, NEW T, T \subseteq 0 .. n, T # {}
    PROVE  /\ Min(T) \in T /\ \A y \in T : Min(T) <= y
           /\ Max(T) \in T /\ \A y \in T : Max(T) >= y
<1>1. \E x \in T : \A y \in T : x <= y
  <2>1. T \subseteq Nat
    OBVIOUS
  <2>2. QED
    BY <2>1, Least
<1>2. \E x \in T : \A y \in T : x >= y
  <2> DEFINE U == {u \in Nat : \A y \in T : u >= y}
  <2>1. n \in U /\ U \subseteq Nat
    OBVIOUS
  <2>2. PICK u \in U : \A v \in U : u <= v
    BY <2>1, Least, Zenon
  <2>3. PICK z \in T : TRUE
    OBVIOUS
  <2>4. CASE u \in T
    BY <2>4
  <2>5. CASE u \notin T
    <3>1. \A y \in T : u - 1 >= y
      BY <2>5
    <3>2. u - 1 \in U
      BY <2>3, <3>1
    <3>3. QED
      BY <2>2, <3>2
  <2>6. QED
    BY <2>4, <2>5
<1>3. QED
  BY <1>1, <1>2 DEF Min, Max

\* What a rule says is an int that is not negative.
LEMMA RuleFacts ==
    ASSUME NEW i \in 1 .. Len(Rules)
    PROVE  Full(i) \in 0 .. MaxInt /\ Regain(i) \in 0 .. MaxInt
BY RulesAssumption DEF Full, Regain, Positive

\* The extremes of a key bound what its rules say.
LEMMA KeyFacts ==
    ASSUME NEW k \in BucketKeys
    PROVE  /\ LeastFull(k) \in Nat /\ LeastRegain(k) \in Nat
           /\ MostFull(k) \in Nat /\ MostRegain(k) \in Nat
           /\ \A i \in Sharers(k) :
                 /\ i \in 1 .. Len(Rules) /\ Full(i) \in Nat /\ Regain(i) \in Nat
                 /\ LeastFull(k) <= Full(i) /\ Full(i) <= MostFull(k)
                 /\ LeastRegain(k) <= Regain(i) /\ Regain(i) <= MostRegain(k)
<1> DEFINE F == {Full(i) : i \in Sharers(k)}
           G == {Regain(i) : i \in Sharers(k)}
<1>1. Sharers(k) # {} /\ Sharers(k) \subseteq 1 .. Len(Rules)
  BY DEF Sharers, BucketKeys
<1>2. F \subseteq 0 .. MaxInt /\ G \subseteq 0 .. MaxInt /\ F # {} /\ G # {}
  BY <1>1, RuleFacts
<1>3. \A i \in Sharers(k) : Full(i) \in F /\ Regain(i) \in G
  OBVIOUS
<1>4. MaxInt \in Nat
  BY RulesAssumption
<1>5. LeastFull(k) = Min(F) /\ MostFull(k) = Max(F) /\ LeastRegain(k) = Min(G) /\ MostRegain(k) = Max(G)
  BY DEF LeastFull, MostFull, LeastRegain, MostRegain
<1> HIDE DEF F, G
<1>6. /\ Min(F) \in F /\ \A y \in F : Min(F) <= y
      /\ Max(F) \in F /\ \A y \in F : Max(F) >= y
  BY <1>2, <1>4, Extremes
<1>7. /\ Min(G) \in G /\ \A y \in G : Min(G) <= y
      /\ Max(G) \in G /\ \A y \in G : Max(G) >= y
  BY <1>2, <1>4, Extremes
<1>8. \A i \in Sharers(k) : Full(i) \in Nat /\ Regain(i) \in Nat /\ i \in 1 .. Len(Rules)
  BY <1>1, RuleFacts
<1>9. \A y \in F \cup G : y \in Nat
  BY <1>2
<1>10. QED
  BY <1>3, <1>5, <1>6, <1>7, <1>8, <1>9

\* The key of a request that is at a rule.
LEMMA KeyOfFacts ==
    ASSUME TypeOK, NEW r \in Requests, rule[r] \in 1 .. Len(Rules)
    PROVE  KeyOf(r) \in BucketKeys /\ rule[r] \in Sharers(KeyOf(r))
<1>1. caller[r].client \in Clients
  BY DEF TypeOK
<1>2. QED
  BY <1>1 DEF KeyOf, BucketKeys, Sharers

\* A bucket of the heap.
LEMMA BucketFacts ==
    ASSUME TypeOK, Filled, NEW b \in 1 .. Len(heap)
    PROVE  /\ heap[b] \in Bucket /\ heap[b].key \in BucketKeys /\ heap[b].tokens \in Int
           /\ heap[b].rule \in Sharers(heap[b].key)
           /\ Full(heap[b].rule) \in Nat /\ Regain(heap[b].rule) \in Nat
           /\ Lacks(heap[b]) \in Int
<1>1. heap[b] \in Bucket
  BY ElementOfSeq DEF TypeOK
<1>2. heap[b].key \in BucketKeys /\ heap[b].rule \in 1 .. Len(Rules) /\ heap[b].tokens \in Int
  BY <1>1 DEF Bucket
<1>3. Full(heap[b].rule) \in Nat /\ Regain(heap[b].rule) \in Nat
  BY <1>2, RuleFacts
<1>4. QED
  BY <1>1, <1>2, <1>3 DEF Filled, Lacks

-----------------------------------------------------------------------------
(* The heap.                                                               *)

\* A bucket is replaced by another of the same key; the others stay.
LEMMA HeapExcept ==
    ASSUME heap \in Seq(Bucket), NEW b \in 1 .. Len(heap), NEW e \in Bucket,
           heap' = [heap EXCEPT ![b] = e]
    PROVE  /\ heap' \in Seq(Bucket) /\ Len(heap') = Len(heap)
           /\ heap'[b] = e
           /\ \A x \in 1 .. Len(heap) : x # b => heap'[x] = heap[x]
<1>1. heap' \in Seq(Bucket) /\ Len(heap') = Len(heap)
  BY ExceptSeq
<1>2. DOMAIN heap = 1 .. Len(heap)
  BY LenProperties
<1>3. QED
  BY <1>1, <1>2

\* A new bucket is put at the end.
LEMMA HeapAppend ==
    ASSUME heap \in Seq(Bucket), NEW e \in Bucket, heap' = Append(heap, e)
    PROVE  /\ heap' \in Seq(Bucket) /\ Len(heap') = Len(heap) + 1
           /\ heap'[Len(heap) + 1] = e
           /\ \A x \in 1 .. Len(heap) : heap'[x] = heap[x]
BY AppendProperties

-----------------------------------------------------------------------------
(* Every action preserves the invariant.                                   *)

\* At first there is no bucket, and every ideal one is full.
LEMMA InitIInv == Init => IInv
<1> SUFFICES ASSUME Init PROVE IInv
  OBVIOUS
<1> USE DEF Init
<1>1. (CHOOSE c \in Clients : TRUE) \in Clients /\ (CHOOSE p \in Paths : TRUE) \in Paths
  BY CallersAssumption
<1>2. heap \in Seq(Bucket) /\ Len(heap) = 0 /\ 1 .. Len(heap) = {}
  BY EmptySeq
<1>3. \A k \in BucketKeys : /\ strict[k] = LeastFull(k) /\ strict[k] \in Int
                            /\ loose[k] = MostFull(k) /\ loose[k] \in Int
  BY KeyFacts
<1>4. caller \in [Requests -> [client : Clients, path : Paths]]
  BY <1>1
<1>5. rule \in [Requests -> 0 .. Len(Rules)] /\ held \in [Requests -> 0 .. Len(heap)]
  BY <1>2, RulesAssumption
<1>6. strict \in [BucketKeys -> Int] /\ loose \in [BucketKeys -> Int] /\ given \in [BucketKeys -> Nat]
  BY <1>3
<1>7. TypeOK
  BY <1>2, <1>4, <1>5, <1>6 DEF TypeOK
<1>8. Holding /\ Mapped
  BY <1>2 DEF Holding, Mapped
<1>9. Filled /\ Granted
  BY <1>2, <1>3 DEF Filled, Granted
<1>10. QED
  BY <1>7, <1>8, <1>9 DEF IInv

\* Steps that leave the buckets and the map alone keep what is said of them.
LEMMA BucketsStay ==
    ASSUME IInv, UNCHANGED <<limiters, heap, history>>
    PROVE  (Mapped /\ Filled /\ Granted)'
BY DEF IInv, history, Mapped, Filled, Granted, Lacks

\* A request arrives with nothing in hand.
LEMMA ArriveIInv ==
    ASSUME IInv, NEW r \in Requests, Arrive(r)
    PROVE  IInv'
<1> USE DEF IInv, TypeOK
<1>1. PICK c \in Clients, p \in Paths, step \in {"allowed", "rule"} :
         /\ caller' = [caller EXCEPT ![r] = [client |-> c, path |-> p]]
         /\ pc' = [pc EXCEPT ![r] = step]
  BY DEF Arrive, Goto
<1>2. pc[r] = "idle" /\ UNCHANGED <<rule, held, limiters, heap, now, history>>
  BY DEF Arrive
<1>3. TypeOK'
  BY <1>1, <1>2 DEF history
<1>4. Holding'
  BY <1>1, <1>2 DEF Holding, KeyOf
<1>5. QED
  BY <1>2, <1>3, <1>4, BucketsStay

\* Moving on to the next rule touches no bucket.
LEMMA NextRuleIInv ==
    ASSUME IInv, NEW r \in Requests, NextRule(r)
    PROVE  IInv'
<1> USE DEF IInv, TypeOK
<1>1. /\ pc[r] = "rule" /\ rule' \in [Requests -> 0 .. Len(Rules)]
      /\ \A s \in Requests \ {r} : pc'[s] = pc[s] /\ rule'[s] = rule[s]
      /\ pc' \in [Requests -> {"idle", "rule", "find", "touch", "create", "take",
                               "allowed", "denied"}]
      /\ pc'[r] \in {"allowed", "find", "rule"}
      /\ pc'[r] = "find" => rule'[r] \in 1 .. Len(Rules)
      /\ UNCHANGED <<caller, held, limiters, heap, now, history>>
  <2>1. /\ pc[r] = "rule" /\ rule[r] \in 0 .. Len(Rules) /\ Len(Rules) \in Nat
        /\ UNCHANGED <<caller, held, limiters, heap, now, history>>
    BY RulesAssumption DEF NextRule
  <2>2. CASE rule' = rule /\ pc' = [pc EXCEPT ![r] = "allowed"]
    BY <2>1, <2>2
  <2>3. CASE /\ rule[r] < Len(Rules) /\ rule' = [rule EXCEPT ![r] = rule[r] + 1]
             /\ \E step \in {"find", "rule"} : pc' = [pc EXCEPT ![r] = step]
    <3>1. rule[r] + 1 \in 1 .. Len(Rules)
      BY <2>1, <2>3
    <3>2. QED
      BY <2>1, <2>3, <3>1
  <2>4. QED
    BY <2>2, <2>3 DEF NextRule, Goto
<1>2. TypeOK'
  BY <1>1 DEF history
<1>3. Holding'
  BY <1>1 DEF Holding, KeyOf
<1>4. QED
  BY <1>1, <1>2, <1>3, BucketsStay

\* Under RLock: the bucket found is the one in the map.
LEMMA FindIInv ==
    ASSUME IInv, NEW r \in Requests, Find(r)
    PROVE  IInv'
<1> USE DEF IInv, TypeOK
<1>1. /\ pc[r] = "find"
      /\ UNCHANGED <<caller, rule, limiters, heap, now, history>>
  BY DEF Find
<1>2. CASE KeyOf(r) \in DOMAIN limiters
  <2>1. /\ held' = [held EXCEPT ![r] = limiters[KeyOf(r)]]
        /\ pc' = [pc EXCEPT ![r] = "touch"]
        /\ limiters[KeyOf(r)] \in 1 .. Len(heap)
        /\ heap[limiters[KeyOf(r)]].key = KeyOf(r)
    BY <1>2 DEF Find, Goto, Mapped
  <2>2. TypeOK'
    BY <1>1, <2>1 DEF history
  <2>3. Holding'
    BY <1>1, <2>1 DEF Holding, KeyOf
  <2>4. QED
    BY <1>1, <2>2, <2>3, BucketsStay
<1>3. CASE KeyOf(r) \notin DOMAIN limiters
  <2>1. held' = held /\ pc' = [pc EXCEPT ![r] = "create"]
    BY <1>3 DEF Find, Goto
  <2>2. TypeOK'
    BY <1>1, <2>1 DEF history
  <2>3. Holding'
    BY <1>1, <2>1 DEF Holding, KeyOf
  <2>4. QED
    BY <1>1, <2>2, <2>3, BucketsStay
<1>4. QED
  BY <1>2, <1>3

\* Stamping a bucket changes neither its key nor its rule nor its tokens.
LEMMA Stamped ==
    ASSUME IInv, NEW b \in 1 .. Len(heap), heap' = [heap EXCEPT ![b].lastSeen = now]
    PROVE  /\ heap' \in Seq(Bucket) /\ Len(heap') = Len(heap)
           /\ \A x \in 1 .. Len(heap) : /\ heap'[x].key = heap[x].key
                                        /\ heap'[x].rule = heap[x].rule
                                        /\ heap'[x].tokens = heap[x].tokens
<1> DEFINE e == [heap[b] EXCEPT !.lastSeen = now]
<1>1. heap \in Seq(Bucket) /\ now \in Nat
  BY DEF IInv, TypeOK
<1>2. heap[b] \in Bucket
  BY <1>1, ElementOfSeq
<1>3. /\ e \in Bucket /\ e.key = heap[b].key /\ e.rule = heap[b].rule
      /\ e.tokens = heap[b].tokens
  BY <1>1, <1>2 DEF Bucket
<1>4. heap' = [heap EXCEPT ![b] = e]
  OBVIOUS
<1> HIDE DEF e
<1>5. /\ heap' \in Seq(Bucket) /\ Len(heap') = Len(heap) /\ heap'[b] = e
      /\ \A x \in 1 .. Len(heap) : x # b => heap'[x] = heap[x]
  BY <1>1, <1>3, <1>4, HeapExcept
<1>6. QED
  BY <1>3, <1>5

\* So it changes nothing of what is said of the buckets.
LEMMA StampedStays ==
    ASSUME IInv, NEW b \in 1 .. Len(heap), heap' = [heap EXCEPT ![b].lastSeen = now],
           UNCHANGED <<limiters, history>>
    PROVE  (Mapped /\ Filled /\ Granted)'
<1>1. /\ Len(heap') = Len(heap)
      /\ \A x \in 1 .. Len(heap) : /\ heap'[x].key = heap[x].key
                                   /\ heap'[x].rule = heap[x].rule
                                   /\ heap'[x].tokens = heap[x].tokens
  BY Stamped
<1>2. \A x \in 1 .. Len(heap) : Lacks(heap'[x]) = Lacks(heap[x])
  BY <1>1 DEF Lacks
<1>3. \A k \in DOMAIN limiters : limiters[k] \in 1 .. Len(heap)
  BY DEF IInv, TypeOK
<1>4. Mapped'
  BY <1>1, <1>3 DEF IInv, Mapped, history
<1>5. Filled'
  BY <1>1, <1>2 DEF IInv, Filled, history
<1>6. Granted'
  BY <1>2, <1>3 DEF IInv, Granted, history
<1>7. QED
  BY <1>4, <1>5, <1>6

\* Under Lock: the request keeps the bucket it found, in the map or not.
LEMMA TouchIInv ==
    ASSUME IInv, NEW r \in Requests, Touch(r)
    PROVE  IInv'
<1> USE DEF IInv, TypeOK
<1>1. /\ pc[r] = "touch" /\ pc' = [pc EXCEPT ![r] = "take"]
      /\ heap' = [heap EXCEPT ![held[r]].lastSeen = now]
      /\ UNCHANGED <<caller, rule, held, limiters, now, history>>
  BY DEF Touch, Goto
<1>2. held[r] \in 1 .. Len(heap)
  BY <1>1 DEF Holding
<1>3. /\ heap' \in Seq(Bucket) /\ Len(heap') = Len(heap)
      /\ \A x \in 1 .. Len(heap) : heap'[x].key = heap[x].key
  BY <1>1, <1>2, Stamped
<1>4. TypeOK'
  BY <1>1, <1>3 DEF history
<1>5. Holding'
  BY <1>1, <1>3 DEF Holding, KeyOf
<1>6. QED
  BY <1>1, <1>2, <1>4, <1>5, StampedStays

\* Under Lock, the bucket is there by now: it is the one in the map.
LEMMA CreateFoundIInv ==
    ASSUME IInv, NEW r \in Requests, Create(r), KeyOf(r) \in DOMAIN limiters
    PROVE  IInv'
<1> USE DEF IInv, TypeOK
<1> DEFINE b == limiters[KeyOf(r)]
<1>1. /\ pc[r] = "create" /\ pc' = [pc EXCEPT ![r] = "take"]
      /\ held' = [held EXCEPT ![r] = b]
      /\ heap' = [heap EXCEPT ![b].lastSeen = now]
      /\ UNCHANGED <<caller, rule, limiters, now, history>>
  BY DEF Create, Goto
<1>2. b \in 1 .. Len(heap) /\ heap[b].key = KeyOf(r)
  BY DEF Mapped
<1> HIDE DEF b
<1>3. /\ heap' \in Seq(Bucket) /\ Len(heap') = Len(heap)
      /\ \A x \in 1 .. Len(heap) : heap'[x].key = heap[x].key
  BY <1>1, <1>2, Stamped
<1>4. TypeOK'
  BY <1>1, <1>2, <1>3 DEF history
<1>5. Holding'
  BY <1>1, <1>2, <1>3 DEF Holding, KeyOf
<1>6. QED
  BY <1>1, <1>2, <1>4, <1>5, StampedStays

\* Under Lock, there is still none: a full bucket is made and put in the map.
LEMMA CreateNewIInv ==
    ASSUME IInv, NEW r \in Requests, Create(r), KeyOf(r) \notin DOMAIN limiters
    PROVE  IInv'
<1> USE DEF IInv, TypeOK
<1> DEFINE k == KeyOf(r)
           e == [key |-> k, rule |-> rule[r], tokens |-> Full(rule[r]), lastSeen |-> now]
           n == Len(heap) + 1
<1>1. /\ pc[r] = "create" /\ pc' = [pc EXCEPT ![r] = "take"]
      /\ heap' = Append(heap, e)
      /\ limiters' = [x \in DOMAIN limiters \cup {k} |-> IF x = k THEN n ELSE limiters[x]]
      /\ held' = [held EXCEPT ![r] = n]
      /\ UNCHANGED <<caller, rule, now, history>>
  BY DEF Create, NewBucket, Goto
<1>2. rule[r] \in 1 .. Len(Rules) /\ k \in BucketKeys /\ rule[r] \in Sharers(k)
  BY <1>1, KeyOfFacts DEF Holding
<1>3. Full(rule[r]) \in Nat /\ Full(rule[r]) >= LeastFull(k) /\ LeastFull(k) \in Nat
  BY <1>2, KeyFacts
<1>4. e \in Bucket /\ e.key = k /\ e.rule = rule[r] /\ e.tokens = Full(rule[r])
  BY <1>2, <1>3 DEF Bucket
<1>5. /\ heap' \in Seq(Bucket) /\ Len(heap') = n /\ heap'[n] = e
      /\ \A x \in 1 .. Len(heap) : heap'[x] = heap[x]
  BY <1>1, <1>4, HeapAppend
<1>6. \A s \in Requests : KeyOf(s)' = KeyOf(s)
  BY <1>1 DEF KeyOf
<1>7. Len(heap) \in Nat /\ n \in 1 .. n /\ n \notin 1 .. Len(heap)
      /\ 1 .. n = (1 .. Len(heap)) \cup {n}
  BY LenProperties
<1>8. Lacks(heap'[n]) = 0 /\ \A x \in 1 .. Len(heap) : Lacks(heap'[x]) = Lacks(heap[x])
  BY <1>3, <1>4, <1>5 DEF Lacks
<1>9. k \notin DOMAIN limiters
  OBVIOUS
<1> HIDE DEF k, e, n
<1>10. /\ DOMAIN limiters' = DOMAIN limiters \cup {k} /\ limiters'[k] = n
       /\ \A x \in DOMAIN limiters : limiters'[x] = limiters[x] /\ x # k
  BY <1>1, <1>9
<1>11. TypeOK'
  <2>1. held' \in [Requests -> 0 .. Len(heap')]
    BY <1>1, <1>5, <1>7 DEF n
  <2>2. \A x \in DOMAIN limiters' : x \in BucketKeys /\ limiters'[x] \in 1 .. Len(heap')
    BY <1>2, <1>5, <1>7, <1>10
  <2>3. discarded' \subseteq 1 .. Len(heap')
    BY <1>1, <1>5, <1>7 DEF history
  <2>4. QED
    BY <1>1, <1>5, <2>1, <2>2, <2>3 DEF history
<1>12. Holding'
  BY <1>1, <1>2, <1>4, <1>5, <1>6, <1>7 DEF Holding, k
<1>13. Mapped'
  <2>1. discarded' = discarded /\ n \notin discarded
    BY <1>1, <1>7 DEF history
  <2>2. ASSUME NEW x \in DOMAIN limiters'
        PROVE  heap'[limiters'[x]].key = x /\ limiters'[x] \notin discarded'
    <3>1. CASE x = k
      BY <1>4, <1>5, <1>10, <2>1, <3>1
    <3>2. CASE x # k
      <4>1. x \in DOMAIN limiters /\ limiters'[x] = limiters[x] /\ limiters[x] \in 1 .. Len(heap)
        BY <1>10, <3>2
      <4>2. heap[limiters[x]].key = x /\ limiters[x] \notin discarded
        BY <4>1 DEF Mapped
      <4>3. heap'[limiters[x]] = heap[limiters[x]]
        BY <1>5, <4>1
      <4>4. QED
        BY <2>1, <4>1, <4>2, <4>3, Zenon
    <3>3. QED
      BY <3>1, <3>2
  <2>3. ASSUME NEW b \in 1 .. Len(heap'), b \notin discarded'
        PROVE  heap'[b].key \in DOMAIN limiters' /\ limiters'[heap'[b].key] = b
    <3>1. CASE b = n
      BY <1>4, <1>5, <1>10, <3>1
    <3>2. CASE b \in 1 .. Len(heap)
      BY <1>5, <1>10, <2>1, <2>3, <3>2 DEF Mapped
    <3>3. QED
      BY <1>5, <1>7, <3>1, <3>2
  <2>4. QED
    BY <2>2, <2>3 DEF Mapped
<1>14. Filled'
  <2>1. strict' = strict /\ strict[k] \in Int /\ strict[k] <= LeastFull(k)
    BY <1>1, <1>2 DEF Filled, history
  <2>2. 0 <= LeastFull(k) - strict[k]
    BY <1>3, <2>1
  <2>3. ASSUME NEW b \in 1 .. Len(heap')
        PROVE  /\ heap'[b].rule \in Sharers(heap'[b].key)
               /\ heap'[b].tokens >= 0 /\ Lacks(heap'[b]) >= 0
               /\ Lacks(heap'[b]) <= LeastFull(heap'[b].key) - strict[heap'[b].key]
    <3>1. CASE b = n
      BY <1>2, <1>3, <1>4, <1>5, <1>8, <2>2, <3>1
    <3>2. CASE b \in 1 .. Len(heap)
      <4>1. heap'[b] = heap[b]
        BY <1>5, <3>2
      <4>2. QED
        BY <3>2, <4>1 DEF Filled
    <3>3. QED
      BY <1>5, <1>7, <3>1, <3>2
  <2>4. \A x \in BucketKeys : strict[x] <= LeastFull(x)
    BY DEF Filled
  <2>5. QED
    BY <2>1, <2>3, <2>4 DEF Filled
<1>15. Granted'
  <2>1. ASSUME NEW x \in BucketKeys
        PROVE  /\ x \in DOMAIN limiters' =>
                    MostFull(x) - loose[x] <= Lacks(heap'[limiters'[x]]) + given[x]
               /\ x \notin DOMAIN limiters' => MostFull(x) - loose[x] <= given[x]
    <3>1. CASE x = k
      <4>1. x \notin DOMAIN limiters /\ given[x] \in Nat /\ limiters'[x] = n
        BY <1>9, <1>10, <3>1
      <4>2. MostFull(x) - loose[x] <= given[x]
        BY <4>1 DEF Granted
      <4>3. 0 + given[x] = given[x]
        BY <4>1
      <4>4. QED
        BY <1>8, <1>10, <3>1, <4>1, <4>2, <4>3
    <3>2. CASE x # k
      <4>1. x \in DOMAIN limiters' <=> x \in DOMAIN limiters
        BY <1>10, <3>2
      <4>2. x \in DOMAIN limiters => /\ limiters'[x] = limiters[x]
                                     /\ heap'[limiters[x]] = heap[limiters[x]]
        BY <1>5, <1>10
      <4>3. QED
        BY <4>1, <4>2 DEF Granted
    <3>3. QED
      BY <3>1, <3>2
  <2>2. loose' = loose /\ given' = given
    BY <1>1 DEF history
  <2>3. QED
    BY <2>1, <2>2 DEF Granted
<1>16. QED
  BY <1>11, <1>12, <1>13, <1>14, <1>15

\* A bucket with a token less is a bucket.
LEMMA BucketTake ==
    ASSUME NEW e \in Bucket
    PROVE  /\ [e EXCEPT !.tokens = @ - 1] \in Bucket
           /\ [e EXCEPT !.tokens = @ - 1].key = e.key
           /\ [e EXCEPT !.tokens = @ - 1].rule = e.rule
           /\ [e EXCEPT !.tokens = @ - 1].tokens = e.tokens - 1
           /\ e.tokens >= 1 => [e EXCEPT !.tokens = @ - 1].tokens >= 0
           /\ e.tokens \in Int
BY DEF Bucket

\* A token is taken from the bucket in hand and from the ideal ones.
LEMMA TakeIInv ==
    ASSUME IInv, NEW r \in Requests, Take(r)
    PROVE  IInv'
<1> USE DEF IInv, TypeOK
<1> DEFINE b == held[r]
           k == KeyOf(r)
           e == [heap[b] EXCEPT !.tokens = @ - 1]
<1>1. /\ pc[r] = "take" /\ held' = [held EXCEPT ![r] = 0]
      /\ UNCHANGED <<caller, rule, limiters, now, discarded>>
      /\ \A s \in Requests \ {r} : pc'[s] = pc[s] /\ held'[s] = held[s]
      /\ pc' \in [Requests -> {"idle", "rule", "find", "touch", "create", "take",
                               "allowed", "denied"}]
      /\ pc'[r] \in {"rule", "denied"} /\ held'[r] = 0
  BY DEF Take, Goto
<1>2. /\ b \in 1 .. Len(heap) /\ heap[b].key = k
      /\ heap[b] \in Bucket /\ k \in BucketKeys
  <2>1. b \in 1 .. Len(heap) /\ heap[b].key = k
    BY <1>1 DEF Holding
  <2>2. heap[b] \in Bucket
    BY <2>1, ElementOfSeq
  <2>3. QED
    BY <2>1, <2>2 DEF Bucket
<1>3. \A s \in Requests : KeyOf(s)' = KeyOf(s)
  BY <1>1 DEF KeyOf
<1>4. CASE UNCHANGED <<heap, strict, loose, given>>
  <2>1. TypeOK'
    BY <1>1, <1>4
  <2>2. Holding'
    BY <1>1, <1>3, <1>4 DEF Holding
  <2>3. QED
    BY <1>1, <1>4, <2>1, <2>2, BucketsStay DEF history
<1>5. CASE /\ heap[b].tokens >= 1 /\ heap' = [heap EXCEPT ![b].tokens = @ - 1]
           /\ strict' = [strict EXCEPT ![k] = @ - 1]
           /\ loose' = [loose EXCEPT ![k] = @ - 1]
           /\ \/ b \in discarded /\ given' = [given EXCEPT ![k] = @ + 1]
              \/ b \notin discarded /\ given' = given
  <2>1. e \in Bucket /\ e.key = k /\ e.rule = heap[b].rule
        /\ e.tokens = heap[b].tokens - 1 /\ heap[b].tokens \in Int
        /\ e.tokens >= 0
    BY <1>2, <1>5, BucketTake
  <2>2. heap' = [heap EXCEPT ![b] = e]
    BY <1>5
  <2>3. /\ strict[k] \in Int /\ strict'[k] = strict[k] - 1 /\ strict' \in [BucketKeys -> Int]
        /\ loose[k] \in Int /\ loose'[k] = loose[k] - 1 /\ loose' \in [BucketKeys -> Int]
        /\ \A x \in BucketKeys : x # k => strict'[x] = strict[x] /\ loose'[x] = loose[x]
    BY <1>2, <1>5
  <2>4. /\ given[k] \in Nat /\ given' \in [BucketKeys -> Nat]
        /\ b \in discarded => given'[k] = given[k] + 1
        /\ b \notin discarded => given'[k] = given[k]
        /\ \A x \in BucketKeys : x # k => given'[x] = given[x]
    <3>1. CASE b \in discarded /\ given' = [given EXCEPT ![k] = @ + 1]
      BY <1>2, <3>1
    <3>2. CASE b \notin discarded /\ given' = given
      BY <1>2, <3>2
    <3>3. QED
      BY <1>5, <3>1, <3>2
  <2> HIDE DEF b, k, e
  <2>5. /\ heap' \in Seq(Bucket) /\ Len(heap') = Len(heap) /\ heap'[b] = e
        /\ \A x \in 1 .. Len(heap) : x # b => heap'[x] = heap[x]
    BY <1>2, <2>1, <2>2, HeapExcept
  <2>6. \A x \in 1 .. Len(heap) : heap'[x].key = heap[x].key /\ heap'[x].rule = heap[x].rule
    BY <1>2, <2>1, <2>5
  <2>7. Lacks(heap'[b]) = Lacks(heap[b]) + 1 /\ Lacks(heap[b]) \in Int
        /\ \A x \in 1 .. Len(heap) : x # b => Lacks(heap'[x]) = Lacks(heap[x])
    <3>1. Full(heap[b].rule) \in Nat
      BY <1>2, BucketFacts
    <3>3. \A x \in 1 .. Len(heap) : x # b =>
             Full(heap'[x].rule) - heap'[x].tokens = Full(heap[x].rule) - heap[x].tokens
      BY <2>5
    <3>4. Full(heap'[b].rule) - heap'[b].tokens = Full(heap[b].rule) - heap[b].tokens + 1
      BY <2>1, <2>5, <3>1
    <3>5. QED
      BY <2>1, <3>1, <3>3, <3>4 DEF Lacks
  <2>8. TypeOK'
    <3>1. held' \in [Requests -> 0 .. Len(heap')]
      BY <1>1, <2>5, LenProperties
    <3>2. \A x \in DOMAIN limiters' : limiters'[x] \in 1 .. Len(heap')
      BY <1>1, <2>5
    <3>3. /\ pc' \in [Requests -> {"idle", "rule", "find", "touch", "create", "take",
                                   "allowed", "denied"}]
          /\ caller' \in [Requests -> [client : Clients, path : Paths]]
          /\ rule' \in [Requests -> 0 .. Len(Rules)]
          /\ DOMAIN limiters' \subseteq BucketKeys /\ now' \in Nat
      BY <1>1
    <3>4. discarded' \subseteq 1 .. Len(heap')
      BY <1>1, <2>5
    <3>5. QED
      BY <2>3, <2>4, <2>5, <3>1, <3>2, <3>3, <3>4, Zenon
  <2>9. Holding'
    <3>1. ASSUME NEW s \in Requests
          PROVE  /\ pc'[s] \in {"find", "touch", "create", "take"} => rule'[s] \in 1 .. Len(Rules)
                 /\ pc'[s] \in {"touch", "take"} =>
                       held'[s] \in 1 .. Len(heap') /\ heap'[held'[s]].key = KeyOf(s)'
      <4>1. CASE s = r
        BY <1>1, <4>1
      <4>2. CASE s # r
        <5>1. pc'[s] = pc[s] /\ held'[s] = held[s] /\ rule'[s] = rule[s]
          BY <1>1, <4>2
        <5>2. QED
          BY <1>3, <2>5, <2>6, <5>1 DEF Holding
      <4>3. QED
        BY <4>1, <4>2
    <3>2. QED
      BY <3>1 DEF Holding
  <2>10. Mapped'
    BY <1>1, <2>5, <2>6 DEF Mapped
  <2> HIDE DEF IInv, TypeOK
  <2>11. Filled'
    <3>1. ASSUME NEW x \in BucketKeys PROVE strict'[x] <= LeastFull(x)
      <4>1. strict[x] <= LeastFull(x) /\ strict[x] \in Int /\ LeastFull(x) \in Nat
        BY KeyFacts DEF Filled, IInv, TypeOK
      <4>2. CASE x = k
        <5>1. strict'[x] = strict[x] - 1
          BY <2>3, <4>2
        <5>2. QED
          BY <4>1, <5>1
      <4>3. CASE x # k
        BY <2>3, <4>1, <4>3
      <4>4. QED
        BY <4>2, <4>3
    <3>2. ASSUME NEW x \in 1 .. Len(heap)
          PROVE  /\ heap'[x].rule \in Sharers(heap'[x].key)
                 /\ heap'[x].tokens >= 0 /\ Lacks(heap'[x]) >= 0
                 /\ Lacks(heap'[x]) <= LeastFull(heap'[x].key) - strict'[heap'[x].key]
      <4>1. /\ heap[x].rule \in Sharers(heap[x].key) /\ heap[x].key \in BucketKeys
            /\ heap[x].tokens >= 0 /\ Lacks(heap[x]) >= 0 /\ Lacks(heap[x]) \in Int
            /\ Lacks(heap[x]) <= LeastFull(heap[x].key) - strict[heap[x].key]
        BY BucketFacts DEF Filled, IInv
      <4>2. LeastFull(heap[x].key) \in Nat /\ strict[heap[x].key] \in Int
        BY <4>1, KeyFacts DEF IInv, TypeOK
      <4>3. CASE x = b
        <5>1. heap[x].key = k /\ heap'[x].key = k
          BY <1>2, <2>6, <4>3
        <5>2. heap'[x].tokens >= 0
          BY <2>1, <2>5, <4>3
        <5>3. Lacks(heap'[x]) = Lacks(heap[x]) + 1
          BY <2>7, <4>3
        <5>4. heap'[x].rule \in Sharers(heap'[x].key)
          BY <2>6, <4>1
        <5>5. strict'[k] = strict[k] - 1 /\ LeastFull(k) \in Nat /\ strict[k] \in Int
              /\ Lacks(heap[x]) <= LeastFull(k) - strict[k]
          BY <2>3, <4>1, <4>2, <5>1
        <5>6. Lacks(heap'[x]) <= LeastFull(k) - strict'[k] /\ Lacks(heap'[x]) >= 0
          BY <4>1, <5>3, <5>5
        <5>7. QED
          BY <5>1, <5>2, <5>4, <5>6
      <4>4. CASE x # b
        <5>1. Lacks(heap'[x]) = Lacks(heap[x]) /\ heap'[x] = heap[x]
          BY <2>5, <2>7, <4>4
        <5>2. strict'[heap[x].key] <= strict[heap[x].key] /\ strict'[heap[x].key] \in Int
          <6>1. CASE heap[x].key = k
            BY <2>3, <6>1
          <6>2. CASE heap[x].key # k
            BY <2>3, <4>1, <4>2, <6>2
          <6>3. QED
            BY <6>1, <6>2
        <5>3. QED
          BY <4>1, <4>2, <5>1, <5>2
      <4>5. QED
        BY <4>3, <4>4
    <3>3. QED
      BY <2>5, <3>1, <3>2 DEF Filled
  <2>12. Granted'
    <3>1. ASSUME NEW x \in BucketKeys
          PROVE  /\ x \in DOMAIN limiters => MostFull(x) - loose'[x] <= Lacks(heap'[limiters[x]]) + given'[x]
                 /\ x \notin DOMAIN limiters => MostFull(x) - loose'[x] <= given'[x]
      <4>1. /\ MostFull(x) \in Nat /\ loose[x] \in Int /\ given[x] \in Nat
            /\ x \in DOMAIN limiters => MostFull(x) - loose[x] <= Lacks(heap[limiters[x]]) + given[x]
            /\ x \notin DOMAIN limiters => MostFull(x) - loose[x] <= given[x]
        BY KeyFacts DEF Granted, IInv, TypeOK
      <4>2. CASE x # k
        <5>1. x \in DOMAIN limiters => limiters[x] \in 1 .. Len(heap) /\ limiters[x] # b
          BY <1>2, <4>2 DEF Mapped, IInv, TypeOK
        <5>2. QED
          BY <2>3, <2>4, <2>7, <4>1, <4>2, <5>1
      <4>3. CASE x = k /\ b \notin discarded
        <5>1. x \in DOMAIN limiters /\ limiters[x] = b
          BY <1>2, <4>3 DEF Mapped, IInv, TypeOK
        <5>2. /\ loose'[x] = loose[x] - 1 /\ given'[x] = given[x]
              /\ Lacks(heap'[limiters[x]]) = Lacks(heap[limiters[x]]) + 1
              /\ Lacks(heap[limiters[x]]) \in Int
          BY <2>3, <2>4, <2>7, <4>3, <5>1
        <5>3. QED
          BY <4>1, <5>1, <5>2
      <4>4. CASE x = k /\ b \in discarded
        <5>1. x \in DOMAIN limiters =>
                 limiters[x] \in 1 .. Len(heap) /\ limiters[x] # b /\ Lacks(heap[limiters[x]]) \in Int
          BY <4>4, BucketFacts DEF Mapped, IInv, TypeOK
        <5>2. x \in DOMAIN limiters => Lacks(heap'[limiters[x]]) = Lacks(heap[limiters[x]])
          BY <2>7, <5>1
        <5>3. loose'[x] = loose[x] - 1 /\ given'[x] = given[x] + 1
          BY <2>3, <2>4, <4>4
        <5>4. QED
          <6>1. CASE x \in DOMAIN limiters
            <7> DEFINE w == Lacks(heap[limiters[x]])
            <7>1. w \in Int /\ MostFull(x) - loose[x] <= w + given[x]
              BY <4>1, <5>1, <6>1
            <7>2. Lacks(heap'[limiters[x]]) = w
              BY <5>2, <6>1
            <7> HIDE DEF w
            <7>3. MostFull(x) - loose'[x] <= w + given'[x]
              BY <4>1, <5>3, <7>1
            <7>4. QED
              BY <6>1, <7>2, <7>3
          <6>2. CASE x \notin DOMAIN limiters
            BY <4>1, <5>3, <6>2
          <6>3. QED
            BY <6>1, <6>2
      <4>5. QED
        BY <4>2, <4>3, <4>4
    <3>2. QED
      BY <1>1, <3>1 DEF Granted
  <2>13. QED
    BY <2>8, <2>9, <2>10, <2>11, <2>12 DEF IInv
<1>6. QED
  BY <1>4, <1>5 DEF Take

\* Cleanup gives away what the deleted buckets lack.
LEMMA CleanupIInv ==
    ASSUME IInv, Cleanup
    PROVE  IInv'
<1> USE DEF IInv, TypeOK
<1>1. PICK stale \in SUBSET DOMAIN limiters :
         /\ limiters' = [k \in DOMAIN limiters \ stale |-> limiters[k]]
         /\ discarded' = discarded \cup {limiters[k] : k \in stale}
         /\ given' = [k \in BucketKeys |->
                        IF k \in stale THEN given[k] + Lacks(heap[limiters[k]]) ELSE given[k]]
         /\ UNCHANGED <<request, heap, now, strict, loose>>
  <2> DEFINE old == {k \in DOMAIN limiters : heap[limiters[k]].lastSeen < now - CleanupInterval}
  <2>1. /\ limiters' = [k \in DOMAIN limiters \ old |-> limiters[k]]
        /\ discarded' = discarded \cup {limiters[k] : k \in old}
        /\ given' = [k \in BucketKeys |->
                        IF k \in old THEN given[k] + Lacks(heap[limiters[k]]) ELSE given[k]]
        /\ UNCHANGED <<request, heap, now, strict, loose>>
    BY DEF Cleanup, Restrict, Lacks
  <2>2. old \in SUBSET DOMAIN limiters
    OBVIOUS
  <2> HIDE DEF old
  <2>3. QED
    BY <2>1, <2>2
<1>2. \A r \in Requests : KeyOf(r)' = KeyOf(r)
  BY <1>1 DEF KeyOf, request
<1>3. \A k \in DOMAIN limiters : /\ limiters[k] \in 1 .. Len(heap) /\ heap[limiters[k]].key = k
                                 /\ Lacks(heap[limiters[k]]) \in Nat /\ k \in BucketKeys
  <2>1. \A k \in DOMAIN limiters : limiters[k] \in 1 .. Len(heap) /\ heap[limiters[k]].key = k
    BY DEF Mapped
  <2>2. \A k \in DOMAIN limiters : Lacks(heap[limiters[k]]) \in Int /\ Lacks(heap[limiters[k]]) >= 0
    BY <2>1, BucketFacts DEF Filled
  <2>3. QED
    BY <2>1, <2>2
<1>4. given' \in [BucketKeys -> Nat]
  BY <1>1, <1>3
<1>5. discarded' \subseteq 1 .. Len(heap)
  BY <1>1, <1>3
<1>6. TypeOK'
  BY <1>1, <1>4, <1>5 DEF request
<1>7. Holding'
  BY <1>1, <1>2 DEF Holding, request
<1>8. Mapped'
  <2>1. ASSUME NEW k \in DOMAIN limiters \ stale
        PROVE  heap[limiters[k]].key = k /\ limiters[k] \notin discarded'
    <3>1. \A x \in stale : limiters[x] # limiters[k]
      BY <1>3, <2>1
    <3>2. QED
      BY <1>1, <2>1, <3>1 DEF Mapped
  <2>2. ASSUME NEW b \in 1 .. Len(heap), b \notin discarded'
        PROVE  heap[b].key \in DOMAIN limiters \ stale /\ limiters[heap[b].key] = b
    BY <1>1, <2>2 DEF Mapped
  <2>3. QED
    BY <1>1, <2>1, <2>2 DEF Mapped
<1>9. Filled'
  BY <1>1 DEF Filled, Lacks
<1>10. Granted'
  <2>1. ASSUME NEW k \in BucketKeys
        PROVE  /\ k \in DOMAIN limiters' => MostFull(k) - loose[k] <= Lacks(heap[limiters'[k]]) + given'[k]
               /\ k \notin DOMAIN limiters' => MostFull(k) - loose[k] <= given'[k]
    <3>1. /\ k \in DOMAIN limiters => MostFull(k) - loose[k] <= Lacks(heap[limiters[k]]) + given[k]
          /\ k \notin DOMAIN limiters => MostFull(k) - loose[k] <= given[k]
      BY DEF Granted
    <3>2. CASE k \in stale
      <4>1. k \notin DOMAIN limiters' /\ given'[k] = given[k] + Lacks(heap[limiters[k]]) /\ k \in DOMAIN limiters
        BY <1>1, <3>2
      <4>2. given[k] \in Nat /\ Lacks(heap[limiters[k]]) \in Nat
        BY <1>3, <4>1
      <4>3. QED
        BY <3>1, <4>1, <4>2
    <3>3. CASE k \notin stale
      BY <1>1, <3>1, <3>3
    <3>4. QED
      BY <3>2, <3>3
  <2>2. QED
    BY <1>1, <2>1 DEF Granted, Lacks
<1>11. QED
  BY <1>6, <1>7, <1>8, <1>9, <1>10

\* A function on an initial segment is a sequence.
LEMMA FunctionIsSeq ==
    ASSUME NEW S, NEW n \in Nat, NEW f \in [1 .. n -> S]
    PROVE  f \in Seq(S)
BY SeqDef, Zenon

\* Sequences with the same domain have the same length.
LEMMA SameLength ==
    ASSUME NEW a \in Nat, NEW b \in Nat, 1 .. a = 1 .. b
    PROVE  a = b
<1>1. CASE a < b
  BY <1>1, b \in 1 .. b
<1>2. CASE b < a
  BY <1>2, a \in 1 .. a
<1>3. QED
  BY <1>1, <1>2

\* Of two buckets the one that lacks more still does after both have regained,
\* if it regains no faster; what was given away does not matter.
LEMMA Refilling ==
    ASSUME NEW f \in Nat, NEW r \in Nat, NEW t \in Int,
           NEW g \in Nat, NEW q \in Nat, NEW u \in Int, NEW more \in Nat,
           f - t <= g - u + more, q <= r, g - u + more >= 0, t <= f, u <= g
    PROVE  /\ f - MinOf(f, t + r) <= g - MinOf(g, u + q) + more
           /\ MinOf(f, t + r) \in Int /\ f - MinOf(f, t + r) >= 0
           /\ t >= 0 => MinOf(f, t + r) >= 0
           /\ MinOf(g, u + q) \in Int /\ MinOf(g, u + q) <= g
BY DEF MinOf

\* Time refills the buckets and the ideal ones.
LEMMA TickIInv ==
    ASSUME IInv, Tick
    PROVE  IInv'
<1> USE DEF IInv, TypeOK
<1>1. /\ now' = now + 1
      /\ heap' = [b \in DOMAIN heap |->
                    [heap[b] EXCEPT !.tokens = MinOf(Full(heap[b].rule), @ + Regain(heap[b].rule))]]
      /\ strict' = [k \in BucketKeys |-> MinOf(LeastFull(k), strict[k] + LeastRegain(k))]
      /\ loose' = [k \in BucketKeys |-> MinOf(MostFull(k), loose[k] + MostRegain(k))]
      /\ UNCHANGED <<request, limiters, discarded, given>>
  BY DEF Tick
<1>2. ASSUME NEW k \in BucketKeys
      PROVE  /\ strict'[k] \in Int /\ strict'[k] <= LeastFull(k)
             /\ loose'[k] \in Int
  <2>1. /\ LeastFull(k) \in Nat /\ LeastRegain(k) \in Nat /\ strict[k] \in Int
        /\ MostFull(k) \in Nat /\ MostRegain(k) \in Nat /\ loose[k] \in Int
    BY KeyFacts
  <2>2. /\ strict'[k] = MinOf(LeastFull(k), strict[k] + LeastRegain(k))
        /\ loose'[k] = MinOf(MostFull(k), loose[k] + MostRegain(k))
    BY <1>1
  <2>3. QED
    BY <2>1, <2>2 DEF MinOf
<1>3. DOMAIN heap = 1 .. Len(heap) /\ Len(heap) \in Nat
  BY LenProperties
<1>4. ASSUME NEW b \in 1 .. Len(heap)
      PROVE  /\ heap'[b] \in Bucket /\ heap'[b].key = heap[b].key /\ heap'[b].rule = heap[b].rule
             /\ heap'[b].tokens = MinOf(Full(heap[b].rule), heap[b].tokens + Regain(heap[b].rule))
  <2> DEFINE t == MinOf(Full(heap[b].rule), heap[b].tokens + Regain(heap[b].rule))
  <2>1. heap[b] \in Bucket /\ heap[b].tokens \in Int
        /\ Full(heap[b].rule) \in Nat /\ Regain(heap[b].rule) \in Nat
    BY BucketFacts
  <2>2. t \in Int
    BY <2>1 DEF MinOf
  <2>3. heap'[b] = [heap[b] EXCEPT !.tokens = t]
    BY <1>1, <1>3
  <2> HIDE DEF t
  <2>4. QED
    BY <2>1, <2>2, <2>3 DEF Bucket, t
<1>5. heap' \in Seq(Bucket) /\ Len(heap') = Len(heap)
  <2>1. heap' \in [1 .. Len(heap) -> Bucket]
    BY <1>1, <1>3, <1>4
  <2>2. heap' \in Seq(Bucket)
    BY <1>3, <2>1, FunctionIsSeq, Zenon
  <2>3. 1 .. Len(heap') = 1 .. Len(heap) /\ Len(heap') \in Nat
    BY <2>1, <2>2, LenProperties
  <2>4. QED
    BY <1>3, <2>2, <2>3, SameLength
<1>6. \A r \in Requests : KeyOf(r)' = KeyOf(r)
  BY <1>1 DEF KeyOf, request
<1>7. TypeOK'
  BY <1>1, <1>2, <1>5 DEF request
<1>8. (Holding /\ Mapped)'
  BY <1>1, <1>4, <1>5, <1>6, SMTT(30) DEF Holding, Mapped, request
<1>9. ASSUME NEW b \in 1 .. Len(heap)
      PROVE  /\ heap'[b].tokens >= 0 /\ Lacks(heap'[b]) >= 0 /\ Lacks(heap'[b]) \in Int
             /\ Lacks(heap'[b]) <= LeastFull(heap[b].key) - strict'[heap[b].key]
  <2> DEFINE k == heap[b].key  i == heap[b].rule
  <2>1. /\ k \in BucketKeys /\ heap[b].tokens \in Int /\ i \in Sharers(k)
        /\ Full(i) \in Nat /\ Regain(i) \in Nat
        /\ heap[b].tokens >= 0 /\ Lacks(heap[b]) >= 0 /\ Lacks(heap[b]) <= LeastFull(k) - strict[k]
    BY BucketFacts DEF Filled
  <2>2. /\ LeastFull(k) \in Nat /\ LeastRegain(k) \in Nat /\ strict[k] \in Int
        /\ LeastRegain(k) <= Regain(i) /\ strict[k] <= LeastFull(k)
    BY <2>1, KeyFacts DEF Filled
  <2>3. Lacks(heap[b]) = Full(i) - heap[b].tokens
    BY DEF Lacks
  <2>4. strict'[k] = MinOf(LeastFull(k), strict[k] + LeastRegain(k))
    BY <1>1, <2>1
  <2>5. Lacks(heap'[b]) = Full(i) - MinOf(Full(i), heap[b].tokens + Regain(i))
        /\ heap'[b].tokens = MinOf(Full(i), heap[b].tokens + Regain(i))
    BY <1>4 DEF Lacks
  <2> DEFINE f == Full(i)  q == Regain(i)  t == heap[b].tokens
             g == LeastFull(k)  p == LeastRegain(k)  u == strict[k]
  <2>6. /\ f \in Nat /\ q \in Nat /\ t \in Int /\ g \in Nat /\ p \in Nat /\ u \in Int
        /\ f - t <= g - u + 0 /\ p <= q /\ g - u + 0 >= 0 /\ t <= f /\ u <= g /\ t >= 0
    BY <2>1, <2>2, <2>3
  <2>7. Lacks(heap'[b]) = f - MinOf(f, t + q) /\ heap'[b].tokens = MinOf(f, t + q)
        /\ strict'[heap[b].key] = MinOf(g, u + p)
    BY <2>4, <2>5
  <2> HIDE DEF f, q, t, g, p, u
  <2>8. /\ f - MinOf(f, t + q) <= g - MinOf(g, u + p) + 0
        /\ MinOf(f, t + q) \in Int /\ f - MinOf(f, t + q) >= 0
        /\ MinOf(f, t + q) >= 0 /\ MinOf(g, u + p) \in Int
    BY <2>6, Refilling
  <2>9. Lacks(heap'[b]) <= g - strict'[heap[b].key]
    BY <2>6, <2>7, <2>8
  <2>10. QED
    BY <2>6, <2>7, <2>8, <2>9 DEF g
<1>10. Filled'
  <2>1. \A b \in 1 .. Len(heap) : heap[b].rule \in Sharers(heap[b].key)
    BY DEF Filled
  <2>2. QED
    BY <1>2, <1>4, <1>5, <1>9, <2>1 DEF Filled
<1>11. Granted'
  <2>1. ASSUME NEW k \in BucketKeys, k \in DOMAIN limiters
        PROVE  MostFull(k) - loose'[k] <= Lacks(heap'[limiters[k]]) + given[k]
    <3> DEFINE b == limiters[k]  i == heap[b].rule
    <3>1. /\ b \in 1 .. Len(heap) /\ heap[b].key = k /\ heap[b].tokens \in Int /\ i \in Sharers(k)
          /\ Full(i) \in Nat /\ Regain(i) \in Nat /\ Lacks(heap[b]) >= 0
      BY <2>1, BucketFacts DEF Mapped, Filled
    <3>2. /\ MostFull(k) \in Nat /\ MostRegain(k) \in Nat /\ loose[k] \in Int /\ given[k] \in Nat
          /\ Regain(i) <= MostRegain(k)
      BY <3>1, KeyFacts
    <3>3. MostFull(k) - loose[k] <= Lacks(heap[b]) + given[k] /\ Lacks(heap[b]) = Full(i) - heap[b].tokens
      BY <2>1 DEF Granted, Lacks
    <3>4. loose'[k] = MinOf(MostFull(k), loose[k] + MostRegain(k))
      BY <1>1
    <3>5. Lacks(heap'[b]) = Full(i) - MinOf(Full(i), heap[b].tokens + Regain(i))
      <4>1. limiters' = limiters
        BY <1>1
      <4>2. QED
        BY <1>4, <3>1, <4>1 DEF Lacks
    <3> DEFINE f == MostFull(k)  q == MostRegain(k)  t == loose[k]
               g == Full(i)  p == Regain(i)  u == heap[b].tokens  n == given[k]
    <3>6. /\ f \in Nat /\ q \in Nat /\ t \in Int /\ g \in Nat /\ p \in Nat /\ u \in Int /\ n \in Nat
          /\ f - t <= g - u + n /\ p <= q /\ u <= g
      BY <3>1, <3>2, <3>3
    <3>7. loose'[k] = MinOf(f, t + q) /\ Lacks(heap'[b]) = g - MinOf(g, u + p)
      BY <3>4, <3>5
    <3> HIDE DEF f, q, t, g, p, u, n
    <3>8. f - MinOf(f, t + q) <= g - MinOf(g, u + p) + n
      BY <3>6 DEF MinOf
    <3>9. QED
      BY <3>7, <3>8 DEF f, n
  <2>2. ASSUME NEW k \in BucketKeys, k \notin DOMAIN limiters
        PROVE  MostFull(k) - loose'[k] <= given[k]
    <3>1. /\ MostFull(k) \in Nat /\ MostRegain(k) \in Nat /\ loose[k] \in Int /\ given[k] \in Nat
          /\ MostFull(k) - loose[k] <= given[k]
      BY <2>2, KeyFacts DEF Granted
    <3>2. loose'[k] = MinOf(MostFull(k), loose[k] + MostRegain(k))
      BY <1>1
    <3>3. QED
      BY <3>1, <3>2 DEF MinOf
  <2>3. limiters' = limiters /\ given' = given
    BY <1>1
  <2>4. QED
    BY <2>1, <2>2, <2>3 DEF Granted
<1>12. QED
  BY <1>7, <1>8, <1>10, <1>11

-----------------------------------------------------------------------------

\* Every step of the limiter preserves the invariant.
LEMMA NextIInv == IInv /\ [Next]_vars => IInv'
<1> SUFFICES ASSUME IInv, [Next]_vars PROVE IInv'
  OBVIOUS
<1>1. ASSUME NEW r \in Requests, Arrive(r) PROVE IInv'
  BY <1>1, ArriveIInv
<1>2. ASSUME NEW r \in Requests, Step(r) PROVE IInv'
  BY <1>2, NextRuleIInv, FindIInv, TouchIInv, CreateFoundIInv, CreateNewIInv, TakeIInv DEF Step
<1>3. CASE Cleanup
  BY <1>3, CleanupIInv
<1>4. CASE Tick
  BY <1>4, TickIInv
<1>5. CASE UNCHANGED vars
  <2>1. (Mapped /\ Filled /\ Granted)'
    BY <1>5, BucketsStay DEF vars
  <2>2. (TypeOK /\ Holding)'
    BY <1>5 DEF IInv, vars, request, history, TypeOK, Holding, KeyOf
  <2>3. QED
    BY <2>1, <2>2 DEF IInv
<1>6. QED
  BY <1>1, <1>2, <1>3, <1>4, <1>5 DEF Next

\* The invariant of the limiter, for any rules, clients and interleaving.
THEOREM Inductive == Spec => []IInv
<1>1. QED
  BY InitIInv, NextIInv, PTL DEF Spec

\* The variables of the limiter keep their types.
THEOREM TypeCorrect == Spec => []TypeOK
<1>1. IInv => TypeOK
  BY DEF IInv
<1>2. QED
  BY <1>1, Inductive, PTL

\* No bucket ever holds less than the strictest of the rules that share its key
\* would leave: nobody is denied what all of these rules allow.
THEOREM NoOverThrottling == Spec => []NeverOverThrottled
<1>1. ASSUME IInv, NEW b \in 1 .. Len(heap)
      PROVE  heap[b].tokens >= strict[heap[b].key]
  <2>1. /\ heap[b].key \in BucketKeys /\ heap[b].rule \in Sharers(heap[b].key)
        /\ heap[b].tokens \in Int /\ Full(heap[b].rule) \in Nat
    BY <1>1, BucketFacts DEF IInv
  <2>2. LeastFull(heap[b].key) \in Nat /\ LeastFull(heap[b].key) <= Full(heap[b].rule)
    BY <2>1, KeyFacts
  <2>3. strict[heap[b].key] \in Int
    BY <1>1, <2>1 DEF IInv, TypeOK
  <2>4. Full(heap[b].rule) - heap[b].tokens <= LeastFull(heap[b].key) - strict[heap[b].key]
    BY <1>1 DEF IInv, Filled, Lacks
  <2>5. QED
    BY <2>1, <2>2, <2>3, <2>4
<1>2. IInv => NeverOverThrottled
  BY <1>1 DEF NeverOverThrottled
<1>3. QED
  BY <1>2, Inductive, PTL

\* However requests race, a key is granted at most what the loosest of the rules
\* that share it allows, and what cleanup gave away with the buckets it deleted.
THEOREM BurstIsKept == Spec => []GrantsAreBounded
<1>1. ASSUME IInv, NEW k \in BucketKeys
      PROVE  loose[k] + given[k] >= 0
  <2>1. MostFull(k) \in Nat /\ loose[k] \in Int /\ given[k] \in Nat
    BY <1>1, KeyFacts DEF IInv, TypeOK
  <2>2. CASE k \in DOMAIN limiters
    <3> DEFINE b == limiters[k]
    <3>1. b \in 1 .. Len(heap) /\ heap[b].key = k
      BY <1>1, <2>2 DEF IInv, TypeOK, Mapped
    <3>2. /\ heap[b].rule \in Sharers(k) /\ heap[b].tokens \in Int /\ heap[b].tokens >= 0
      BY <1>1, <3>1, BucketFacts DEF IInv, Filled
    <3>3. Full(heap[b].rule) \in Nat /\ Full(heap[b].rule) <= MostFull(k)
      BY <3>2, KeyFacts
    <3>4. MostFull(k) - loose[k] <= Full(heap[b].rule) - heap[b].tokens + given[k]
      BY <1>1, <2>2 DEF IInv, Granted, Lacks
    <3>5. QED
      BY <2>1, <3>2, <3>3, <3>4
  <2>3. CASE k \notin DOMAIN limiters
    <3>1. MostFull(k) - loose[k] <= given[k]
      BY <1>1, <2>3 DEF IInv, Granted
    <3>2. QED
      BY <2>1, <3>1
  <2>4. QED
    BY <2>2, <2>3
<1>2. IInv => GrantsAreBounded
  BY <1>1 DEF GrantsAreBounded
<1>3. QED
  BY <1>2, Inductive, PTL
=============================================================================
