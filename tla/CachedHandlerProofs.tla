------------------------ MODULE CachedHandlerProofs ------------------------
(***************************************************************************)
(* Proofs about CachedHandler, for any number of requests, keys, versions  *)
(* and purges.                                                             *)
(***************************************************************************)
EXTENDS CachedHandler, FiniteSetTheorems, TLAPS

-----------------------------------------------------------------------------
(* The inductive invariant.                                                *)

\* r has an answer in hand that its call will return.
Fetched(r) ==
    pc[r] \in {"read", "set", "stats", "gauge"} \/ (pc[r] = "finish" /\ result[r] # NoEntry)

\* r was handed an answer and has yet to write it to its client.
Handed(r) == pc[r] = "got" /\ result[r] # NoEntry

\* A call that runs for a key is known to the group, and the other way round.
Coalesced ==
    /\ OneFetchPerKey
    /\ WaitersHaveLeader
    /\ \A k \in Keys : flights[k] # NoRequest =>
          pc[flights[k]] \in Leading /\ key(flights[k]) = k

\* While a call is between its double check and Set its key is absent.
Absent ==
    \A r \in Requests : pc[r] \in {"fetch", "read", "set"} => key(r) \notin DOMAIN store

\* Where the entries of the cache, and those on their way to it, come from.
Provenance ==
    /\ \A r \in Requests : pc[r] \notin {"idle", "proxy", "done"} => req[r].cacheable
    /\ \A r \in Requests : pc[r] \in {"read", "set"} => result[r] \in Entry /\ result[r].by = r
    /\ \A r \in Requests : pc[r] = "set" => result[r].class = "public"
    /\ \A k \in DOMAIN store : pc[store[k].by] # "idle"
    /\ OnlyStorableCached

\* How the versions at the origin, in the cache, in hand and seen compare:
\* the origin has the newest,
OriginNewest == \A k \in Keys : seen[k] <= origin[k] /\ floor[k] <= origin[k]

\* the cache has what was seen or newer,
StoreNewerThanSeen ==
    \A k \in DOMAIN store : seen[k] <= store[k].ver /\ store[k].ver <= origin[k]

\* a request knows of nothing newer than what was seen,
RequestsRemember == \A r \in Requests : pc[r] # "idle" => req[r].seen <= seen[key(r)]

\* a call has in hand what was seen or newer, and what is in the cache if it is,
FetchedNewerThanSeen ==
    \A r \in Requests : Fetched(r) =>
        /\ result[r] \in Entry
        /\ seen[key(r)] <= result[r].ver /\ result[r].ver <= origin[key(r)]
        /\ key(r) \in DOMAIN store => store[key(r)].ver = result[r].ver

\* a call that ended handed out what its callers knew or newer, and nothing
\* newer than what has entered the cache since,
HandedNewerThanKnown ==
    \A r \in Requests : Handed(r) =>
        /\ result[r] \in Entry
        /\ req[r].seen <= result[r].ver /\ result[r].ver <= origin[key(r)]
        /\ key(r) \in DOMAIN store => result[r].ver <= store[key(r)].ver

\* nor newer than what the next call for the key has in hand.
HandedOlderThanFetched ==
    \A r, s \in Requests : Handed(r) /\ Fetched(s) /\ key(r) = key(s) =>
        result[r].ver <= result[s].ver

Versions ==
    /\ OriginNewest /\ StoreNewerThanSeen /\ RequestsRemember
    /\ FetchedNewerThanSeen /\ HandedNewerThanKnown /\ HandedOlderThanFetched

Answered ==
    /\ \A r \in Requests : resp[r].status # "none" => pc[r] = "done"
    /\ MonotonicReads

Purged ==
    /\ PurgeHoldsUnlessRaced
    /\ \A r \in Requests : pc[r] \in {"read", "set"} /\ result[r].ver < floor[key(r)] =>
          key(r) \in raced

IInv ==
    /\ TypeOK /\ IsFiniteSet(DOMAIN store)
    /\ Coalesced /\ Absent /\ Provenance /\ Versions /\ Answered /\ Purged

-----------------------------------------------------------------------------
(* The cache.                                                              *)

\* Entries leave the cache, and nothing else happens to it.
Shrunk ==
    /\ DOMAIN store' \subseteq DOMAIN store
    /\ \A k \in DOMAIN store' : store'[k] = store[k]
    /\ store' \in [DOMAIN store' -> Entry]

\* Erasing keys drops them and keeps the others.
LEMMA EraseEffect ==
    ASSUME TypeOK, NEW S, Cache!Erase(S)
    PROVE  Shrunk /\ DOMAIN store' = DOMAIN store \ S
<1>1. store' = [k \in DOMAIN store \ S |-> store[k]]
  BY DEF Cache!Erase, Cache!Restrict
<1>2. store \in [DOMAIN store -> Entry]
  BY DEF TypeOK
<1>3. QED
  BY <1>1, <1>2 DEF Shrunk

\* A lookup leaves a usable entry alone and drops an expired one.
LEMMA ReadEffect ==
    ASSUME TypeOK, NEW k \in Keys, Cache!Read(k)
    PROVE  /\ Shrunk
           /\ Cache!Fresh(k) => store' = store /\ k \in DOMAIN store
           /\ ~Cache!Fresh(k) => k \notin DOMAIN store'
<1>1. CASE Cache!Fresh(k)
  <2>1. Cache!Erase({})
    BY <1>1 DEF Cache!Read
  <2>2. store' = [x \in DOMAIN store |-> store[x]]
    BY <2>1 DEF Cache!Erase, Cache!Restrict
  <2>3. store' = store
    BY <2>2 DEF TypeOK
  <2>4. QED
    BY <1>1, <2>1, <2>3, EraseEffect DEF Cache!Fresh
<1>2. CASE ~Cache!Fresh(k)
  <2>1. Cache!Erase({k})
    BY <1>2 DEF Cache!Read
  <2>2. QED
    BY <1>2, <2>1, EraseEffect
<1>3. QED
  BY <1>1, <1>2

\* Set stores the entry under its key, whatever else it drops.
LEMMA WriteEffect ==
    ASSUME TypeOK, IsFiniteSet(DOMAIN store), NEW k \in Keys, NEW e \in Entry, Cache!Write(k, e)
    PROVE  /\ k \in DOMAIN store' /\ store'[k] = e
           /\ DOMAIN store' \subseteq DOMAIN store \cup {k}
           /\ \A x \in DOMAIN store' \ {k} : store'[x] = store[x]
           /\ store' \in [DOMAIN store' -> Entry]
           /\ IsFiniteSet(DOMAIN store')
<1>1. PICK kept \in SUBSET (DOMAIN store \ {k}) :
         store' = [x \in kept \cup {k} |-> IF x = k THEN e ELSE store[x]]
  BY Zenon DEF Cache!Write
<1>2. store \in [DOMAIN store -> Entry]
  BY DEF TypeOK
<1>3. IsFiniteSet(kept \cup {k})
  <2>1. IsFiniteSet(kept)
    BY FS_Subset
  <2>2. QED
    BY <2>1, FS_AddElement
<1>4. QED
  BY <1>1, <1>2, <1>3

\* The larger of two versions, when it is known which is.
LEMMA MaxIs ==
    ASSUME NEW a \in Nat, NEW b \in Nat, b <= a
    PROVE  (IF a > b THEN a ELSE b) = a
OBVIOUS

-----------------------------------------------------------------------------
(* Every action preserves the invariant.                                   *)

\* Nothing is in progress at first.
LEMMA InitIInv == Init => IInv
<1> SUFFICES ASSUME Init PROVE IInv
  OBVIOUS
<1> USE RequestsAssumption DEF Init, key
<1>1. DOMAIN store = {} /\ store \in [{} -> Entry]
  OBVIOUS
<1>2. TypeOK
  BY <1>1 DEF TypeOK, Steps
<1>3. IsFiniteSet(DOMAIN store)
  BY <1>1, FS_EmptySet
<1>4. Coalesced /\ Absent
  BY <1>1 DEF Coalesced, OneFetchPerKey, WaitersHaveLeader, Absent, Leading
<1>5. Provenance
  BY <1>1 DEF Provenance, OnlyStorableCached
<1>6. Versions
  BY <1>1 DEF Versions, OriginNewest, StoreNewerThanSeen, RequestsRemember, FetchedNewerThanSeen,
         HandedNewerThanKnown, HandedOlderThanFetched, Fetched, Handed
<1>7. Answered /\ Purged
  BY <1>1 DEF Answered, Purged, MonotonicReads, PurgeHoldsUnlessRaced
<1>8. QED
  BY <1>2, <1>3, <1>4, <1>5, <1>6, <1>7 DEF IInv

\* A request that arrives knows what was seen and purged before it.
LEMMA ArriveIInv ==
    ASSUME IInv, NEW r \in Requests, Arrive(r)
    PROVE  IInv'
<1> USE DEF IInv, TypeOK, key
<1>1. PICK k \in Keys, m \in Methods, c \in BOOLEAN :
         /\ req' = [req EXCEPT ![r] = [key |-> k, method |-> m, cacheable |-> c,
                                       seen |-> seen[k]]]
         /\ pc' = [pc EXCEPT ![r] = IF c THEN "lookup" ELSE "proxy"]
  BY DEF Arrive, Goto
<1>2. /\ pc[r] = "idle"
      /\ UNCHANGED <<result, resp, snap, flights, store, gauge, origin, now, history>>
  BY DEF Arrive
<1> USE <1>1, <1>2 DEF history
<1>3. TypeOK'
  BY DEF Steps, Request
<1>4. IsFiniteSet(DOMAIN store)'
  OBVIOUS
<1>5. Coalesced' /\ Absent'
  BY RequestsAssumption DEF Coalesced, OneFetchPerKey, WaitersHaveLeader, Absent, Leading
<1>6. Provenance'
  BY DEF Provenance, OnlyStorableCached, Entry
<1>7. Versions'
  BY DEF Versions, OriginNewest, StoreNewerThanSeen, RequestsRemember, FetchedNewerThanSeen,
         HandedNewerThanKnown, HandedOlderThanFetched, Fetched, Handed
<1>8. Answered' /\ Purged'
  BY DEF Answered, Purged, MonotonicReads, PurgeHoldsUnlessRaced
<1>9. QED
  BY <1>3, <1>4, <1>5, <1>6, <1>7, <1>8

\* The count that Stats returns is a natural number.
LEMMA ReadStatsIInv ==
    ASSUME IInv, NEW r \in Requests, ReadStats(r)
    PROVE  IInv'
<1> USE DEF IInv, TypeOK, key
<1>1. /\ pc[r] = "stats" /\ pc' = [pc EXCEPT ![r] = "gauge"]
      /\ snap' = [snap EXCEPT ![r] = Cardinality(DOMAIN store)]
      /\ UNCHANGED <<req, result, resp, flights, store, gauge, origin, now, history>>
  BY DEF ReadStats, Goto
<1> USE <1>1 DEF history
<1>2. TypeOK'
  BY FS_CardinalityType DEF Steps, Leading
<1>3. IsFiniteSet(DOMAIN store)'
  OBVIOUS
<1>4. Coalesced'
  BY DEF Coalesced, OneFetchPerKey, WaitersHaveLeader, Leading
<1>5. Absent'
  BY DEF Absent, Coalesced, OneFetchPerKey, Leading
<1>6. Provenance'
  BY DEF Provenance, OnlyStorableCached, Entry
<1>7. Versions'
  BY DEF Versions, OriginNewest, StoreNewerThanSeen, RequestsRemember, FetchedNewerThanSeen,
         HandedNewerThanKnown, HandedOlderThanFetched, Fetched, Handed
<1>8. Answered'
  BY DEF Answered, MonotonicReads
<1>9. Purged'
  BY DEF Purged, PurgeHoldsUnlessRaced
<1>10. QED
  BY <1>2, <1>3, <1>4, <1>5, <1>6, <1>7, <1>8, <1>9

\* The gauge is set from the copy.
LEMMA SetGaugeIInv ==
    ASSUME IInv, NEW r \in Requests, SetGauge(r)
    PROVE  IInv'
<1> USE DEF IInv, TypeOK, key
<1>1. /\ pc[r] = "gauge" /\ pc' = [pc EXCEPT ![r] = "finish"]
      /\ gauge' = snap[r] /\ snap' = [snap EXCEPT ![r] = 0]
      /\ UNCHANGED <<req, result, resp, flights, store, origin, now, history>>
  BY DEF SetGauge, Goto
<1> USE <1>1 DEF history
<1>2. TypeOK'
  BY DEF Steps, Leading, Entry
<1>3. IsFiniteSet(DOMAIN store)'
  OBVIOUS
<1>4. Coalesced'
  BY DEF Coalesced, OneFetchPerKey, WaitersHaveLeader, Leading
<1>5. Absent'
  BY DEF Absent, Coalesced, OneFetchPerKey, Leading
<1>6. Provenance'
  BY DEF Provenance, OnlyStorableCached, Entry
<1>7. Versions'
  BY DEF Versions, OriginNewest, StoreNewerThanSeen, RequestsRemember, FetchedNewerThanSeen,
         HandedNewerThanKnown, HandedOlderThanFetched, Fetched, Handed
<1>8. Answered'
  BY DEF Answered, MonotonicReads
<1>9. Purged'
  BY DEF Purged, PurgeHoldsUnlessRaced
<1>10. QED
  BY <1>2, <1>3, <1>4, <1>5, <1>6, <1>7, <1>8, <1>9

\* A miss may drop an expired entry.
LEMMA LookupMissIInv ==
    ASSUME IInv, NEW r \in Requests, LookupMiss(r)
    PROVE  IInv'
<1> USE DEF IInv, TypeOK, key
<1>1. /\ pc[r] = "lookup" /\ pc' = [pc EXCEPT ![r] = "join"]
      /\ Cache!Read(key(r)) /\ ~Cache!Fresh(key(r))
      /\ UNCHANGED <<req, result, resp, snap, flights, gauge, origin, now, history>>
  BY DEF LookupMiss, Goto
<1>2. Shrunk
  BY <1>1, ReadEffect DEF Request
<1> USE <1>1, <1>2 DEF history
<1>3. TypeOK'
  BY DEF Steps, Shrunk
<1>4. IsFiniteSet(DOMAIN store)'
  BY FS_Subset DEF Shrunk
<1>5. Coalesced'
  BY DEF Coalesced, OneFetchPerKey, WaitersHaveLeader, Leading
<1>6. Absent'
  BY DEF Absent, Shrunk
<1>7. Provenance'
  BY DEF Provenance, OnlyStorableCached, Entry, Shrunk
<1>8. Versions'
  BY DEF Versions, OriginNewest, StoreNewerThanSeen, RequestsRemember, FetchedNewerThanSeen,
         HandedNewerThanKnown, HandedOlderThanFetched, Fetched, Handed, Shrunk
<1>9. Answered'
  BY DEF Answered, MonotonicReads
<1>10. Purged'
  BY DEF Purged, PurgeHoldsUnlessRaced, Shrunk
<1>11. QED
  BY <1>3, <1>4, <1>5, <1>6, <1>7, <1>8, <1>9, <1>10

\* After the double check the key is not in the cache.
LEMMA CheckMissIInv ==
    ASSUME IInv, NEW r \in Requests, CheckMiss(r)
    PROVE  IInv'
<1> USE DEF IInv, TypeOK, key
<1>1. /\ pc[r] = "check" /\ pc' = [pc EXCEPT ![r] = "fetch"]
      /\ Cache!Read(key(r)) /\ ~Cache!Fresh(key(r))
      /\ UNCHANGED <<req, result, resp, snap, flights, gauge, origin, now, history>>
  BY DEF CheckMiss, Goto
<1>2. Shrunk /\ key(r) \notin DOMAIN store'
  BY <1>1, ReadEffect DEF Request
<1> USE <1>1, <1>2 DEF history
<1>3. TypeOK'
  BY DEF Steps, Leading, Shrunk
<1>4. IsFiniteSet(DOMAIN store)'
  BY FS_Subset DEF Shrunk
<1>5. Coalesced'
  BY DEF Coalesced, OneFetchPerKey, WaitersHaveLeader, Leading
<1>6. Absent'
  BY DEF Absent, Shrunk
<1>7. Provenance'
  BY DEF Provenance, OnlyStorableCached, Entry, Shrunk
<1>8. Versions'
  BY DEF Versions, OriginNewest, StoreNewerThanSeen, RequestsRemember, FetchedNewerThanSeen,
         HandedNewerThanKnown, HandedOlderThanFetched, Fetched, Handed, Shrunk
<1>9. Answered'
  BY DEF Answered, MonotonicReads
<1>10. Purged'
  BY DEF Purged, PurgeHoldsUnlessRaced, Shrunk
<1>11. QED
  BY <1>3, <1>4, <1>5, <1>6, <1>7, <1>8, <1>9, <1>10

\* The double check returns the entry that another call stored.
LEMMA CheckHitIInv ==
    ASSUME IInv, NEW r \in Requests, CheckHit(r)
    PROVE  IInv'
<1> USE DEF IInv, TypeOK, key
<1>1. /\ pc[r] = "check" /\ pc' = [pc EXCEPT ![r] = "finish"]
      /\ Cache!Read(key(r)) /\ Cache!Fresh(key(r))
      /\ result' = [result EXCEPT ![r] = store[key(r)]]
      /\ UNCHANGED <<req, resp, snap, flights, gauge, origin, now, history>>
  BY DEF CheckHit, Goto
<1>2. store' = store /\ key(r) \in DOMAIN store
  BY <1>1, ReadEffect DEF Request
<1> USE <1>1, <1>2 DEF history
<1>3. TypeOK'
  BY DEF Steps, Leading, Entry
<1>4. IsFiniteSet(DOMAIN store)'
  OBVIOUS
<1>5. Coalesced'
  BY DEF Coalesced, OneFetchPerKey, WaitersHaveLeader, Leading
<1>6. Absent'
  BY DEF Absent, Coalesced, OneFetchPerKey, Leading
<1>7. Provenance'
  BY DEF Provenance, OnlyStorableCached, Entry
<1>8. Versions'
  BY DEF Versions, OriginNewest, StoreNewerThanSeen, RequestsRemember, FetchedNewerThanSeen,
         HandedNewerThanKnown, HandedOlderThanFetched, Fetched, Handed
<1>9. Answered'
  BY DEF Answered, MonotonicReads
<1>10. Purged'
  BY DEF Purged, PurgeHoldsUnlessRaced
<1>11. QED
  BY <1>3, <1>4, <1>5, <1>6, <1>7, <1>8, <1>9, <1>10

\* An answer that goes round the cache touches nothing else.
LEMMA ProxyIInv ==
    ASSUME IInv, NEW r \in Requests, Proxy(r)
    PROVE  IInv'
<1> USE DEF IInv, TypeOK, key
<1>1. PICK e \in Entry \cup {NoEntry} :
         /\ resp' = [resp EXCEPT ![r] = [status |-> "BYPASS", entry |-> e]]
         /\ pc' = [pc EXCEPT ![r] = "done"]
  BY DEF Proxy, Reply, Goto, Answer, Entry, Request
<1>2. pc[r] = "proxy" /\ UNCHANGED <<req, result, snap, flights, store, gauge, origin, now, history>>
  BY DEF Proxy
<1> USE <1>1, <1>2 DEF history
<1>3. TypeOK'
  BY DEF Steps, Leading, Entry
<1>4. IsFiniteSet(DOMAIN store)'
  OBVIOUS
<1>5. Coalesced'
  BY RequestsAssumption DEF Coalesced, OneFetchPerKey, WaitersHaveLeader, Leading
<1>6. Absent'
  BY DEF Absent, Coalesced, OneFetchPerKey, Leading
<1>7. Provenance'
  BY DEF Provenance, OnlyStorableCached, Entry
<1>8. Versions'
  BY DEF Versions, OriginNewest, StoreNewerThanSeen, RequestsRemember, FetchedNewerThanSeen,
         HandedNewerThanKnown, HandedOlderThanFetched, Fetched, Handed
<1>9. Answered'
  BY DEF Answered, MonotonicReads
<1>10. Purged'
  BY DEF Purged, PurgeHoldsUnlessRaced
<1>11. QED
  BY <1>3, <1>4, <1>5, <1>6, <1>7, <1>8, <1>9, <1>10

\* A hit shows a version that is not older than what was seen.
LEMMA LookupHitIInv ==
    ASSUME IInv, NEW r \in Requests, LookupHit(r)
    PROVE  IInv'
<1> USE DEF IInv, TypeOK, key
<1>1. /\ pc[r] = "lookup" /\ pc' = [pc EXCEPT ![r] = "done"]
      /\ Cache!Read(key(r)) /\ Cache!Fresh(key(r))
      /\ resp' = [resp EXCEPT ![r] = [status |-> "HIT", entry |-> store[key(r)]]]
      /\ seen' = [seen EXCEPT ![key(r)] = IF store[key(r)].ver > @ THEN store[key(r)].ver ELSE @]
      /\ UNCHANGED <<req, result, snap, flights, gauge, origin, now, floor, raced>>
  BY DEF LookupHit, Reply, Goto, Witnessed
<1>2. store' = store /\ key(r) \in DOMAIN store
  BY <1>1, ReadEffect DEF Request
<1>3. /\ key(r) \in Keys /\ store[key(r)] \in Entry /\ store[key(r)].ver \in Nat
      /\ seen[key(r)] \in Nat
  BY <1>1, <1>2 DEF Request, Entry
<1>4. /\ seen[key(r)] <= store[key(r)].ver /\ req[r].seen <= seen[key(r)]
      /\ req[r].seen \in Nat
  BY <1>1, <1>2, <1>3 DEF Versions, StoreNewerThanSeen, RequestsRemember, Request
<1>5. (IF store[key(r)].ver > seen[key(r)] THEN store[key(r)].ver ELSE seen[key(r)])
        = store[key(r)].ver
  BY <1>3, <1>4, MaxIs
<1>6. seen' = [seen EXCEPT ![key(r)] = store[key(r)].ver]
  BY <1>1, <1>5
<1> USE <1>1, <1>2, <1>3, <1>4, <1>5, <1>6 DEF history
<1>7. TypeOK'
  BY DEF Steps
<1>8. IsFiniteSet(DOMAIN store)'
  OBVIOUS
<1>9. Coalesced'
  BY DEF Coalesced, OneFetchPerKey, WaitersHaveLeader, Leading
<1>10. Absent'
  BY DEF Absent, Coalesced, OneFetchPerKey, Leading
<1>11. Provenance'
  BY DEF Provenance, OnlyStorableCached, Entry
<1>12. Versions'
  <2> USE DEF Versions
  <2>1. OriginNewest'
    BY DEF OriginNewest, Fetched, Handed, StoreNewerThanSeen
  <2>2. StoreNewerThanSeen'
    BY DEF StoreNewerThanSeen, Fetched, Handed
  <2>3. RequestsRemember'
    BY DEF RequestsRemember, Fetched, Handed, StoreNewerThanSeen, Request
  <2>4. FetchedNewerThanSeen'
    BY DEF FetchedNewerThanSeen, Fetched, Handed, Entry
  <2>5. HandedNewerThanKnown'
    BY DEF HandedNewerThanKnown, Fetched, Handed
  <2>6. HandedOlderThanFetched'
    BY DEF HandedOlderThanFetched, Fetched, Handed
  <2>7. QED
    BY <2>1, <2>2, <2>3, <2>4, <2>5, <2>6
<1>13. Answered'
  BY DEF Answered, MonotonicReads
<1>14. Purged'
  BY DEF Purged, PurgeHoldsUnlessRaced
<1>15. QED
  BY <1>7, <1>8, <1>9, <1>10, <1>11, <1>12, <1>13, <1>14

\* A request that joins waits for the call that runs, or runs it.
LEMMA JoinIInv ==
    ASSUME IInv, NEW r \in Requests, Join(r)
    PROVE  IInv'
<1> USE DEF IInv, TypeOK, key
<1>1. /\ pc[r] = "join"
      /\ UNCHANGED <<req, result, resp, snap, store, gauge, origin, now, history>>
  BY DEF Join
<1>2. \/ /\ flights[key(r)] # NoRequest /\ flights' = flights
         /\ pc' = [pc EXCEPT ![r] = "wait"]
      \/ /\ flights[key(r)] = NoRequest /\ flights' = [flights EXCEPT ![key(r)] = r]
         /\ pc' = [pc EXCEPT ![r] = "check"]
  BY DEF Join, Goto
<1>3. key(r) \in Keys
  BY <1>1 DEF Request
<1> USE <1>1, <1>2, <1>3 DEF history
<1>4. TypeOK'
  BY DEF Steps, Leading, Entry
<1>5. IsFiniteSet(DOMAIN store)'
  OBVIOUS
<1>6. Coalesced'
  <2> USE DEF Coalesced, OneFetchPerKey, WaitersHaveLeader, Leading
  <2>1. CASE flights[key(r)] # NoRequest
    <3>1. pc[flights[key(r)]] \in Leading /\ key(flights[key(r)]) = key(r)
      BY <2>1
    <3>2. OneFetchPerKey'
      BY <2>1
    <3>3. WaitersHaveLeader'
      BY <2>1, <3>1 DEF Request
    <3>4. (\A k \in Keys : flights[k] # NoRequest =>
             pc[flights[k]] \in Leading /\ key(flights[k]) = k)'
      BY <2>1
    <3>5. QED
      BY <3>2, <3>3, <3>4
  <2>2. CASE flights[key(r)] = NoRequest
    <3>1. \A s \in Requests : pc[s] \in Leading \cup {"wait"} => s # r /\ key(s) # key(r)
      BY <2>2, RequestsAssumption
    <3>2. OneFetchPerKey'
      BY <2>2, <3>1 DEF Request
    <3>3. WaitersHaveLeader'
      BY <2>2, <3>1, RequestsAssumption, SMTT(30) DEF Request
    <3>4. (\A k \in Keys : flights[k] # NoRequest =>
             pc[flights[k]] \in Leading /\ key(flights[k]) = k)'
      BY <2>2, RequestsAssumption
    <3>5. QED
      BY <3>2, <3>3, <3>4
  <2>3. QED
    BY <2>1, <2>2
<1>7. Absent'
  BY DEF Absent, Coalesced, OneFetchPerKey, Leading
<1>8. Provenance'
  BY DEF Provenance, OnlyStorableCached, Entry
<1>9. Versions'
  <2> USE DEF Versions
  <2>1. OriginNewest'
    BY DEF OriginNewest, Fetched, Handed
  <2>2. StoreNewerThanSeen'
    BY DEF StoreNewerThanSeen, Fetched, Handed
  <2>3. RequestsRemember'
    BY DEF RequestsRemember, Fetched, Handed
  <2>4. FetchedNewerThanSeen'
    BY DEF FetchedNewerThanSeen, Fetched, Handed
  <2>5. HandedNewerThanKnown'
    BY DEF HandedNewerThanKnown, Fetched, Handed
  <2>6. HandedOlderThanFetched'
    BY ZenonT(40) DEF HandedOlderThanFetched, Fetched, Handed
  <2>7. QED
    BY <2>1, <2>2, <2>3, <2>4, <2>5, <2>6
<1>10. Answered'
  BY DEF Answered, MonotonicReads
<1>11. Purged'
  BY DEF Purged, PurgeHoldsUnlessRaced
<1>12. QED
  BY <1>4, <1>5, <1>6, <1>7, <1>8, <1>9, <1>10, <1>11

\* The answer handed over is not older than what the request knew.
LEMMA RespondIInv ==
    ASSUME IInv, NEW r \in Requests, Respond(r)
    PROVE  IInv'
<1> USE DEF IInv, TypeOK, key
<1>1. /\ pc[r] = "got" /\ pc' = [pc EXCEPT ![r] = "done"]
      /\ result' = [result EXCEPT ![r] = NoEntry]
      /\ UNCHANGED <<req, snap, flights, store, gauge, origin, now, floor, raced>>
  BY DEF Respond, Reply, Goto
<1>2. \/ /\ result[r] = NoEntry /\ seen' = seen
         /\ resp' = [resp EXCEPT ![r] = [status |-> "502", entry |-> NoEntry]]
      \/ /\ result[r] # NoEntry
         /\ resp' = [resp EXCEPT ![r] = [status |-> "MISS", entry |-> result[r]]]
         /\ seen' = [seen EXCEPT ![key(r)] = IF result[r].ver > @ THEN result[r].ver ELSE @]
  BY DEF Respond, Reply, Witnessed
<1>3. key(r) \in Keys /\ (result[r] # NoEntry => result[r] \in Entry /\ result[r].ver \in Nat)
  BY <1>1 DEF Request, Entry
<1>4. \A k \in Keys :
         /\ seen'[k] \in Nat /\ seen[k] <= seen'[k]
         /\ seen'[k] = seen[k] \/ (k = key(r) /\ Handed(r) /\ seen'[k] = result[r].ver)
  BY <1>1, <1>2, <1>3 DEF Handed
<1>5. result[r] # NoEntry => req[r].seen <= result[r].ver
  BY <1>1 DEF Versions, HandedNewerThanKnown, Handed
<1> USE <1>1, <1>2, <1>3, <1>4, <1>5 DEF history
<1>6. TypeOK'
  BY DEF Steps
<1>7. IsFiniteSet(DOMAIN store)'
  OBVIOUS
<1>8. Coalesced'
  BY RequestsAssumption DEF Coalesced, OneFetchPerKey, WaitersHaveLeader, Leading
<1>9. Absent'
  BY DEF Absent, Coalesced, OneFetchPerKey, Leading
<1>10. Provenance'
  BY DEF Provenance, OnlyStorableCached, Entry
<1>11. Versions'
  <2> USE DEF Versions
  <2>1. OriginNewest'
    BY DEF OriginNewest, Fetched, Handed, HandedNewerThanKnown, Entry
  <2>2. StoreNewerThanSeen'
    BY DEF StoreNewerThanSeen, Fetched, Handed, HandedNewerThanKnown, Entry
  <2>3. RequestsRemember'
    BY DEF RequestsRemember, Fetched, Handed, Request
  <2>4. FetchedNewerThanSeen'
    BY DEF FetchedNewerThanSeen, Fetched, Handed, HandedOlderThanFetched, Entry, Request
  <2>5. HandedNewerThanKnown'
    BY DEF HandedNewerThanKnown, Fetched, Handed
  <2>6. HandedOlderThanFetched'
    BY DEF HandedOlderThanFetched, Fetched, Handed
  <2>7. QED
    BY <2>1, <2>2, <2>3, <2>4, <2>5, <2>6
<1>12. Answered'
  <2>1. (\A s \in Requests : resp[s].status # "none" => pc[s] = "done")'
    BY DEF Answered
  <2>2. ASSUME NEW s \in Requests, resp'[s].status \in {"HIT", "MISS"}
        PROVE  resp'[s].entry.ver >= req[s].seen
    <3>1. CASE s # r
      BY <2>2, <3>1 DEF Answered, MonotonicReads
    <3>2. CASE s = r
      <4>1. result[r] # NoEntry /\ resp'[r].entry = result[r]
        BY <2>2, <3>2
      <4>2. result[r].ver >= req[r].seen
        BY <4>1 DEF Request
      <4>3. QED
        BY <3>2, <4>1, <4>2
    <3>3. QED
      BY <3>1, <3>2
  <2>3. QED
    BY <2>1, <2>2 DEF Answered, MonotonicReads
<1>13. Purged'
  BY DEF Purged, PurgeHoldsUnlessRaced
<1>14. QED
  BY <1>6, <1>7, <1>8, <1>9, <1>10, <1>11, <1>12, <1>13

\* The origin answers with its current version.
LEMMA FetchIInv ==
    ASSUME IInv, NEW r \in Requests, Fetch(r)
    PROVE  IInv'
<1> USE DEF IInv, TypeOK, key
<1>1. PICK c \in Classes : result' = [result EXCEPT ![r] = Answer(r, c)]
  BY DEF Fetch
<1>2. /\ pc[r] = "fetch" /\ pc' = [pc EXCEPT ![r] = "read"]
      /\ UNCHANGED <<req, resp, snap, flights, store, gauge, origin, now, history>>
  BY DEF Fetch, Goto
<1>3. /\ key(r) \in Keys /\ Answer(r, c) \in Entry
      /\ Answer(r, c).ver = origin[key(r)] /\ Answer(r, c).by = r
  BY <1>2 DEF Request, Entry, Answer
<1> USE <1>1, <1>2, <1>3 DEF history
<1>4. TypeOK'
  BY DEF Steps, Leading
<1>5. IsFiniteSet(DOMAIN store)'
  OBVIOUS
<1>6. Coalesced'
  BY DEF Coalesced, OneFetchPerKey, WaitersHaveLeader, Leading
<1>7. Absent'
  BY DEF Absent, Coalesced, OneFetchPerKey, Leading
<1>8. Provenance'
  BY DEF Provenance, OnlyStorableCached, Entry
<1>9. Versions'
  BY DEF Versions, OriginNewest, StoreNewerThanSeen, RequestsRemember, FetchedNewerThanSeen,
         HandedNewerThanKnown, HandedOlderThanFetched, Fetched, Handed, Absent
<1>10. Answered'
  BY DEF Answered, MonotonicReads
<1>11. Purged'
  BY DEF Purged, PurgeHoldsUnlessRaced, Versions, OriginNewest
<1>12. QED
  BY <1>4, <1>5, <1>6, <1>7, <1>8, <1>9, <1>10, <1>11

\* A failed fetch leaves an error in hand.
LEMMA FetchFailsIInv ==
    ASSUME IInv, NEW r \in Requests, FetchFails(r)
    PROVE  IInv'
<1> USE DEF IInv, TypeOK, key
<1>1. /\ pc[r] \in {"fetch", "read"} /\ pc' = [pc EXCEPT ![r] = "finish"]
      /\ result' = [result EXCEPT ![r] = NoEntry]
      /\ UNCHANGED <<req, resp, snap, flights, store, gauge, origin, now, history>>
  BY DEF FetchFails, Goto
<1> USE <1>1 DEF history
<1>2. TypeOK'
  BY DEF Steps, Leading, Entry
<1>3. IsFiniteSet(DOMAIN store)'
  OBVIOUS
<1>4. Coalesced'
  BY DEF Coalesced, OneFetchPerKey, WaitersHaveLeader, Leading
<1>5. Absent'
  BY DEF Absent, Coalesced, OneFetchPerKey, Leading
<1>6. Provenance'
  BY DEF Provenance, OnlyStorableCached, Entry
<1>7. Versions'
  BY DEF Versions, OriginNewest, StoreNewerThanSeen, RequestsRemember, FetchedNewerThanSeen,
         HandedNewerThanKnown, HandedOlderThanFetched, Fetched, Handed
<1>8. Answered'
  BY DEF Answered, MonotonicReads
<1>9. Purged'
  BY DEF Purged, PurgeHoldsUnlessRaced
<1>10. QED
  BY <1>2, <1>3, <1>4, <1>5, <1>6, <1>7, <1>8, <1>9

\* Only a storable answer goes on to Set.
LEMMA DecideIInv ==
    ASSUME IInv, NEW r \in Requests, Decide(r)
    PROVE  IInv'
<1> USE DEF IInv, TypeOK, key
<1>1. /\ pc[r] = "read"
      /\ UNCHANGED <<req, resp, snap, flights, store, gauge, origin, now, history>>
  BY DEF Decide
<1>2. result[r] \in Entry
  BY <1>1 DEF Provenance
<1>3. \/ /\ result[r].class = "public" /\ pc' = [pc EXCEPT ![r] = "set"]
         /\ result' = [result EXCEPT ![r] = [result[r] EXCEPT !.ttl = TTL, !.storedAt = now]]
      \/ result' = result /\ pc' = [pc EXCEPT ![r] = "finish"]
  BY DEF Decide, Goto
<1>4. PICK e :
         /\ e = [result[r] EXCEPT !.ttl = TTL, !.storedAt = now] \/ e = result[r]
         /\ result' = [result EXCEPT ![r] = e]
  BY <1>3
<1>5. /\ e \in Entry /\ e.ver = result[r].ver /\ e.by = result[r].by
      /\ e.class = result[r].class
  BY <1>2, <1>4, LimitsAssumption DEF Entry
<1>6. /\ result' \in [Requests -> Entry \cup {NoEntry}] /\ result'[r] = e
      /\ \A s \in Requests \ {r} : result'[s] = result[s]
  BY <1>4, <1>5
<1>7. /\ pc' \in [Requests -> Steps] /\ pc'[r] \in {"set", "finish"}
      /\ \A s \in Requests \ {r} : pc'[s] = pc[s]
      /\ pc'[r] = "set" => result[r].class = "public"
  BY <1>3 DEF Steps, Leading
<1> USE <1>1, <1>2, <1>5, <1>6, <1>7 DEF history
<1>8. TypeOK'
  OBVIOUS
<1>9. IsFiniteSet(DOMAIN store)'
  OBVIOUS
<1>10. Coalesced'
  <2> USE DEF Coalesced, Leading
  <2>1. \A s \in Requests : pc'[s] \in Leading <=> pc[s] \in Leading
    OBVIOUS
  <2>2. \A s \in Requests : pc'[s] = "wait" <=> pc[s] = "wait"
    OBVIOUS
  <2> HIDE DEF Leading
  <2>3. OneFetchPerKey'
    BY <2>1 DEF OneFetchPerKey
  <2>4. WaitersHaveLeader'
    BY <2>1, <2>2 DEF WaitersHaveLeader, Request
  <2>5. QED
    BY <2>1, <2>3, <2>4
<1>11. Absent'
  BY DEF Absent, Coalesced, OneFetchPerKey, Leading
<1>12. Provenance'
  <2> USE DEF Provenance
  <2>1. \A s \in Requests : pc'[s] \in {"idle", "proxy", "done"} <=> pc[s] \in {"idle", "proxy", "done"}
    OBVIOUS
  <2>2. \A s \in Requests : pc'[s] # "idle" <=> pc[s] # "idle"
    OBVIOUS
  <2>3. (\A k \in DOMAIN store : pc[store[k].by] # "idle")'
    BY <2>2 DEF Entry
  <2>4. OnlyStorableCached'
    BY DEF OnlyStorableCached
  <2>5. (\A s \in Requests : pc[s] \notin {"idle", "proxy", "done"} => req[s].cacheable)'
    BY <2>1
  <2>6. (\A s \in Requests : pc[s] \in {"read", "set"} => result[s] \in Entry /\ result[s].by = s)'
    OBVIOUS
  <2>7. (\A s \in Requests : pc[s] = "set" => result[s].class = "public")'
    OBVIOUS
  <2>8. QED
    BY <2>3, <2>4, <2>5, <2>6, <2>7, Zenon
<1>13. Versions'
  <2> USE DEF Versions
  <2>1. OriginNewest'
    BY DEF OriginNewest, Fetched, Handed
  <2>2. StoreNewerThanSeen'
    BY DEF StoreNewerThanSeen, Fetched, Handed
  <2>3. RequestsRemember'
    BY DEF RequestsRemember, Fetched, Handed
  <2>4. FetchedNewerThanSeen'
    BY DEF FetchedNewerThanSeen, Fetched, Handed
  <2>5. HandedNewerThanKnown'
    BY DEF HandedNewerThanKnown, Fetched, Handed
  <2>6. HandedOlderThanFetched'
    BY SMTT(30) DEF HandedOlderThanFetched, Fetched, Handed
  <2>7. QED
    BY <2>1, <2>2, <2>3, <2>4, <2>5, <2>6
<1>14. Answered'
  BY DEF Answered, MonotonicReads
<1>15. Purged'
  BY DEF Purged, PurgeHoldsUnlessRaced
<1>16. QED
  BY <1>8, <1>9, <1>10, <1>11, <1>12, <1>13, <1>14, <1>15

\* Set replaces nothing: the key was absent, and stayed so.
LEMMA SetEntryIInv ==
    ASSUME IInv, NEW r \in Requests, SetEntry(r)
    PROVE  IInv'
<1> USE DEF IInv, TypeOK, key
<1>1. /\ pc[r] = "set" /\ pc' = [pc EXCEPT ![r] = "stats"]
      /\ Cache!Write(key(r), result[r])
      /\ UNCHANGED <<req, result, resp, snap, flights, gauge, origin, now, history>>
  BY DEF SetEntry, Goto
<1>2. key(r) \in Keys /\ result[r] \in Entry
  BY <1>1 DEF Request, Provenance
<1>3. /\ key(r) \in DOMAIN store' /\ store'[key(r)] = result[r]
      /\ DOMAIN store' \subseteq DOMAIN store \cup {key(r)}
      /\ \A x \in DOMAIN store' \ {key(r)} : store'[x] = store[x]
      /\ store' \in [DOMAIN store' -> Entry]
      /\ IsFiniteSet(DOMAIN store')
  BY <1>1, <1>2, WriteEffect
<1> USE <1>1, <1>2, <1>3 DEF history
<1>4. TypeOK'
  BY DEF Steps, Leading
<1>5. IsFiniteSet(DOMAIN store)'
  OBVIOUS
<1>6. Coalesced'
  BY DEF Coalesced, OneFetchPerKey, WaitersHaveLeader, Leading
<1>7. Absent'
  BY DEF Absent, Coalesced, OneFetchPerKey, Leading
<1>8. Provenance'
  <2> USE DEF Provenance
  <2>1. \A s \in Requests : pc'[s] # "idle" <=> pc[s] # "idle"
    OBVIOUS
  <2>2. (\A k \in DOMAIN store : pc[store[k].by] # "idle")'
    BY <2>1 DEF Entry
  <2>3. result[r].class = "public" /\ result[r].by = r /\ req[r].cacheable
    OBVIOUS
  <2>4. OnlyStorableCached'
    BY <2>3 DEF OnlyStorableCached
  <2>5. QED
    BY <2>2, <2>4
<1>9. Versions'
  <2>0. \A s \in Requests : Fetched(s) /\ key(s) = key(r) => s = r
    BY DEF Coalesced, OneFetchPerKey, Leading, Fetched
  <2> USE DEF Versions
  <2>1. OriginNewest'
    BY DEF OriginNewest, Fetched, Handed
  <2>2. StoreNewerThanSeen'
    BY DEF StoreNewerThanSeen, Fetched, Handed, FetchedNewerThanSeen
  <2>3. RequestsRemember'
    BY DEF RequestsRemember, Fetched, Handed
  <2>4. FetchedNewerThanSeen'
    BY <2>0 DEF FetchedNewerThanSeen, Fetched, Handed
  <2>5. HandedNewerThanKnown'
    BY DEF HandedNewerThanKnown, Fetched, Handed, HandedOlderThanFetched
  <2>6. HandedOlderThanFetched'
    BY DEF HandedOlderThanFetched, Fetched, Handed
  <2>7. QED
    BY <2>1, <2>2, <2>3, <2>4, <2>5, <2>6
<1>10. Answered'
  BY DEF Answered, MonotonicReads
<1>11. Purged'
  BY DEF Purged, PurgeHoldsUnlessRaced
<1>12. QED
  BY <1>4, <1>5, <1>6, <1>7, <1>8, <1>9, <1>10, <1>11

\* All that wait are handed the result, and the key is free.
LEMMA FinishIInv ==
    ASSUME IInv, NEW r \in Requests, Finish(r)
    PROVE  IInv'
<1> USE DEF IInv, TypeOK, key
<1>1. /\ pc[r] = "finish"
      /\ UNCHANGED <<req, resp, snap, store, gauge, origin, now, history>>
      /\ flights' = [flights EXCEPT ![key(r)] = NoRequest]
  BY DEF Finish
<1>2. /\ pc' = [s \in Requests |->
                  IF s = r \/ (pc[s] = "wait" /\ key(s) = key(r)) THEN "got" ELSE pc[s]]
      /\ result' = [s \in Requests |->
                      IF pc[s] = "wait" /\ key(s) = key(r) THEN result[r] ELSE result[s]]
  BY DEF Finish
<1>3. key(r) \in Keys
  BY <1>1 DEF Request
<1> USE <1>1, <1>2, <1>3 DEF history
<1>4. TypeOK'
  BY DEF Steps, Leading
<1>5. IsFiniteSet(DOMAIN store)'
  OBVIOUS
<1>6. Coalesced'
  BY RequestsAssumption DEF Coalesced, OneFetchPerKey, WaitersHaveLeader, Leading, Request
<1>7. Absent'
  BY DEF Absent, Coalesced, OneFetchPerKey, Leading
<1>8. Provenance'
  BY DEF Provenance, OnlyStorableCached, Entry
<1>9. Versions'
  <2>0. \A s \in Requests : Fetched(s) /\ key(s) = key(r) => s = r
    BY DEF Coalesced, OneFetchPerKey, Leading, Fetched
  <2> USE DEF Versions
  <2>1. OriginNewest'
    BY DEF OriginNewest, Fetched, Handed
  <2>2. StoreNewerThanSeen'
    BY DEF StoreNewerThanSeen, Fetched, Handed
  <2>3. RequestsRemember'
    BY DEF RequestsRemember, Fetched, Handed
  <2>4. FetchedNewerThanSeen'
    BY DEF FetchedNewerThanSeen, Fetched, Handed
  <2>5. HandedNewerThanKnown'
    BY DEF HandedNewerThanKnown, Fetched, Handed, RequestsRemember, FetchedNewerThanSeen, Request, Entry
  <2>6. HandedOlderThanFetched'
    BY <2>0 DEF HandedOlderThanFetched, Fetched, Handed
  <2>7. QED
    BY <2>1, <2>2, <2>3, <2>4, <2>5, <2>6
<1>10. Answered'
  BY DEF Answered, MonotonicReads
<1>11. Purged'
  BY DEF Purged, PurgeHoldsUnlessRaced
<1>12. QED
  BY <1>4, <1>5, <1>6, <1>7, <1>8, <1>9, <1>10, <1>11

\* A purge drops entries; what it overtakes is recorded.
LEMMA PurgeIInv ==
    ASSUME IInv, NEW S \in PurgeSets, Purge(S)
    PROVE  IInv'
<1> USE DEF IInv, TypeOK, key
<1>1. /\ Cache!Erase(S)
      /\ floor' = [k \in Keys |-> IF k \in S THEN origin[k] ELSE floor[k]]
      /\ raced' = (raced \ S) \cup
            {k \in S : \E r \in Requests : pc[r] \in {"read", "set"} /\ key(r) = k}
      /\ UNCHANGED <<local, flights, gauge, origin, now, seen>>
  BY DEF Purge
<1>2. S \subseteq Keys
  BY PurgeAssumption
<1>3. Shrunk /\ DOMAIN store' = DOMAIN store \ S
  BY <1>1, EraseEffect
<1> USE <1>1, <1>2, <1>3 DEF history
<1>4. TypeOK'
  BY DEF Steps, local, Shrunk
<1>5. IsFiniteSet(DOMAIN store)'
  BY FS_Subset
<1>6. Coalesced'
  BY DEF Coalesced, OneFetchPerKey, WaitersHaveLeader, local
<1>7. Absent'
  BY DEF Absent, local, Shrunk
<1>8. Provenance'
  BY DEF Provenance, OnlyStorableCached, Entry, local, Shrunk
<1>9. Versions'
  BY SMTT(30) DEF Versions, OriginNewest, StoreNewerThanSeen, RequestsRemember, FetchedNewerThanSeen,
         HandedNewerThanKnown, HandedOlderThanFetched, Fetched, Handed, local, Shrunk
<1>10. Answered'
  BY DEF Answered, MonotonicReads, local
<1>11. Purged'
  BY DEF Purged, PurgeHoldsUnlessRaced, Request, local, Shrunk
<1>12. QED
  BY <1>4, <1>5, <1>6, <1>7, <1>8, <1>9, <1>10, <1>11

\* Versions only grow at the origin.
LEMMA UpdateIInv ==
    ASSUME IInv, NEW k \in Keys, Update(k)
    PROVE  IInv'
<1> USE DEF IInv, TypeOK, key
<1>1. origin' = [origin EXCEPT ![k] = @ + 1] /\ UNCHANGED <<local, flights, store, gauge, now, history>>
  BY DEF Update
<1> USE <1>1 DEF history
<1>2. TypeOK'
  BY DEF Steps, local
<1>3. IsFiniteSet(DOMAIN store)'
  OBVIOUS
<1>4. Coalesced'
  BY DEF Coalesced, OneFetchPerKey, WaitersHaveLeader, local
<1>5. Absent'
  BY DEF Absent, local
<1>6. Provenance'
  BY DEF Provenance, OnlyStorableCached, local
<1>7. Versions'
  BY DEF Versions, OriginNewest, StoreNewerThanSeen, RequestsRemember, FetchedNewerThanSeen,
         HandedNewerThanKnown, HandedOlderThanFetched, Fetched, Handed, Request, Entry, local
<1>8. Answered'
  BY DEF Answered, MonotonicReads, local
<1>9. Purged'
  BY DEF Purged, PurgeHoldsUnlessRaced, local
<1>10. QED
  BY <1>2, <1>3, <1>4, <1>5, <1>6, <1>7, <1>8, <1>9

\* Time passes.
LEMMA TickIInv ==
    ASSUME IInv, Tick
    PROVE  IInv'
<1> USE DEF IInv, TypeOK, key
<1>1. now' = now + 1 /\ UNCHANGED <<local, flights, store, gauge, origin, history>>
  BY DEF Tick
<1> USE <1>1 DEF history
<1>2. TypeOK'
  BY DEF Steps, local
<1>3. IsFiniteSet(DOMAIN store)'
  OBVIOUS
<1>4. Coalesced'
  BY DEF Coalesced, OneFetchPerKey, WaitersHaveLeader, local
<1>5. Absent'
  BY DEF Absent, local
<1>6. Provenance'
  BY DEF Provenance, OnlyStorableCached, local
<1>7. Versions'
  BY DEF Versions, OriginNewest, StoreNewerThanSeen, RequestsRemember, FetchedNewerThanSeen,
         HandedNewerThanKnown, HandedOlderThanFetched, Fetched, Handed, Request, Entry, local
<1>8. Answered'
  BY DEF Answered, MonotonicReads, local
<1>9. Purged'
  BY DEF Purged, PurgeHoldsUnlessRaced, local
<1>10. QED
  BY <1>2, <1>3, <1>4, <1>5, <1>6, <1>7, <1>8, <1>9

-----------------------------------------------------------------------------

\* Every step of the system preserves the invariant.
LEMMA NextIInv == IInv /\ [Next]_vars => IInv'
<1> SUFFICES ASSUME IInv, [Next]_vars PROVE IInv'
  OBVIOUS
<1>1. ASSUME NEW r \in Requests, Arrive(r) PROVE IInv'
  BY <1>1, ArriveIInv
<1>2. ASSUME NEW r \in Requests, Step(r) PROVE IInv'
  BY <1>2, ProxyIInv, LookupHitIInv, LookupMissIInv, JoinIInv, RespondIInv, CheckHitIInv,
     CheckMissIInv, FetchIInv, FetchFailsIInv, DecideIInv, SetEntryIInv, ReadStatsIInv,
     SetGaugeIInv, FinishIInv DEF Step
<1>3. ASSUME NEW S \in PurgeSets, Purge(S) PROVE IInv'
  BY <1>3, PurgeIInv
<1>4. ASSUME NEW k \in Keys, Update(k) PROVE IInv'
  BY <1>4, UpdateIInv
<1>5. CASE Tick
  BY <1>5, TickIInv
<1>6. CASE UNCHANGED vars
  <2> USE <1>6 DEF IInv, vars, local, history, key
  <2>1. (TypeOK /\ IsFiniteSet(DOMAIN store))'
    BY DEF TypeOK
  <2>2. (Coalesced /\ Absent)'
    BY DEF Coalesced, OneFetchPerKey, WaitersHaveLeader, Absent
  <2>3. Provenance'
    BY DEF Provenance, OnlyStorableCached
  <2>4. Versions'
    BY DEF Versions, OriginNewest, StoreNewerThanSeen, RequestsRemember, FetchedNewerThanSeen,
         HandedNewerThanKnown, HandedOlderThanFetched, Fetched, Handed
  <2>5. (Answered /\ Purged)'
    BY DEF Answered, MonotonicReads, Purged, PurgeHoldsUnlessRaced
  <2>6. QED
    BY <2>1, <2>2, <2>3, <2>4, <2>5
<1>7. QED
  BY <1>1, <1>2, <1>3, <1>4, <1>5, <1>6 DEF Next

\* The invariant holds for any number of requests and keys, whatever the
\* origin answers and whenever entries expire, are evicted or purged.
THEOREM Inductive == Spec => []IInv
<1>1. QED
  BY InitIInv, NextIInv, PTL DEF Spec

\* The variables of the request flow keep their types.
THEOREM TypeCorrect == Spec => []TypeOK
<1>1. IInv => TypeOK
  BY DEF IInv
<1>2. QED
  BY <1>1, Inductive, PTL

\* sfGroup.Do: at most one call runs for a key, and a request that waits
\* waits for it.
THEOREM MissesCoalesce == Spec => [](OneFetchPerKey /\ WaitersHaveLeader)
<1>1. IInv => OneFetchPerKey /\ WaitersHaveLeader
  BY DEF IInv, Coalesced
<1>2. QED
  BY <1>1, Inductive, PTL

\* The double check is enough: no usable entry is fetched again or replaced.
THEOREM NoRedundantFetch == Spec => []FetchOnlyWhenAbsent
<1>1. IInv => FetchOnlyWhenAbsent
  BY DEF IInv, Absent, FetchOnlyWhenAbsent, Cache!Fresh
<1>2. QED
  BY <1>1, Inductive, PTL

\* The cache holds storable answers to cacheable requests, each under the key
\* it was fetched for.
THEOREM CacheIsStorable == Spec => []OnlyStorableCached
<1>1. IInv => OnlyStorableCached
  BY DEF IInv, Provenance
<1>2. QED
  BY <1>1, Inductive, PTL

\* Answers never go back in time, through hits, shared misses, expiry,
\* eviction and purges.
THEOREM AnswersAreMonotonic == Spec => []MonotonicReads
<1>1. IInv => MonotonicReads
  BY DEF IInv, Answered
<1>2. QED
  BY <1>1, Inductive, PTL

\* A purge is undone only by an answer of the origin that it overtook.
THEOREM PurgeHolds == Spec => []PurgeHoldsUnlessRaced
<1>1. IInv => PurgeHoldsUnlessRaced
  BY DEF IInv, Purged
<1>2. QED
  BY <1>1, Inductive, PTL
=============================================================================
