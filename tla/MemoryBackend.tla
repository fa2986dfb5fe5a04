--------------------------- MODULE MemoryBackend ---------------------------
(***************************************************************************)
(* The in-memory LRU cache, internal/cache/cache.go.                       *)
(*                                                                         *)
(* Every method takes m.mu first, so a method without a loop is one step.  *)
(* Set and the DeleteBy* methods loop while they hold the lock: their      *)
(* iterations are steps of their own, and mu holds the locals of the call  *)
(* that owns the lock.  While it is owned only the clock moves.            *)
(***************************************************************************)
EXTENDS Integers, Sequences, FiniteSets, SequencesExt

CONSTANTS
    Keys,        \* cache keys, METHOD|host|path|query|ae
    Paths,       \* third segments of keys
    PathPrefixes,    \* arguments of DeleteByPrefix
    PathOf,      \* key -> path, splitCacheKey(key)[2]
    PrefixesOf,  \* path -> the prefixes it starts with
    Sizes,       \* Entry.Size, the length of a body
    TTLs,        \* Entry.TTL
    MaxEntries,  \* cache.max_entries
    MaxBytes,    \* cache.max_bytes
    MaxTime,     \* bound on the clock
    MaxOps,      \* bound on the calls counted by hits, misses, ...
    NoEntry      \* the nil *Entry

\* config.validate puts no bound on the two limits: both may be negative.
ASSUME LimitsAssumption == MaxEntries \in Int /\ MaxBytes \in Int
ASSUME SizesAssumption  == Sizes \subseteq Nat /\ TTLs \subseteq Int
ASSUME PathsAssumption  == /\ PathOf \in [Keys -> Paths]
                           /\ PrefixesOf \in [Paths -> SUBSET PathPrefixes]
ASSUME BoundsAssumption == MaxTime \in Nat /\ MaxOps \in Nat

VARIABLES
    items,      \* key -> entry of its list element
    evictList,  \* the keys of the elements, most recently used first
    sizeBytes, hits, misses, bypasses, stores, evictions,
    mu,         \* the call that holds the lock
    ret,        \* what the last call returned
    now,        \* the clock
    touched     \* history: when a key was last hit or stored

counters == <<hits, misses, bypasses, stores, evictions>>
vars == <<items, evictList, sizeBytes, counters, mu, ret, now, touched>>

Entry == [size : Sizes, ttl : TTLs, storedAt : Nat]

Free == [op |-> "free"]

\* The locals of a call of DeleteByPrefix or DeleteByPath, and of Set.
DeleteCall == [op : {"delete"}, toRemove : SUBSET Keys, count : Nat]
SetCall(before) ==
    [op : {"set"}, key : Keys, entry : Entry, before : {before}]

\* f maps some of the keys to entries.
Contents(f) == DOMAIN f \subseteq Keys /\ f \in [DOMAIN f -> Entry]

Answer(e, n, b) == [entry |-> e, count |-> n, bytes |-> b]

\* Mutant of IsExpired: an entry is dropped when its age equals its TTL.
IsExpiredEarly(e) == now - e.storedAt >= e.ttl

IsExpired(e) == now - e.storedAt > e.ttl

\* Callers are counted so that TLC sees finitely many calls.
Enter == mu = Free /\ hits + misses + bypasses + stores < MaxOps

-----------------------------------------------------------------------------
(* container/list and the two helpers.                                     *)

Unlink(s, k) == RemoveAt(s, CHOOSE i \in DOMAIN s : s[i] = k)

removeElement(k) ==
    /\ items' = Restrict(items, DOMAIN items \ {k})
    /\ evictList' = Unlink(evictList, k)
    /\ sizeBytes' = IF sizeBytes < items[k].size
                    THEN 0
                    ELSE sizeBytes - items[k].size

\* Mutant of evictOldest: takes list.Front.
evictFront ==
    IF evictList = <<>>
    THEN UNCHANGED <<items, evictList, sizeBytes, evictions>>
    ELSE /\ removeElement(evictList[1])
         /\ evictions' = evictions + 1

\* list.Back is nil on an empty list, and evictOldest then does nothing.
evictOldest ==
    IF evictList = <<>>
    THEN UNCHANGED <<items, evictList, sizeBytes, evictions>>
    ELSE /\ removeElement(evictList[Len(evictList)])
         /\ evictions' = evictions + 1

unchangedContents == UNCHANGED <<items, evictList, sizeBytes>>

-----------------------------------------------------------------------------

GetAbsent(k) ==
    /\ k \notin DOMAIN items
    /\ misses' = misses + 1
    /\ ret' = Answer(NoEntry, 0, 0)
    /\ unchangedContents
    /\ UNCHANGED <<hits, touched>>

GetExpired(k) ==
    /\ k \in DOMAIN items /\ IsExpired(items[k])
    /\ removeElement(k)
    /\ misses' = misses + 1
    /\ ret' = Answer(NoEntry, 0, 0)
    /\ UNCHANGED <<hits, touched>>

\* Mutant of GetHit: no MoveToFront.
GetHitInPlace(k) ==
    /\ k \in DOMAIN items /\ ~IsExpired(items[k])
    /\ hits' = hits + 1
    /\ ret' = Answer(items[k], 0, 0)
    /\ touched' = [touched EXCEPT ![k] = hits + stores + 1]
    /\ UNCHANGED <<items, evictList, sizeBytes, misses>>

GetHit(k) ==
    /\ k \in DOMAIN items /\ ~IsExpired(items[k])
    /\ evictList' = <<k>> \o Unlink(evictList, k)
    /\ hits' = hits + 1
    /\ ret' = Answer(items[k], 0, 0)
    /\ touched' = [touched EXCEPT ![k] = hits + stores + 1]
    /\ UNCHANGED <<items, sizeBytes, misses>>

Get(k) ==
    /\ Enter
    /\ GetAbsent(k) \/ GetExpired(k) \/ GetHit(k)
    /\ UNCHANGED <<bypasses, stores, evictions, mu, now>>

-----------------------------------------------------------------------------
(* Set: drop the old entry of the key, evict until there is room, insert.  *)
(* The field before of the call is history: the contents the caller found. *)

\* Mutant of SetBegin: the element of an existing key is left in the list.
SetBeginKeepingOld(k, e) ==
    /\ Enter
    /\ unchangedContents
    /\ mu' = [op |-> "set", key |-> k, entry |-> e, before |-> items]
    /\ UNCHANGED <<counters, ret, now, touched>>

SetBegin(k, e) ==
    /\ Enter
    /\ IF k \in DOMAIN items THEN removeElement(k) ELSE unchangedContents
    /\ mu' = [op |-> "set", key |-> k, entry |-> e, before |-> items]
    /\ UNCHANGED <<counters, ret, now, touched>>

\* Mutants of NeedsRoom: one entry too many; the new entry is not counted;
\* no way out when the list is empty.
NeedsRoomOffByOne(e) ==
    \/ Len(evictList) > MaxEntries
    \/ sizeBytes + e.size > MaxBytes /\ Len(evictList) > 0
NeedsRoomWithoutNew(e) ==
    \/ Len(evictList) >= MaxEntries
    \/ sizeBytes > MaxBytes /\ Len(evictList) > 0
NeedsRoomUnguarded(e) ==
    \/ Len(evictList) >= MaxEntries
    \/ sizeBytes + e.size > MaxBytes

NeedsRoom(e) ==
    \/ Len(evictList) >= MaxEntries
    \/ sizeBytes + e.size > MaxBytes /\ Len(evictList) > 0

SetEvict ==
    /\ mu.op = "set" /\ NeedsRoom(mu.entry)
    /\ evictOldest
    /\ UNCHANGED <<hits, misses, bypasses, stores, mu, ret, now, touched>>

SetEnd ==
    /\ mu.op = "set" /\ ~NeedsRoom(mu.entry)
    /\ evictList' = <<mu.key>> \o evictList
    /\ items' = [k \in DOMAIN items \cup {mu.key} |->
                   IF k = mu.key THEN mu.entry ELSE items[k]]
    /\ sizeBytes' = sizeBytes + mu.entry.size
    /\ stores' = stores + 1
    /\ touched' = [touched EXCEPT ![mu.key] = hits + stores + 1]
    /\ mu' = Free
    /\ ret' = Answer(NoEntry, 0, 0)
    /\ UNCHANGED <<hits, misses, bypasses, evictions, now>>

-----------------------------------------------------------------------------

Delete(k) ==
    /\ mu = Free
    /\ IF k \in DOMAIN items THEN removeElement(k) ELSE unchangedContents
    /\ ret' = Answer(NoEntry, IF k \in DOMAIN items THEN 1 ELSE 0, 0)
    /\ UNCHANGED <<counters, mu, now, touched>>

DeleteBegin(S) ==
    /\ mu = Free
    /\ mu' = [op |-> "delete", toRemove |-> S \cap DOMAIN items, count |-> 0]
    /\ unchangedContents
    /\ UNCHANGED <<counters, ret, now, touched>>

\* A prefix is compared with the path segment, byte by byte from its start.
DeleteByPrefix(prefix) ==
    DeleteBegin({k \in Keys : prefix \in PrefixesOf[PathOf[k]]})

DeleteByPath(path) == DeleteBegin({k \in Keys : PathOf[k] = path})

\* The elements were collected by ranging over the map: in no given order.
DeleteStep ==
    /\ mu.op = "delete"
    /\ \E k \in mu.toRemove :
         /\ removeElement(k)
         /\ mu' = [op |-> "delete", toRemove |-> mu.toRemove \ {k},
                   count |-> mu.count + 1]
    /\ UNCHANGED <<counters, ret, now, touched>>

DeleteEnd ==
    /\ mu.op = "delete" /\ mu.toRemove = {}
    /\ ret' = Answer(NoEntry, mu.count, 0)
    /\ mu' = Free
    /\ unchangedContents
    /\ UNCHANGED <<counters, now, touched>>

\* Mutant of Purge: the byte counter is not reset.
PurgeKeepingSize ==
    /\ mu = Free
    /\ ret' = Answer(NoEntry, Len(evictList), 0)
    /\ items' = [k \in {} |-> NoEntry]
    /\ evictList' = <<>>
    /\ UNCHANGED <<sizeBytes, counters, mu, now, touched>>

Purge ==
    /\ mu = Free
    /\ ret' = Answer(NoEntry, Len(evictList), 0)
    /\ items' = [k \in {} |-> NoEntry]
    /\ evictList' = <<>>
    /\ sizeBytes' = 0
    /\ UNCHANGED <<counters, mu, now, touched>>

-----------------------------------------------------------------------------

Stats ==
    /\ mu = Free
    /\ ret' = Answer(NoEntry, Len(evictList), sizeBytes)
    /\ unchangedContents
    /\ UNCHANGED <<counters, mu, now, touched>>

IncrementBypasses ==
    /\ Enter
    /\ bypasses' = bypasses + 1
    /\ unchangedContents
    /\ UNCHANGED <<hits, misses, stores, evictions, mu, ret, now, touched>>

Tick ==
    /\ now < MaxTime
    /\ now' = now + 1
    /\ unchangedContents
    /\ UNCHANGED <<counters, mu, ret, touched>>

-----------------------------------------------------------------------------

Init ==
    /\ items = [k \in {} |-> NoEntry]
    /\ evictList = <<>>
    /\ sizeBytes = 0
    /\ hits = 0 /\ misses = 0 /\ bypasses = 0 /\ stores = 0 /\ evictions = 0
    /\ mu = Free
    /\ ret = Answer(NoEntry, 0, 0)
    /\ now = 0
    /\ touched = [k \in Keys |-> 0]

\* The caller stamped StoredAt before it called Set.
Call ==
    \/ \E k \in Keys : Get(k) \/ Delete(k)
    \/ \E k \in Keys, s \in Sizes, t \in TTLs, at \in 0 .. now :
          SetBegin(k, [size |-> s, ttl |-> t, storedAt |-> at])
    \/ \E p \in PathPrefixes : DeleteByPrefix(p)
    \/ \E p \in Paths : DeleteByPath(p)
    \/ Purge
    \/ Stats
    \/ IncrementBypasses

Loop == SetEvict \/ SetEnd \/ DeleteStep \/ DeleteEnd

Next == Call \/ Loop \/ Tick

Spec == Init /\ [][Next]_vars

\* A goroutine that holds the lock keeps running: it waits for nothing.
FairSpec == Spec /\ WF_vars(Loop)

-----------------------------------------------------------------------------

TypeOK ==
    /\ Contents(items)
    /\ evictList \in Seq(Keys)
    /\ sizeBytes \in Nat
    /\ hits \in Nat /\ misses \in Nat /\ bypasses \in Nat
    /\ stores \in Nat /\ evictions \in Nat
    /\ \/ mu = Free
       \/ mu \in DeleteCall
       \/ mu \in SetCall(mu.before) /\ Contents(mu.before)
    /\ ret \in [entry : Entry \cup {NoEntry}, count : Nat, bytes : Nat]
    /\ now \in Nat
    /\ touched \in [Keys -> Nat]

(***************************************************************************)
(* The map and the list hold the same elements, at every point where a     *)
(* loop could be interrupted by the scheduler: every key of the map is in  *)
(* the list, exactly once, and nothing else is (removeElement, Set, Purge  *)
(* update both).                                                           *)
(***************************************************************************)
ListMatchesMap ==
    /\ Range(evictList) = DOMAIN items
    /\ IsInjective(evictList)

(***************************************************************************)
(* sizeBytes is the sum of the sizes in the list, spelled out as a running *)
(* total p along it.  In particular the clamp to 0 in removeElement never  *)
(* hides a miscount.                                                       *)
(***************************************************************************)
SizeAccounted ==
    \E p \in [0 .. Len(evictList) -> 0 .. sizeBytes] :
        /\ p[0] = 0
        /\ p[Len(evictList)] = sizeBytes
        /\ \A i \in 1 .. Len(evictList) :
              p[i] = p[i-1] + items[evictList[i]].size

\* A cache that holds anything holds at most max_entries entries.
EntriesBounded == evictList # <<>> => Len(evictList) <= MaxEntries

(***************************************************************************)
(* max_bytes is respected except by an entry that is larger than the whole *)
(* cache: the loop of Set gives up when the list is empty, so such an      *)
(* entry is stored, but then it is alone.                                  *)
(***************************************************************************)
BytesBounded == sizeBytes <= MaxBytes \/ Len(evictList) <= 1

(***************************************************************************)
(* The list is ordered by last use: an element nearer the front was hit or *)
(* stored later.  The back, which evictOldest takes, is therefore the      *)
(* least recently used entry.                                              *)
(***************************************************************************)
LRUOrder ==
    \A i, j \in 1 .. Len(evictList) :
        i < j => touched[evictList[j]] < touched[evictList[i]]

(***************************************************************************)
(* Every entry that is held or was evicted was stored, each store counted  *)
(* once: stores - evictions never under-reports the cache.                 *)
(***************************************************************************)
StoresAccounted == evictions + Len(evictList) <= stores

(***************************************************************************)
(* An eviction happens only under a Set that had no room, takes one entry, *)
(* and never the one whose last use is the latest of several.              *)
(***************************************************************************)
EvictsOldest ==
    [][evictions' # evictions =>
        /\ evictions' = evictions + 1
        /\ mu.op = "set"
        /\ \E k \in DOMAIN items :
              /\ DOMAIN items' = DOMAIN items \ {k}
              /\ \A x \in DOMAIN items \ {k} : touched[k] < touched[x]]_vars

\* Every call returns: the lock is always released again.
LockReleased == (mu # Free) ~> (mu = Free)

(***************************************************************************)
(* The implementation of CacheStore.  A Set takes effect when it inserts,  *)
(* a DeleteBy* when it has collected the elements to remove.               *)
(***************************************************************************)
absStore ==
    CASE mu.op = "set"    -> mu.before
      [] mu.op = "delete" -> Restrict(items, DOMAIN items \ mu.toRemove)
      [] mu.op = "free"   -> items

absRet ==
    IF mu.op = "delete"
    THEN Answer(NoEntry, mu.count + Cardinality(mu.toRemove), 0)
    ELSE ret

Abstract == INSTANCE CacheStore WITH store <- absStore, ret <- absRet

\* Every behaviour of the LRU cache is one the Backend interface allows.
ImplementsCacheStore == Abstract!Spec
=============================================================================
