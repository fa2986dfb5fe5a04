----------------------------- MODULE CacheStore -----------------------------
(***************************************************************************)
(* What cache.Backend promises to the request handler and the admin API:   *)
(* a bounded partial map from cache keys to entries.  There is no list, no *)
(* byte counter and no lock here; an operation is one step.  The methods   *)
(* are those of the interface (cache.go, type Backend); MemoryBackend is   *)
(* shown to implement this specification.                                  *)
(***************************************************************************)
EXTENDS Integers, FiniteSets, Functions

CONSTANTS
    Keys,        \* cache keys
    Sizes,       \* entry sizes in bytes
    TTLs,        \* times to live
    MaxEntries,  \* cache.max_entries
    MaxBytes,    \* cache.max_bytes
    MaxTime,     \* bound on the clock
    NoEntry      \* the nil *Entry

VARIABLES
    store,       \* the entries held
    ret,         \* what the last call returned
    now          \* the clock read by time.Now and time.Since

vars == <<store, ret, now>>

(***************************************************************************)
(* The entries a caller can pass to Set: it stamped StoredAt itself, some  *)
(* time before the backend got to run the call.                            *)
(***************************************************************************)
Entry == [size : Sizes, ttl : TTLs, storedAt : 0 .. now]

IsExpired(e) == now - e.storedAt > e.ttl

Fresh(k) == k \in DOMAIN store /\ ~IsExpired(store[k])

\* A return value: an entry (Get), a number of entries, a number of bytes.
Answer(e, n, b) == [entry |-> e, count |-> n, bytes |-> b]

Bytes(S) == SumFunctionOnSet([k \in DOMAIN store |-> store[k].size], S)

-----------------------------------------------------------------------------

Erase(S) == store' = Restrict(store, DOMAIN store \ S)

\* An entry found expired is dropped by the lookup that finds it.
Read(k) == Erase(IF Fresh(k) THEN {} ELSE {k})

(***************************************************************************)
(* Writing k keeps as many of the other entries as fit.  The entry itself  *)
(* is stored whatever its size; an entry larger than the whole cache ends  *)
(* up alone.  Something is dropped only when it stood in the way.          *)
(***************************************************************************)
Write(k, e) ==
    LET others == DOMAIN store \ {k}
        Fits(S) == /\ Cardinality(S) < MaxEntries
                   /\ Bytes(S) + e.size <= MaxBytes \/ S = {}
    IN \E kept \in SUBSET others :
         /\ Fits(kept)
         /\ kept # others => \E d \in others \ kept : ~Fits(kept \cup {d})
         /\ store' = [x \in kept \cup {k} |-> IF x = k THEN e ELSE store[x]]

-----------------------------------------------------------------------------

Get(k) ==
    /\ Read(k)
    /\ ret' = Answer(IF Fresh(k) THEN store[k] ELSE NoEntry, 0, 0)
    /\ UNCHANGED now

Set(k, e) ==
    /\ Write(k, e)
    /\ ret' = Answer(NoEntry, 0, 0)
    /\ UNCHANGED now

\* Delete, DeleteByPrefix, DeleteByPath and Purge differ only in the set of
\* keys they drop; each reports how many entries it dropped.
Remove(S) ==
    /\ Erase(S)
    /\ ret' = Answer(NoEntry, Cardinality(S \cap DOMAIN store), 0)
    /\ UNCHANGED now

Stats ==
    /\ ret' = Answer(NoEntry, Cardinality(DOMAIN store), Bytes(DOMAIN store))
    /\ UNCHANGED <<store, now>>

Tick ==
    /\ now < MaxTime
    /\ now' = now + 1
    /\ UNCHANGED <<store, ret>>

Init ==
    /\ store = [k \in {} |-> NoEntry]
    /\ ret = Answer(NoEntry, 0, 0)
    /\ now = 0

Next ==
    \/ \E k \in Keys : Get(k)
    \/ \E k \in Keys, e \in Entry : Set(k, e)
    \/ \E S \in SUBSET Keys : Remove(S)
    \/ Stats
    \/ Tick

Spec == Init /\ [][Next]_vars
=============================================================================
