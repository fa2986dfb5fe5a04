--------------------------- MODULE CachedHandler ---------------------------
(***************************************************************************)
(* handleWithCache of internal/proxy/handler.go: concurrent requests, the  *)
(* shared cache, the singleflight group, the origin, and the purges of the *)
(* admin API (internal/admin/handler.go).                                  *)
(*                                                                         *)
(* Each request is a goroutine with its own pc; a step is what it does     *)
(* between two points where another goroutine can get in between: a call   *)
(* of the cache, of the singleflight group, of the origin.  The cache is   *)
(* the Backend interface of CacheStore.  An answer of the origin is a      *)
(* version number of the resource, the method it answers, and whether it   *)
(* may be stored.                                                          *)
(***************************************************************************)
EXTENDS Integers, FiniteSets, Functions

CONSTANTS
    Requests,    \* the requests that reach handleWithCache
    Keys,        \* cache keys; HEAD and GET of a resource have the same
    Methods,     \* methods of eligible requests, within {"GET", "HEAD"}
    Classes,     \* IsResponseStorable: "public" is storable, "private" not
    TTL,         \* DetermineTTL
    MaxEntries, MaxBytes,
    PurgeSets,   \* the sets of keys that one admin purge can drop
    MaxTime,     \* bound on the clock
    MaxVersion,  \* bound on the updates of a resource
    NoEntry,     \* the nil *Entry
    NoRequest    \* a request yet to come; no singleflight call for a key

ASSUME RequestsAssumption == NoRequest \notin Requests
ASSUME MethodsAssumption  == Methods \subseteq {"GET", "HEAD"}
ASSUME ClassesAssumption  == Classes \subseteq {"public", "private"}
ASSUME LimitsAssumption   == MaxEntries \in Int /\ MaxBytes \in Int /\ TTL \in Int
ASSUME PurgeAssumption    == PurgeSets \subseteq SUBSET Keys
ASSUME BoundsAssumption   == MaxTime \in Nat /\ MaxVersion \in Nat

VARIABLES
    pc,      \* request -> what it does next
    req,     \* request -> what the client asked for
    result,  \* request -> the entry in hand; NoEntry is an error
    resp,    \* request -> what the client was answered
    flights, \* sfGroup: key -> the request that runs the call
    store,   \* the cache, key -> entry
    gauge,   \* metrics.CacheEntries
    snap,    \* request -> stats.Entries it read
    origin,  \* key -> version of the resource at the origin
    now,     \* the clock
    floor,   \* history: key -> version at the origin when last purged
    raced,   \* history: keys whose last purge overtook a fetched answer
    seen     \* history: key -> newest version a cacheable request was answered

local   == <<pc, req, result, resp, snap>>
history == <<floor, raced, seen>>
vars    == <<local, flights, store, gauge, origin, now, history>>

Cache == INSTANCE CacheStore WITH
            Sizes <- {0, 1}, TTLs <- {TTL}, ret <- NoEntry

\* The steps of the function that the singleflight call runs.
Leading == {"check", "fetch", "read", "set", "stats", "gauge", "finish"}

Steps == {"idle", "proxy", "lookup", "join", "wait", "got", "done"} \cup Leading

Request ==
    [key : Keys, method : Methods, cacheable : BOOLEAN, seen : Nat]

Entry ==
    [ver : Nat, method : Methods, class : Classes, by : Requests,
     size : {0, 1}, ttl : Int, storedAt : Nat]

key(r) == req[r].key

\* The origin's answer to r, as fetchFromOrigin makes an entry of it.  A HEAD
\* answer has no body, and Size is the length of the body.
Answer(r, c) ==
    [ver |-> origin[key(r)], method |-> req[r].method, class |-> c, by |-> r,
     size |-> IF req[r].method = "HEAD" THEN 0 ELSE 1,
     ttl |-> 0, storedAt |-> 0]

Goto(r, step) == pc' = [pc EXCEPT ![r] = step]

-----------------------------------------------------------------------------
(* The request, outside the singleflight call.                             *)

(***************************************************************************)
(* A request reaches handleWithCache.  IsRequestCacheable and the header   *)
(* of a WAF bypass decide whether it may use the cache at all.             *)
(***************************************************************************)
Arrive(r) ==
    /\ pc[r] = "idle"
    /\ \E k \in Keys, m \in Methods, cacheable \in BOOLEAN :
         /\ req' = [req EXCEPT ![r] =
                      [key |-> k, method |-> m, cacheable |-> cacheable,
                       seen |-> seen[k]]]
         /\ Goto(r, IF cacheable THEN "lookup" ELSE "proxy")
    /\ UNCHANGED <<result, resp, snap, flights, store, gauge, origin, now, history>>

\* The client gets its answer.  An answer without an entry is a 502.
Reply(r, status, e) ==
    /\ resp' = [resp EXCEPT ![r] = [status |-> status, entry |-> e]]
    /\ Goto(r, "done")

\* History: a cacheable request has now been answered with the version of e.
Witnessed(r, e) ==
    seen' = [seen EXCEPT ![key(r)] = IF e.ver > @ THEN e.ver ELSE @]

\* proxyToOrigin: the answer, or the 502 of the ErrorHandler.
Proxy(r) ==
    /\ pc[r] = "proxy"
    /\ \/ \E c \in Classes : Reply(r, "BYPASS", Answer(r, c))
       \/ Reply(r, "BYPASS", NoEntry)
    /\ UNCHANGED <<req, result, snap, flights, store, gauge, origin, now, history>>

LookupHit(r) ==
    /\ pc[r] = "lookup" /\ Cache!Fresh(key(r))
    /\ Cache!Read(key(r))
    /\ Reply(r, "HIT", store[key(r)])
    /\ Witnessed(r, store[key(r)])
    /\ UNCHANGED <<req, result, snap, flights, gauge, origin, now, floor, raced>>

LookupMiss(r) ==
    /\ pc[r] = "lookup" /\ ~Cache!Fresh(key(r))
    /\ Cache!Read(key(r))
    /\ Goto(r, "join")
    /\ UNCHANGED <<req, result, resp, snap, flights, gauge, origin, now, history>>

\* Mutant of Join: every miss runs its own call.
JoinAlone(r) ==
    /\ pc[r] = "join"
    /\ flights' = [flights EXCEPT ![key(r)] = r]
    /\ Goto(r, "check")
    /\ UNCHANGED <<req, result, resp, snap, store, gauge, origin, now, history>>

\* sfGroup.Do: wait for the call that runs for the key, or start one.
Join(r) ==
    /\ pc[r] = "join"
    /\ \/ /\ flights[key(r)] # NoRequest
          /\ Goto(r, "wait")
          /\ UNCHANGED flights
       \/ /\ flights[key(r)] = NoRequest
          /\ flights' = [flights EXCEPT ![key(r)] = r]
          /\ Goto(r, "check")
    /\ UNCHANGED <<req, result, resp, snap, store, gauge, origin, now, history>>

\* The result of the call is written: 502 for an error, else MISS.
Respond(r) ==
    /\ pc[r] = "got"
    /\ \/ /\ result[r] = NoEntry
          /\ Reply(r, "502", NoEntry)
          /\ UNCHANGED seen
       \/ /\ result[r] # NoEntry
          /\ Reply(r, "MISS", result[r])
          /\ Witnessed(r, result[r])
    /\ result' = [result EXCEPT ![r] = NoEntry]
    /\ UNCHANGED <<req, snap, flights, store, gauge, origin, now, floor, raced>>

-----------------------------------------------------------------------------
(* The function passed to sfGroup.Do.                                      *)

\* Another call may have filled the cache since the lookup.
CheckHit(r) ==
    /\ pc[r] = "check" /\ Cache!Fresh(key(r))
    /\ Cache!Read(key(r))
    /\ result' = [result EXCEPT ![r] = store[key(r)]]
    /\ Goto(r, "finish")
    /\ UNCHANGED <<req, resp, snap, flights, gauge, origin, now, history>>

\* Mutant of CheckMiss: no second lookup.
CheckSkipped(r) ==
    /\ pc[r] = "check"
    /\ Goto(r, "fetch")
    /\ UNCHANGED <<req, result, resp, snap, flights, store, gauge, origin, now, history>>

CheckMiss(r) ==
    /\ pc[r] = "check" /\ ~Cache!Fresh(key(r))
    /\ Cache!Read(key(r))
    /\ Goto(r, "fetch")
    /\ UNCHANGED <<req, result, resp, snap, flights, gauge, origin, now, history>>

\* The origin answers; fetchFromOrigin still has to read the body.
Fetch(r) ==
    /\ pc[r] = "fetch"
    /\ \E c \in Classes : result' = [result EXCEPT ![r] = Answer(r, c)]
    /\ Goto(r, "read")
    /\ UNCHANGED <<req, resp, snap, flights, store, gauge, origin, now, history>>

(***************************************************************************)
(* RoundTrip or the reading of the body fails: the origin is down, is too  *)
(* slow, or the client of THIS request went away (the outgoing request     *)
(* carries its context).                                                   *)
(***************************************************************************)
FetchFails(r) ==
    /\ pc[r] \in {"fetch", "read"}
    /\ result' = [result EXCEPT ![r] = NoEntry]
    /\ Goto(r, "finish")
    /\ UNCHANGED <<req, resp, snap, flights, store, gauge, origin, now, history>>

\* Mutant of Decide: the storable test is gone.
DecideAlways(r) ==
    /\ pc[r] = "read"
    /\ result' = [result EXCEPT ![r].ttl = TTL, ![r].storedAt = now]
    /\ Goto(r, "set")
    /\ UNCHANGED <<req, resp, snap, flights, store, gauge, origin, now, history>>

\* The body is read: decide, and stamp what will be stored.
Decide(r) ==
    /\ pc[r] = "read"
    /\ \/ /\ result[r].class = "public"
          /\ result' = [result EXCEPT ![r].ttl = TTL, ![r].storedAt = now]
          /\ Goto(r, "set")
       \/ /\ result[r].class # "public"
          /\ Goto(r, "finish")
          /\ UNCHANGED result
    /\ UNCHANGED <<req, resp, snap, flights, store, gauge, origin, now, history>>

SetEntry(r) ==
    /\ pc[r] = "set"
    /\ Cache!Write(key(r), result[r])
    /\ Goto(r, "stats")
    /\ UNCHANGED <<req, result, resp, snap, flights, gauge, origin, now, history>>

\* Stats takes and releases the lock; the gauge is set from its copy.
ReadStats(r) ==
    /\ pc[r] = "stats"
    /\ snap' = [snap EXCEPT ![r] = Cardinality(DOMAIN store)]
    /\ Goto(r, "gauge")
    /\ UNCHANGED <<req, result, resp, flights, store, gauge, origin, now, history>>

SetGauge(r) ==
    /\ pc[r] = "gauge"
    /\ gauge' = snap[r]
    /\ snap' = [snap EXCEPT ![r] = 0]
    /\ Goto(r, "finish")
    /\ UNCHANGED <<req, result, resp, flights, store, origin, now, history>>

\* Mutant of Finish: the callers that wait are not woken.
FinishAlone(r) ==
    /\ pc[r] = "finish"
    /\ flights' = [flights EXCEPT ![key(r)] = NoRequest]
    /\ Goto(r, "got")
    /\ UNCHANGED <<req, result, resp, snap, store, gauge, origin, now, history>>

\* The call returns: all that wait for it share its result, and its key is
\* free again.
Finish(r) ==
    LET waiting == {s \in Requests : pc[s] = "wait" /\ key(s) = key(r)}
    IN /\ pc[r] = "finish"
       /\ result' = [s \in Requests |-> IF s \in waiting THEN result[r] ELSE result[s]]
       /\ pc' = [s \in Requests |-> IF s \in waiting \cup {r} THEN "got" ELSE pc[s]]
       /\ flights' = [flights EXCEPT ![key(r)] = NoRequest]
       /\ UNCHANGED <<req, resp, snap, store, gauge, origin, now, history>>

-----------------------------------------------------------------------------
(* The others.                                                             *)

\* Mutant of Purge: the exact-key purge forgets the keys of the same path.
PurgeOne(S) ==
    /\ \E k \in S : Cache!Erase({k})
    /\ floor' = [k \in Keys |-> IF k \in S THEN origin[k] ELSE floor[k]]
    /\ raced' = (raced \ S) \cup
                {k \in S : \E r \in Requests : pc[r] \in {"read", "set"} /\ key(r) = k}
    /\ UNCHANGED <<local, flights, gauge, origin, now, seen>>

(***************************************************************************)
(* An admin purge (of a key, a path, a prefix, or everything): entries are *)
(* dropped, nothing else is touched; not the gauge, not a running fetch.   *)
(***************************************************************************)
Purge(S) ==
    /\ Cache!Erase(S)
    /\ floor' = [k \in Keys |-> IF k \in S THEN origin[k] ELSE floor[k]]
    /\ raced' = (raced \ S) \cup
                {k \in S : \E r \in Requests : pc[r] \in {"read", "set"} /\ key(r) = k}
    /\ UNCHANGED <<local, flights, gauge, origin, now, seen>>

\* The resource changes at the origin.
Update(k) ==
    /\ origin[k] < MaxVersion
    /\ origin' = [origin EXCEPT ![k] = @ + 1]
    /\ UNCHANGED <<local, flights, store, gauge, now, history>>

Tick ==
    /\ now < MaxTime
    /\ now' = now + 1
    /\ UNCHANGED <<local, flights, store, gauge, origin, history>>

-----------------------------------------------------------------------------

Init ==
    /\ pc = [r \in Requests |-> "idle"]
    /\ req = [r \in Requests |-> NoRequest]
    /\ result = [r \in Requests |-> NoEntry]
    /\ resp = [r \in Requests |-> [status |-> "none", entry |-> NoEntry]]
    /\ flights = [k \in Keys |-> NoRequest]
    /\ store = [k \in {} |-> NoEntry]
    /\ gauge = 0
    /\ snap = [r \in Requests |-> 0]
    /\ origin = [k \in Keys |-> 0]
    /\ now = 0
    /\ floor = [k \in Keys |-> 0]
    /\ raced = {}
    /\ seen = [k \in Keys |-> 0]

\* What the goroutine of r does by itself, once r has arrived.
Step(r) ==
    \/ Proxy(r) \/ LookupHit(r) \/ LookupMiss(r) \/ Join(r) \/ Respond(r)
    \/ CheckHit(r) \/ CheckMiss(r) \/ Fetch(r) \/ FetchFails(r) \/ Decide(r)
    \/ SetEntry(r) \/ ReadStats(r) \/ SetGauge(r) \/ Finish(r)

Next ==
    \/ \E r \in Requests : Arrive(r) \/ Step(r)
    \/ \E S \in PurgeSets : Purge(S)
    \/ \E k \in Keys : Update(k)
    \/ Tick

Spec == Init /\ [][Next]_vars

(***************************************************************************)
(* Goroutines are scheduled, and the origin answers or its connection      *)
(* fails: the transport sets a dial and a response header timeout.         *)
(***************************************************************************)
FairSpec == Spec /\ \A r \in Requests : WF_vars(Step(r))

-----------------------------------------------------------------------------

TypeOK ==
    /\ pc \in [Requests -> Steps]
    /\ req \in [Requests -> Request \cup {NoRequest}]
    /\ \A r \in Requests : pc[r] # "idle" => req[r] \in Request
    /\ result \in [Requests -> Entry \cup {NoEntry}]
    /\ resp \in [Requests -> [status : {"none", "HIT", "MISS", "BYPASS", "502"},
                             entry : Entry \cup {NoEntry}]]
    /\ flights \in [Keys -> Requests \cup {NoRequest}]
    /\ DOMAIN store \subseteq Keys /\ store \in [DOMAIN store -> Entry]
    /\ gauge \in Nat /\ snap \in [Requests -> Nat]
    /\ origin \in [Keys -> Nat] /\ now \in Nat
    /\ floor \in [Keys -> Nat] /\ raced \subseteq Keys /\ seen \in [Keys -> Nat]

(***************************************************************************)
(* Concurrent misses of a key cause one origin fetch at a time: the        *)
(* requests that run the singleflight function for a key are at most one,  *)
(* the one the group knows.                                                *)
(***************************************************************************)
OneFetchPerKey ==
    \A r \in Requests : pc[r] \in Leading => flights[key(r)] = r

(***************************************************************************)
(* A request that waits for another's call waits for one that will end: no *)
(* wakeup is lost when a call ends while others join it.                   *)
(***************************************************************************)
WaitersHaveLeader ==
    \A r \in Requests : pc[r] = "wait" =>
        /\ flights[key(r)] # NoRequest
        /\ pc[flights[key(r)]] \in Leading
        /\ key(flights[key(r)]) = key(r)

(***************************************************************************)
(* From the double check to Set the key is not in the cache, or has        *)
(* expired there: a fetch never replaces a usable entry, so the double     *)
(* check is enough to avoid a redundant fetch.                             *)
(***************************************************************************)
FetchOnlyWhenAbsent ==
    \A r \in Requests : pc[r] \in {"fetch", "read", "set"} => ~Cache!Fresh(key(r))

(***************************************************************************)
(* What is in the cache was fetched for that very key by a request that    *)
(* was allowed to use the cache, and the origin's answer was storable.     *)
(***************************************************************************)
OnlyStorableCached ==
    \A k \in DOMAIN store :
        LET e == store[k]
        IN e.class = "public" /\ key(e.by) = k /\ req[e.by].cacheable

(***************************************************************************)
(* Answers do not go back in time: a cacheable request that arrives after  *)
(* another one for the same key was answered is answered with the same     *)
(* version or a newer one, whatever expired, was evicted, purged or        *)
(* coalesced in between.                                                   *)
(***************************************************************************)
MonotonicReads ==
    \A r \in Requests : resp[r].status \in {"HIT", "MISS"} =>
        resp[r].entry.ver >= req[r].seen

(***************************************************************************)
(* When a purge fails to purge: an entry older than the last purge of its  *)
(* key is in the cache only if that purge overtook an answer of the origin *)
(* that was on its way into the cache.                                     *)
(***************************************************************************)
PurgeHoldsUnlessRaced ==
    \A k \in DOMAIN store : store[k].ver < floor[k] => k \in raced

\* Every request that arrives is answered in the end.
EveryRequestAnswered ==
    \A r \in Requests : pc[r] # "idle" ~> pc[r] = "done"

-----------------------------------------------------------------------------
(* What the documents and tests say and the code does not do.              *)

\* A GET is answered with the content of the resource.
GetHasContent ==
    \A r \in Requests :
        resp[r].status \in {"HIT", "MISS"} /\ req[r].method = "GET" =>
            resp[r].entry.method = "GET"

\* An answer that may not be stored reaches only the client it was made for.
PrivateStaysPrivate ==
    \A r \in Requests :
        resp[r].entry # NoEntry /\ resp[r].entry.class = "private" => resp[r].entry.by = r
=============================================================================
