---------------------------- MODULE RateLimiter ----------------------------
(***************************************************************************)
(* The token-bucket rate limiter, internal/ratelimit/limiter.go.           *)
(*                                                                         *)
(* limiters maps a key to a pointer: buckets are identified by their place *)
(* in heap, where a bucket stays after cleanup deleted it from the map.    *)
(* getLimiter reads the map under RLock, lets go, and locks again to touch *)
(* or to create the bucket; the token is taken after that, outside the     *)
(* lock.  Each of these is a step.  Nothing keeps two rules from having    *)
(* one identifier: they then share buckets, which have the burst and rate  *)
(* of the rule that made them.                                             *)
(***************************************************************************)
EXTENDS Integers, Sequences, FiniteSetsExt, Functions

CONSTANTS
    Requests,         \* requests that call Allow
    Clients,          \* records: ip, and apiKey, the X-API-Key header or ""
    Paths,            \* a path is the set of the prefixes it starts with
    Rules,            \* the enabled rules: id, key, prefix, burst, rate
    MaxInt,           \* the largest int
    CleanupInterval,  \* cleanupInterval, in units of time
    MaxTime           \* bound on the clock

ASSUME RulesAssumption ==
    /\ MaxInt \in Nat /\ Len(Rules) \in Nat
    /\ \A i \in 1 .. Len(Rules) : {Rules[i].burst, Rules[i].rate} \subseteq -MaxInt - 1 .. MaxInt
ASSUME CallersAssumption == Clients # {} /\ Paths # {}
ASSUME TimeAssumption    == CleanupInterval \in Nat /\ MaxTime \in Nat

VARIABLES
    pc,         \* request -> what it does next
    caller,     \* request -> its client and its path
    rule,       \* request -> the rule it is at
    held,       \* request -> the bucket getLimiter returned, 0 for none
    limiters,   \* key -> bucket
    heap,       \* the buckets ever made
    now,        \* the clock
    strict,     \* history: key -> what a bucket of the strictest values would hold
    loose,      \* history: key -> what a bucket of the loosest values would hold
    discarded,  \* history: the buckets cleanup deleted
    given       \* history: key -> the tokens cleanup gave away

request == <<pc, caller, rule, held>>
history == <<strict, loose, discarded, given>>
vars == <<request, limiters, heap, now, history>>

\* A missing API key counts as the key "anonymous".
ApiKey(c) == IF c.apiKey = "" THEN "anonymous" ELSE c.apiKey

\* The key is made of the identifier of the rule, which need not be unique, the
\* kind of key, and the client; identifiers are taken to hold no colon.
buildKey(i, c) ==
    CASE Rules[i].key = "ip_path" -> <<Rules[i].id, "ip_path", c.ip, Rules[i].prefix>>
      [] Rules[i].key = "api_key" -> <<Rules[i].id, "api_key", ApiKey(c)>>
      [] OTHER -> <<Rules[i].id, "ip", c.ip>>

BucketKeys == {buildKey(i, c) : i \in 1 .. Len(Rules), c \in Clients}

KeyOf(r) == buildKey(rule[r], caller[r].client)

Bucket == [key : BucketKeys, rule : 1 .. Len(Rules), tokens : Int, lastSeen : Nat]

\* What a bucket made by rule i holds at most, and regains per unit of time:
\* nothing below zero, and nothing at all if the rate is negative.
Positive(n) == IF n > 0 THEN n ELSE 0
Full(i) == IF Rules[i].rate < 0 THEN 0 ELSE Positive(Rules[i].burst)
Regain(i) == Positive(Rules[i].rate)

\* What a bucket has to regain to be full.
Lacks(bucket) == Full(bucket.rule) - bucket.tokens

\* The rules that share a key, and the extremes of what they say.
Sharers(k) == {i \in 1 .. Len(Rules) : \E c \in Clients : buildKey(i, c) = k}
LeastFull(k) == Min({Full(i) : i \in Sharers(k)})
LeastRegain(k) == Min({Regain(i) : i \in Sharers(k)})
MostFull(k) == Max({Full(i) : i \in Sharers(k)})
MostRegain(k) == Max({Regain(i) : i \in Sharers(k)})

Goto(r, step) == pc' = [pc EXCEPT ![r] = step]

MinOf(a, b) == IF a < b THEN a ELSE b

-----------------------------------------------------------------------------
(* Allow.                                                                  *)

\* An exempt request is let through at once.
Arrive(r) ==
    /\ pc[r] = "idle"
    /\ \E c \in Clients, p \in Paths, exempt \in BOOLEAN :
         /\ caller' = [caller EXCEPT ![r] = [client |-> c, path |-> p]]
         /\ Goto(r, IF exempt THEN "allowed" ELSE "rule")
    /\ UNCHANGED <<rule, held, limiters, heap, now, history>>

\* The loop over the rules: skip those whose prefix the path does not have (every
\* path has the empty prefix).
NextRule(r) ==
    /\ pc[r] = "rule"
    /\ \/ /\ rule[r] = Len(Rules)
          /\ Goto(r, "allowed")
          /\ UNCHANGED rule
       \/ /\ rule[r] < Len(Rules)
          /\ rule' = [rule EXCEPT ![r] = @ + 1]
          /\ Goto(r, IF Rules[rule[r] + 1].prefix \in caller[r].path THEN "find" ELSE "rule")
    /\ UNCHANGED <<caller, held, limiters, heap, now, history>>

\* getLimiter, under RLock.
Find(r) ==
    /\ pc[r] = "find"
    /\ \/ /\ KeyOf(r) \in DOMAIN limiters
          /\ held' = [held EXCEPT ![r] = limiters[KeyOf(r)]]
          /\ Goto(r, "touch")
       \/ /\ KeyOf(r) \notin DOMAIN limiters
          /\ Goto(r, "create")
          /\ UNCHANGED held
    /\ UNCHANGED <<caller, rule, limiters, heap, now, history>>

\* getLimiter, under Lock again: the bucket may have left the map meanwhile.
Touch(r) ==
    /\ pc[r] = "touch"
    /\ heap' = [heap EXCEPT ![held[r]].lastSeen = now]
    /\ Goto(r, "take")
    /\ UNCHANGED <<caller, rule, held, limiters, now, history>>

\* Mutant of NewBucket: the bucket starts empty.
NewBucketEmpty(r) ==
    /\ heap' = Append(heap, [key |-> KeyOf(r), rule |-> rule[r], tokens |-> 0, lastSeen |-> now])
    /\ limiters' = [k \in DOMAIN limiters \cup {KeyOf(r)} |->
                      IF k = KeyOf(r) THEN Len(heap) + 1 ELSE limiters[k]]
    /\ held' = [held EXCEPT ![r] = Len(heap) + 1]

\* The bucket has the burst and the rate of the rule of this request.
NewBucket(r) ==
    /\ heap' = Append(heap, [key |-> KeyOf(r), rule |-> rule[r], tokens |-> Full(rule[r]),
                             lastSeen |-> now])
    /\ limiters' = [k \in DOMAIN limiters \cup {KeyOf(r)} |->
                      IF k = KeyOf(r) THEN Len(heap) + 1 ELSE limiters[k]]
    /\ held' = [held EXCEPT ![r] = Len(heap) + 1]

\* Mutant of Create: no double check after the write lock.
CreateUnchecked(r) ==
    /\ pc[r] = "create"
    /\ NewBucket(r)
    /\ Goto(r, "take")
    /\ UNCHANGED <<caller, rule, now, history>>

\* getLimiter, under Lock: another request may have made the bucket.
Create(r) ==
    /\ pc[r] = "create"
    /\ \/ /\ KeyOf(r) \in DOMAIN limiters
          /\ held' = [held EXCEPT ![r] = limiters[KeyOf(r)]]
          /\ heap' = [heap EXCEPT ![limiters[KeyOf(r)]].lastSeen = now]
          /\ UNCHANGED limiters
       \/ /\ KeyOf(r) \notin DOMAIN limiters
          /\ NewBucket(r)
    /\ Goto(r, "take")
    /\ UNCHANGED <<caller, rule, now, history>>

\* limiter.Allow of x/time/rate: one token or a denial.  What is taken from a
\* bucket that cleanup has deleted is given away.
Take(r) ==
    /\ pc[r] = "take"
    /\ \/ /\ heap[held[r]].tokens >= 1
          /\ heap' = [heap EXCEPT ![held[r]].tokens = @ - 1]
          /\ strict' = [strict EXCEPT ![KeyOf(r)] = @ - 1]
          /\ loose' = [loose EXCEPT ![KeyOf(r)] = @ - 1]
          /\ \/ /\ held[r] \in discarded
                /\ given' = [given EXCEPT ![KeyOf(r)] = @ + 1]
             \/ /\ held[r] \notin discarded
                /\ UNCHANGED given
          /\ Goto(r, "rule")
       \/ /\ heap[held[r]].tokens < 1
          /\ Goto(r, "denied")
          /\ UNCHANGED <<heap, strict, loose, given>>
    /\ held' = [held EXCEPT ![r] = 0]
    /\ UNCHANGED <<caller, rule, limiters, now, discarded>>

-----------------------------------------------------------------------------

\* cleanup, under Lock; its ticker fires after an interval or later.  It gives
\* away what a bucket it deletes lacks: the next one of that key is full.
Cleanup ==
    LET stale == {k \in DOMAIN limiters :
                    heap[limiters[k]].lastSeen < now - CleanupInterval}
    IN /\ now >= CleanupInterval
       /\ limiters' = Restrict(limiters, DOMAIN limiters \ stale)
       /\ discarded' = discarded \cup {limiters[k] : k \in stale}
       /\ given' = [k \in BucketKeys |->
                      IF k \in stale THEN given[k] + Lacks(heap[limiters[k]]) ELSE given[k]]
       /\ UNCHANGED <<request, heap, now, strict, loose>>

\* Time passes; every bucket regains tokens up to its burst.
Tick ==
    /\ now < MaxTime
    /\ now' = now + 1
    /\ heap' = [b \in DOMAIN heap |->
                  [heap[b] EXCEPT !.tokens = MinOf(Full(heap[b].rule), @ + Regain(heap[b].rule))]]
    /\ strict' = [k \in BucketKeys |-> MinOf(LeastFull(k), strict[k] + LeastRegain(k))]
    /\ loose' = [k \in BucketKeys |-> MinOf(MostFull(k), loose[k] + MostRegain(k))]
    /\ UNCHANGED <<request, limiters, discarded, given>>

Init ==
    /\ pc = [r \in Requests |-> "idle"]
    /\ caller = [r \in Requests |-> [client |-> CHOOSE c \in Clients : TRUE,
                               path |-> CHOOSE p \in Paths : TRUE]]
    /\ rule = [r \in Requests |-> 0]
    /\ held = [r \in Requests |-> 0]
    /\ limiters = [k \in {} |-> 0]
    /\ heap = <<>>
    /\ now = 0
    /\ strict = [k \in BucketKeys |-> LeastFull(k)]
    /\ loose = [k \in BucketKeys |-> MostFull(k)]
    /\ discarded = {}
    /\ given = [k \in BucketKeys |-> 0]

Step(r) == NextRule(r) \/ Find(r) \/ Touch(r) \/ Create(r) \/ Take(r)

Next == (\E r \in Requests : Arrive(r) \/ Step(r)) \/ Cleanup \/ Tick

Spec == Init /\ [][Next]_vars

-----------------------------------------------------------------------------

TypeOK ==
    /\ pc \in [Requests -> {"idle", "rule", "find", "touch", "create", "take",
                            "allowed", "denied"}]
    /\ caller \in [Requests -> [client : Clients, path : Paths]]
    /\ rule \in [Requests -> 0 .. Len(Rules)]
    /\ held \in [Requests -> 0 .. Len(heap)]
    /\ heap \in Seq(Bucket)
    /\ DOMAIN limiters \subseteq BucketKeys
    /\ \A k \in DOMAIN limiters : limiters[k] \in 1 .. Len(heap)
    /\ now \in Nat
    /\ strict \in [BucketKeys -> Int]
    /\ loose \in [BucketKeys -> Int]
    /\ discarded \subseteq 1 .. Len(heap)
    /\ given \in [BucketKeys -> Nat]

(***************************************************************************)
(* The limiter never denies what the rules of a key allow: every bucket    *)
(* of a key, in the map or not, holds at least what a single one with the  *)
(* smallest burst and rate of the rules that share the key would.  Where   *)
(* identifiers are unique, that is the burst and rate of the rule itself;  *)
(* where they are not, the rule that comes first decides for the others.   *)
(***************************************************************************)
NeverOverThrottled ==
    \A b \in 1 .. Len(heap) : heap[b].tokens >= strict[heap[b].key]

(***************************************************************************)
(* However many requests race to create or touch a bucket, a key is        *)
(* granted no more than the largest burst and rate of the rules that share *)
(* it allow, and what cleanup gave away: what the buckets it deleted       *)
(* lacked, and what was still taken from them.                             *)
(***************************************************************************)
GrantsAreBounded ==
    \A k \in BucketKeys : loose[k] + given[k] >= 0
=============================================================================
