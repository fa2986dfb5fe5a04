----------------------------- MODULE KeyedCache -----------------------------
(***************************************************************************)
(* What a request is stored under and found by: the target a client sends, *)
(* the path and query ServeHTTP makes of it, the cache key, what goes to   *)
(* the origin, and the admin API that purges by key, path or prefix.       *)
(*                                                                         *)
(* A request is a target and a query (texts, see Normalize) and the items  *)
(* of its Accept-Encoding header.  Requests are one at a time here: their  *)
(* interleavings are the subject of CachedHandler.                         *)
(***************************************************************************)
EXTENDS Normalize

CONSTANTS
    Requests,     \* [target, query, accept]
    PurgeTexts,   \* what an operator sends as "key" or "url"
    PurgePrefixes,     \* ... and as "prefix"
    Credentials,  \* Authorization headers, split at the first space
    AuthToken,    \* admin_api.auth_token, <<>> if there is none
    MaxEntries    \* cache.max_entries

ASSUME MaxEntriesAssumption == MaxEntries \in Nat \ {0}

\* A target begins with a slash, and a query that parses is a sequence of
\* parameters, one of which may be a bar.
ASSUME RequestsAssumption ==
    \A rq \in Requests :
        /\ rq \in [target : Text, query : Text, accept : Seq([enc : Nat, q : Nat])]
        /\ rq.target # <<>> /\ rq.target[1] = Slash
        /\ Unescapable(rq.query) =>
              \A i \in DOMAIN rq.query :
                  rq.query[i] = Bar \/ (rq.query[i][1] = "p" /\ rq.query[i][2] > 0)

ASSUME PurgesAssumption == PurgeTexts \subseteq Text /\ PurgePrefixes \subseteq Text

VARIABLES
    store,   \* key -> entry
    last     \* what the last action did

vars == <<store, last>>

-----------------------------------------------------------------------------
(* From a client to the origin.                                            *)

\* net/http decodes the target once, ServeHTTP normalises (and decodes) it.
URLPath == [rq \in Requests |-> Path(Unescape(rq.target))]

URLQuery == [rq \in Requests |-> Query(rq.query)]

\* http.ServeMux redirects a target that is not clean as it is written.
Redirected ==
    {rq \in Requests : rq.target \notin {Clean(rq.target), Append(Clean(rq.target), Slash)}}

\* URL.EscapedPath of a path without a RawPath.
EscapePath(p) ==
    [i \in DOMAIN p |-> IF p[i][2] > 0 \/ p[i] \in {Bar, Percent} THEN <<p[i][1], p[i][2] + 1>> ELSE p[i]]

\* RawPath still holds the target; it is sent if it is a valid encoding of Path.
OriginURL ==
    [rq \in Requests |->
        IF Unescape(rq.target) = URLPath[rq] /\ ~Contains(rq.target, Bar)
        THEN rq.target ELSE EscapePath(URLPath[rq])]

cacheKey == [rq \in Requests |-> CacheKey(URLPath[rq], URLQuery[rq], rq.accept)]

\* An origin answers in an encoding that the header allows.
Acceptable(accept) ==
    {Identity} \cup {item.enc : item \in {i \in ToSet(accept) : i.q > 0}}

-----------------------------------------------------------------------------
(* MemoryBackend, as far as it takes keys apart.                           *)

Without(keys) == [k \in DOMAIN store \ keys |-> store[k]]

Put(entries, key, entry) ==
    [k \in DOMAIN entries \cup {key} |-> IF k = key THEN entry ELSE entries[k]]

\* Mutant of DeleteByPath: the path need not end where the text does.
DeleteByPathPrefix(text) == {k \in DOMAIN store : IsPrefix(text, splitCacheKey(k)[3])}

DeleteByPath(text) == {k \in DOMAIN store : splitCacheKey(k)[3] = text}

containsPrefix(key, prefix) == IsPrefix(prefix, splitCacheKey(key)[3])

-----------------------------------------------------------------------------
(* The public server.                                                      *)

Redirect(rq) ==
    /\ rq \in Redirected
    /\ last' = [op |-> "301"]
    /\ UNCHANGED store

Hit(rq) ==
    /\ rq \notin Redirected
    /\ cacheKey[rq] \in DOMAIN store
    /\ last' = [op |-> "HIT", request |-> rq, entry |-> store[cacheKey[rq]]]
    /\ UNCHANGED store

\* Which entry is evicted is the subject of MemoryBackend.
Miss(rq) ==
    /\ rq \notin Redirected
    /\ cacheKey[rq] \notin DOMAIN store
    /\ \E enc \in Acceptable(rq.accept), evicted \in SUBSET DOMAIN store :
          LET entry == [url |-> OriginURL[rq], query |-> URLQuery[rq], enc |-> enc, request |-> rq]
          IN /\ Cardinality(evicted) = IF Cardinality(DOMAIN store) < MaxEntries THEN 0 ELSE 1
             /\ store' = Put(Without(evicted), cacheKey[rq], entry)
             /\ last' = [op |-> "MISS", request |-> rq, entry |-> entry]

-----------------------------------------------------------------------------
(* The admin server.                                                       *)

\* "Bearer" and the token, or the token alone.  EqualFold ignores case.
authenticate(auth) ==
    \/ AuthToken = <<>>
    \/ auth # <<>> /\ (IF Len(auth) = 2 /\ auth[1] \in {"Bearer", "bearer"}
                       THEN Tail(auth) ELSE auth) = AuthToken

Refuse ==
    /\ \E auth \in Credentials : ~authenticate(auth)
    /\ last' = [op |-> "401"]
    /\ UNCHANGED store

\* An exact key first; then, if the text begins with a slash, a path.
handleCachePurge(text) ==
    /\ \E auth \in Credentials : authenticate(auth)
    /\ LET removed == IF text \in DOMAIN store THEN {text}
                      ELSE IF text # <<>> /\ text[1] = Slash THEN DeleteByPath(text)
                      ELSE {}
       IN store' = Without(removed)
    /\ last' = [op |-> "purge", text |-> text]

handleCachePurgePrefix(prefix) ==
    /\ \E auth \in Credentials : authenticate(auth)
    /\ store' = Without({k \in DOMAIN store : containsPrefix(k, prefix)})
    /\ last' = [op |-> "purge-prefix", text |-> prefix]

handleCachePurgeAll ==
    /\ \E auth \in Credentials : authenticate(auth)
    /\ store' = <<>>
    /\ last' = [op |-> "purge-all"]

\* Statistics, an unknown path or method, a body that is not JSON.
AdminReads ==
    /\ \E auth \in Credentials : authenticate(auth)
    /\ last' = [op |-> "read"]
    /\ UNCHANGED store

Init == store = <<>> /\ last = [op |-> "start"]

Next ==
    \/ \E rq \in Requests : Redirect(rq) \/ Hit(rq) \/ Miss(rq)
    \/ \E text \in PurgeTexts : handleCachePurge(text)
    \/ \E prefix \in PurgePrefixes : handleCachePurgePrefix(prefix)
    \/ handleCachePurgeAll \/ AdminReads \/ Refuse

Spec == Init /\ [][Next]_vars

-----------------------------------------------------------------------------

(***************************************************************************)
(* What the code cannot handle: the key decodes the path once more than    *)
(* the origin does, an escaped slash is a slash for the proxy only, and a  *)
(* bar shifts the parts of the key.                                        *)
(***************************************************************************)
Awkward ==
    {rq \in Requests :
        \/ Path(URLPath[rq]) # URLPath[rq]
        \/ Contains(rq.target, <<"/", 1>>)
        \/ Contains(URLPath[rq], Bar)}

\* A path as an origin reads it: split at the slashes, then decoded.
Segments(url) == LET parts == Split(url, Slash) IN [i \in DOMAIN parts |-> Unescape(parts[i])]

(***************************************************************************)
(* A client never gets the stored answer to another path or query than the *)
(* one it asked for: CacheKey tells apart what the origin tells apart.     *)
(***************************************************************************)
OwnAnswer ==
    last.op = "HIT" /\ {last.request, last.entry.request} \cap Awkward = {} =>
        /\ Segments(last.entry.url) = Segments(OriginURL[last.request])
        /\ last.entry.query = URLQuery[last.request]

\* The items of t are those of s, in another order.
Rearranged(s, t) ==
    \E p \in Bijection(DOMAIN t, DOMAIN s) : \A i \in DOMAIN t : t[i] = s[p[i]]

Encodings(accept) == [i \in DOMAIN accept |-> accept[i].enc]

(***************************************************************************)
(* And the order of parameters and of encodings, and the escapes a client  *)
(* writes, make no second entry, unless the query does not parse.  This is *)
(* less than docs/03-cache-strategy.md:31-33 says of the key: the code     *)
(* keeps a repeated parameter (p1 and p1&p1 are two entries), the case of  *)
(* letters in a path, and every list of encodings, where the document has  *)
(* duplicates dropped, paths in lower case and encodings in categories.    *)
(***************************************************************************)
OrderMakesNoDifference ==
    \A k, l \in DOMAIN store :
        LET a == store[k].request
            b == store[l].request
        IN /\ Unescape(a.target) = Unescape(b.target)
           /\ Rearranged(a.query, b.query) /\ Unescapable(a.query)
           /\ Rearranged(Encodings(a.accept), Encodings(b.accept))
           => k = l

(***************************************************************************)
(* However often its dots and slashes were escaped, no path reaches the    *)
(* origin that its own decoding turns into dot segments or empty segments: *)
(* the path the WAF has inspected is the one the origin reads.             *)
(***************************************************************************)
NoDotSegments ==
    last.op = "MISS" =>
        LET read  == Unescape(last.entry.url)
            parts == Split(read, Slash)
        IN /\ read = URLPath[last.request]
           /\ \A i \in 2 .. Len(parts) :
                 /\ parts[i] \notin {<<Dot>>, <<Dot, Dot>>}
                 /\ parts[i] = <<>> => i = Len(parts)

(***************************************************************************)
(* The key lists the names of the header and drops the weights, so a       *)
(* client gets an encoding it accepts, unless it listed one to refuse it   *)
(* ("gzip;q=0" shares its key with "gzip").                                *)
(***************************************************************************)
EncodingAcceptable ==
    last.op = "HIT" /\ (\A i \in DOMAIN last.request.accept : last.request.accept[i].q > 0) =>
        last.entry.enc \in Acceptable(last.request.accept)

(***************************************************************************)
(* A purge by path removes every entry of that path, whatever its query    *)
(* and encoding, and no other; a purge by prefix every entry below it.     *)
(***************************************************************************)
PurgeIsExact ==
    [][last'.op \in {"purge", "purge-prefix"} /\ last'.text \notin DOMAIN store =>
         \A k \in DOMAIN store :
            LET path == URLPath[store[k].request]
            IN store[k].request \notin Awkward =>
                 (k \notin DOMAIN store' <=> IF last'.op = "purge" THEN path = last'.text
                                             ELSE IsPrefix(last'.text, path))]_vars
=============================================================================
