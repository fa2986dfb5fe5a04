------------------------------ MODULE Exchange ------------------------------
(***************************************************************************)
(* One request on the public server, from net/http through the middleware  *)
(* of internal/middleware to the handler and back: what the client, the    *)
(* access log and the origin get to see.  The reverse proxy and the        *)
(* response writer of net/http are external, modelled from what the code   *)
(* relies on; the request is not a HEAD and comes by HTTP/1.1.  Each       *)
(* request has its own copy of all this state.                             *)
(*                                                                         *)
(* A body is a sequence of units, marked with who wrote them.              *)
(***************************************************************************)
EXTENDS Integers, Sequences

CONSTANTS
    RuleCodes,  \* status codes of WAF rules: nothing checks them
    InfoCodes,  \* informational codes of an origin
    OriginCodes,\* final codes of an origin
    MaxUnits,   \* bound on the units of an origin's body
    MaxInfo,    \* bound on the informational responses (the transport has one)
    MaxRequestBody, \* security.max_request_body_bytes, in units
    Forwarded,  \* X-Forwarded-For as clients send it: lines of addresses
    Peer        \* the address of the connection

Valid(code) == code \in 100 .. 999
Informational(code) == code \in (100 .. 199) \ {101}
Bodiless == {101, 204, 304}     \* the final codes whose answers have no body
Undeclared == -1

ASSUME BoundsAssumption == MaxUnits \in Nat /\ MaxInfo \in Nat /\ MaxRequestBody \in Nat
ASSUME CodesAssumption ==
    /\ RuleCodes \subseteq Nat     \* GetBlockStatusCode takes 403 for the others
    /\ \A code \in InfoCodes : Informational(code)
    /\ OriginCodes \subseteq 200 .. 999   \* an origin sends no code below 100
ASSUME ForwardedAssumption == Forwarded \subseteq Seq(Seq(STRING)) /\ Peer \in STRING

VARIABLES
    path,       \* "mux": the mux answers.  Else URL.Path, which the handler
                \* rewrites, as AccessLog reads it: valid UTF-8 ("text") or not ("bytes")
    pc, depth,  \* what happens next, and in which part of the chain
    trust,      \* security.trust_x_forwarded_for
    xff,        \* X-Forwarded-For, as it goes to the origin in the end
    ids,        \* the values of X-Request-ID in the header to be sent
    sw,         \* statusWriter: status, written
    conn,       \* the response on the wire
    origin,     \* the origin's answer: how it comes, its units, those not copied yet
    log,        \* access log entries of this request
    counted     \* by how much it raised RequestsTotal

vars == <<path, pc, depth, trust, xff, ids, sw, conn, origin, log, counted>>

\* Mutant of Chain: a panic passes AccessLog on its way to Recovery.
ChainSwapped == <<"RequestID", "Recovery", "AccessLog">>

\* NewPublicServer, from the outside to the inside.
Chain == <<"RequestID", "AccessLog", "Recovery">>

-----------------------------------------------------------------------------
(* The response writer.                                                    *)

\* net/http: the first final status counts, and fixes the header.
SendHeader(c, code, length, values) ==
    CASE Informational(code)                  -> [c EXCEPT !.info = @ + 1]
      [] ~Informational(code) /\ c.status = 0 ->
            [c EXCEPT !.status = code, !.length = length, !.ids = values]
      [] OTHER                                -> c

\* net/http: a body is not longer than declared; the rest is refused.  With
\* some codes everything is.
SendBody(c, units) ==
    LET body == c.body \o units
    IN IF c.status \notin Bodiless /\ (c.length = Undeclared \/ Len(body) <= c.length)
       THEN [c EXCEPT !.body = body] ELSE c

\* Mutant of WriteHeader: the last status is remembered.
WriteHeaderLast(code) == sw' = [status |-> code, written |-> TRUE]

\* statusWriter.WriteHeader remembers the first status, whatever becomes of it.
WriteHeader(code) == sw' = IF sw.written THEN sw ELSE [status |-> code, written |-> TRUE]

\* WriteHeader and Write of an answer the proxy makes itself.  net/http panics
\* on an invalid code; without a final one Write sends 200.
Answer(code, units) ==
    /\ WriteHeader(code)
    /\ IF Valid(code)
       THEN /\ LET sent == SendHeader(conn, code, Undeclared, ids)
               IN conn' = SendBody(SendHeader(sent, 200, Undeclared, ids), units)
            /\ pc' = "return"
       ELSE conn' = conn /\ pc' = "panic"

-----------------------------------------------------------------------------
(* The mux and the chain.                                                  *)

\* The mux serves /metrics, refuses the request *, redirects to a cleaner path,
\* or calls the chain.
Mux ==
    /\ pc = "mux"
    /\ \/ /\ path = "mux"
          /\ \E code \in {200, 301, 400, 500}, units \in {<<>>, <<"own">>} :
                conn' = SendBody(SendHeader(conn, code, Undeclared, ids), units)
          /\ pc' = "return"
       \/ path # "mux" /\ conn' = conn /\ pc' = "call"
    /\ UNCHANGED <<path, depth, trust, xff, ids, sw, origin, log, counted>>

Call ==
    /\ pc = "call" /\ depth < Len(Chain)
    /\ depth' = depth + 1
    /\ ids' = IF Chain[depth'] = "RequestID" THEN <<"own">> ELSE ids
    /\ UNCHANGED <<path, pc, trust, xff, sw, conn, origin, log, counted>>

\* AccessLog logs when the handler returns, and counts: WithLabelValues panics
\* on a path that is not UTF-8, outside Recovery.
Return ==
    /\ pc = "return" /\ depth > 0
    /\ IF Chain[depth] = "AccessLog"
       THEN /\ log' = Append(log, sw.status)
            /\ IF path = "bytes" THEN pc' = "panic" /\ counted' = counted
               ELSE pc' = pc /\ counted' = counted + 1
       ELSE UNCHANGED <<pc, log, counted>>
    /\ depth' = depth - 1
    /\ UNCHANGED <<path, trust, xff, ids, sw, conn, origin>>

\* Mutant of Recovery: the panic is only logged.
RecoverySilent ==
    /\ pc = "panic" /\ depth > 0
    /\ IF Chain[depth] = "Recovery" THEN pc' = "return" /\ depth' = depth
       ELSE depth' = depth - 1 /\ pc' = pc
    /\ UNCHANGED <<path, trust, xff, ids, sw, conn, origin, log, counted>>

\* A panic goes outwards up to Recovery, past what AccessLog would do.  There
\* http.Error answers, which is of no use once the header is sent.
Recovery ==
    /\ pc = "panic" /\ depth > 0
    /\ IF Chain[depth] = "Recovery" THEN Answer(500, <<"error">>) /\ depth' = depth
       ELSE depth' = depth - 1 /\ UNCHANGED <<pc, sw, conn>>
    /\ UNCHANGED <<path, trust, xff, ids, origin, log, counted>>

\* net/http ends the response, with 200 if nothing was written.  If the body is
\* shorter than declared it closes the connection and the client knows.
Finish ==
    /\ pc = "return" /\ depth = 0
    /\ LET sent == SendHeader(conn, 200, Undeclared, ids)
       IN conn' = [sent EXCEPT !.complete = sent.status \in Bodiless \/
                                            sent.length \in {Undeclared, Len(sent.body)}]
    /\ pc' = "done"
    /\ UNCHANGED <<path, depth, trust, xff, ids, sw, origin, log, counted>>

\* A panic gets to net/http, which closes the connection.  What its buffer still
\* holds is lost: all of the answer, or the end of a body that overflowed it.
Abort ==
    /\ pc = "panic" /\ depth = 0
    /\ \/ conn' = [conn EXCEPT !.status = 0, !.length = Undeclared, !.ids = <<>>, !.body = <<>>]
       \/ /\ conn.body # <<>>
          /\ \E n \in 0 .. Len(conn.body) :
                conn' = [conn EXCEPT !.body = SubSeq(conn.body, 1, n), !.complete = (conn.length = n)]
    /\ pc' = "done"
    /\ UNCHANGED <<path, depth, trust, xff, ids, sw, origin, log, counted>>

-----------------------------------------------------------------------------
(* The handler.                                                            *)

\* ServeHTTP, up to the forwarded headers.
Handling == pc = "call" /\ depth = Len(Chain)

\* A body that cannot be sliced, before anything is written.
Panic ==
    /\ Handling
    /\ pc' = "panic"
    /\ UNCHANGED <<path, depth, trust, xff, ids, sw, conn, origin, log, counted>>

\* A health check, a body that cannot be read, a block, which has the status of
\* its rule, or a denial by the rate limiter.
Refuse ==
    /\ Handling
    /\ \E code \in {200, 400, 429} \cup RuleCodes :
          (code = 200 /\ code \notin RuleCodes => path = "text") /\ Answer(code, <<"own">>)
    /\ UNCHANGED <<path, depth, trust, xff, ids, origin, log, counted>>

\* Mutant of SetForwardedHeaders: what the client claims is kept.
AppendForwarded ==
    /\ Handling
    /\ xff' = << (IF xff = <<>> THEN <<>> ELSE Head(xff)) \o <<Peer>> >>
    /\ pc' = "handle"
    /\ UNCHANGED <<path, depth, trust, ids, sw, conn, origin, log, counted>>

\* ServeHTTP comes to security.SetForwardedHeaders.  Get reads the first line,
\* Set replaces them all.
SetForwardedHeaders ==
    /\ Handling
    /\ xff' = << (IF trust /\ xff # <<>> THEN Head(xff) ELSE <<>>) \o <<Peer>> >>
    /\ pc' = "handle"
    /\ UNCHANGED <<path, depth, trust, ids, sw, conn, origin, log, counted>>

\* fetchFromOrigin returns an error.
FetchFails ==
    /\ pc = "handle"
    /\ Answer(502, <<"own">>)
    /\ UNCHANGED <<path, depth, trust, xff, ids, origin, log, counted>>

\* The body that an origin sends with a code, of the size it may declare.
Units(code, size) == IF code \in Bodiless THEN 0 ELSE size

\* What fetchFromOrigin keeps of an answer.
Kept(units) == IF units <= MaxRequestBody THEN units ELSE MaxRequestBody

\* Mutant of writeEntry: what was stored replaces what is there.
writeEntrySets ==
    /\ pc = "handle"
    /\ \E code \in OriginCodes, stored \in {<<>>, <<"origin">>}, units \in 0 .. MaxUnits :
          /\ ids' = IF stored = <<>> THEN ids ELSE stored
          /\ WriteHeader(code)
          /\ conn' = SendBody(SendHeader(conn, code, Undeclared, ids'), [i \in 1 .. Kept(units) |-> "origin"])
          /\ origin' = [via |-> "entry", units |-> units, left |-> 0]
    /\ pc' = "return"
    /\ UNCHANGED <<path, depth, trust, xff, log, counted>>

\* An entry, with the header fields of the origin; one of them may declare the
\* length that the body had before it was cut.  fetchFromOrigin, which is no
\* reverse proxy, takes 101 for an answer like any other.
writeEntry ==
    /\ pc = "handle"
    /\ \E code \in OriginCodes \cup {101}, stored \in {<<>>, <<"origin">>},
          size \in 0 .. MaxUnits, declared \in BOOLEAN :
          /\ ids' = ids \o stored
          /\ WriteHeader(code)
          /\ conn' = SendBody(SendHeader(conn, code, IF declared THEN size ELSE Undeclared, ids'),
                              [i \in 1 .. Kept(Units(code, size)) |-> "origin"])
          /\ origin' = [via |-> "entry", units |-> Units(code, size), left |-> 0]
    /\ pc' = "return"
    /\ UNCHANGED <<path, depth, trust, xff, log, counted>>

\* ReverseProxy adds the peer once more and sends the request on.
proxyToOrigin ==
    /\ pc = "handle"
    /\ xff' = <<Append(Head(xff), Peer)>>
    /\ pc' = "await"
    /\ UNCHANGED <<path, depth, trust, ids, sw, conn, origin, log, counted>>

\* An informational response is relayed, and the header map emptied after it.
Relay1xx ==
    /\ pc = "await" /\ conn.info < MaxInfo
    /\ \E code \in InfoCodes : WriteHeader(code) /\ conn' = SendHeader(conn, code, Undeclared, ids)
    /\ ids' = <<>>
    /\ UNCHANGED <<path, pc, depth, trust, xff, origin, log, counted>>

\* ErrorHandler: the origin cannot be reached, or it switches protocols, which
\* takes an http.Hijacker and statusWriter is none.
ErrorHandler ==
    /\ pc = "await"
    /\ ids' = <<"own">>
    /\ WriteHeader(502)
    /\ conn' = SendBody(SendHeader(conn, 502, Undeclared, ids'), <<"own">>)
    /\ pc' = "return"
    /\ UNCHANGED <<path, depth, trust, xff, origin, log, counted>>

RelayHeader ==
    /\ pc = "await"
    /\ \E code \in OriginCodes, size \in 0 .. MaxUnits, declared, echoes \in BOOLEAN :
          /\ ids' = IF echoes THEN Append(ids, "origin") ELSE ids
          /\ WriteHeader(code)
          /\ conn' = SendHeader(conn, code, IF declared THEN size ELSE Undeclared, ids')
          /\ origin' = [via |-> "proxy", units |-> Units(code, size), left |-> Units(code, size)]
    /\ pc' = "copy"
    /\ UNCHANGED <<path, depth, trust, xff, log, counted>>

CopyUnit ==
    /\ pc = "copy" /\ origin.left > 0
    /\ conn' = SendBody(conn, <<"origin">>)
    /\ origin' = [origin EXCEPT !.left = @ - 1]
    /\ UNCHANGED <<path, pc, depth, trust, xff, ids, sw, log, counted>>

\* The end of the body, or of the connection to the origin: ReverseProxy then
\* panics with ErrAbortHandler.
CopyEnds ==
    /\ pc = "copy"
    /\ pc' \in {"return", "panic"}
    /\ pc' = "return" => origin.left = 0
    /\ pc' = "panic" =>
          conn.status \notin Bodiless /\ (origin.left > 0 \/ conn.length = Undeclared)
    /\ UNCHANGED <<path, depth, trust, xff, ids, sw, conn, origin, log, counted>>

-----------------------------------------------------------------------------

Init ==
    /\ path \in {"mux", "text", "bytes"}
    /\ pc = "mux" /\ depth = 0
    /\ trust \in BOOLEAN
    /\ xff \in Forwarded
    /\ ids = <<>>
    /\ sw = [status |-> 200, written |-> FALSE]
    /\ conn = [info |-> 0, status |-> 0, length |-> Undeclared, ids |-> <<>>, body |-> <<>>,
               complete |-> FALSE]
    /\ origin = [via |-> "none", units |-> 0, left |-> 0]
    /\ log = <<>> /\ counted = 0

Next ==
    \/ Mux \/ Call \/ Return \/ Recovery \/ Finish \/ Abort
    \/ Panic \/ Refuse \/ SetForwardedHeaders \/ FetchFails \/ writeEntry \/ proxyToOrigin
    \/ Relay1xx \/ ErrorHandler \/ RelayHeader \/ CopyUnit \/ CopyEnds

Spec == Init /\ [][Next]_vars

-----------------------------------------------------------------------------

TypeOK ==
    /\ path \in {"mux", "text", "bytes"}
    /\ pc \in {"mux", "call", "handle", "await", "copy", "return", "panic", "done"}
    /\ depth \in 0 .. Len(Chain)
    /\ trust \in BOOLEAN
    /\ xff \in Seq(Seq(STRING))
    /\ ids \in Seq({"own", "origin"})
    /\ sw \in [status : Nat, written : BOOLEAN]
    /\ conn \in [info : Nat, status : Nat, length : Nat \cup {Undeclared},
                 ids : Seq({"own", "origin"}), body : Seq({"own", "origin", "error"}),
                 complete : BOOLEAN]
    /\ origin \in [via : {"none", "entry", "proxy"}, units : Nat, left : Nat]
    /\ log \in Seq(Nat)
    /\ counted \in Nat

(***************************************************************************)
(* A request that gets to the chain leaves exactly one line in the access  *)
(* log, also when its handler panics, and counts once in the metrics       *)
(* unless its path is no label for them.  What the mux answers does        *)
(* neither.                                                                *)
(***************************************************************************)
EveryRequestLogged ==
    pc = "done" =>
        IF path = "mux" THEN log = <<>> /\ counted = 0
        ELSE Len(log) = 1 /\ counted = IF path = "bytes" THEN 0 ELSE 1

(***************************************************************************)
(* The status in the log is the one on the wire, however the answer came   *)
(* about, but for these: an informational response went ahead; the rule    *)
(* has a status_code net/http refuses, and the client got 500; or counting *)
(* the request panicked, and the client got nothing.                       *)
(***************************************************************************)
LoggedIsSent ==
    pc = "done" => \A i \in DOMAIN log :
        \/ log[i] = conn.status
        \/ Informational(log[i]) /\ conn.info > 0
        \/ ~Valid(log[i]) /\ conn.status = 500
        \/ path = "bytes" /\ conn.status = 0

\* The body of the origin, or one the proxy has written.
Whole == conn.body \in {<<"own">>, [i \in 1 .. origin.units |-> "origin"]}

(***************************************************************************)
(* A response that looks complete to the client is whole, with two         *)
(* exceptions.  It ends in the error text of Recovery, with the status of  *)
(* the origin, if the origin breaks off in a body of unknown length, or    *)
(* with just as much missing as the text is long: Recovery hides from      *)
(* net/http the panic by which the reverse proxy has the connection        *)
(* closed.  Or the entry was cut by fetchFromOrigin and declares no length.*)
(***************************************************************************)
CutIsMarked ==
    pc = "done" /\ conn.complete =>
        \/ Whole
        \/ conn.body # <<>> /\ conn.body[Len(conn.body)] = "error"
        \/ origin.via = "entry" /\ origin.units > MaxRequestBody /\ conn.length = Undeclared

(***************************************************************************)
(* A client that gets an answer of the chain finds the identifier of its   *)
(* own request, the one in the log, first: also when the cache or the      *)
(* origin has another for it.  Only an informational response takes it     *)
(* away.                                                                   *)
(***************************************************************************)
OwnRequestIDFirst ==
    pc = "done" /\ path # "mux" /\ conn.status # 0 /\ conn.info = 0 =>
        conn.ids # <<>> /\ conn.ids[1] = "own"

(***************************************************************************)
(* The last address the origin reads is that of the connection, and unless *)
(* the configuration trusts them it reads none a client made up.           *)
(***************************************************************************)
NoSpoofedAddress ==
    pc \in {"handle", "await", "copy"} =>
        /\ Len(xff) = 1 /\ xff[1][Len(xff[1])] = Peer
        /\ ~trust => \A i \in DOMAIN xff[1] : xff[1][i] = Peer
=============================================================================
