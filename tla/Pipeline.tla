------------------------------ MODULE Pipeline ------------------------------
(***************************************************************************)
(* The way of a request through the proxy: Handler.ServeHTTP and the       *)
(* forwarding half of internal/proxy/handler.go, with the WAF of           *)
(* internal/waf/engine.go that it consults.                                *)
(*                                                                         *)
(* A body is a sequence of bytes.  A pattern is a mark: the body matches   *)
(* it when the mark is one of the bytes looked at, any other field of the  *)
(* request when the mark is in marks[field] (path: of the normalised or    *)
(* the raw path; query: of the raw or the decoded query; ip: none if the   *)
(* address has no IP).  The rate limiter, the policy and the cache are the *)
(* subject of modules of their own: here their answers are free choices.   *)
(***************************************************************************)
EXTENDS Integers, Sequences

CONSTANTS
    WAFConfigs,       \* what LoadWAFConfig may return
    Requests,         \* what a client may send
    Responses,        \* lengths of the origin's responses
    SecurityConfigs,  \* the limits of config.SecurityConfig
    NoConfig,         \* the nil *WAFConfig of a file that did not load
    None              \* nothing yet

Fields  == {"path", "query", "method", "agent", "header", "ip", "type"}
Modes   == {"shadow", "enforce", "other"}  \* nothing checks the mode
Actions == {"allow", "block", "log", "bypass_cache"}

Answers == {"builtin", "bad_request", "panic", "blocked", "limited", "hit",
            "fetched", "proxied", "bad_gateway"}

Rule == [id : Nat, enabled : BOOLEAN, action : STRING, status : Nat,
         any : SUBSET [fields : SUBSET (Fields \cup {"body"}), mark : STRING]]

Request == [builtin : BOOLEAN, contentLength : {"zero", "known", "unknown"},
            body : Seq(STRING), marks : [Fields -> SUBSET STRING], noCache : BOOLEAN]

SecurityConfig == [MaxBodyInspectBytes : Int \ {0}, MaxRequestBodyBytes : Int \ {0}]

(***************************************************************************)
(* A limit of 0 is replaced by a default, a negative one is accepted.  The *)
(* server hands over a body that agrees with its Content-Length.           *)
(***************************************************************************)
ASSUME PipelineAssumption ==
    /\ SecurityConfigs \subseteq SecurityConfig
    /\ NoConfig \notin [mode : Modes, rules : Seq(Rule)]
    /\ WAFConfigs \subseteq [mode : Modes, rules : Seq(Rule)] \cup {NoConfig}
    /\ Requests \subseteq {q \in Request : q.contentLength = "zero" => q.body = <<>>}
    /\ Responses \subseteq Nat
    /\ None \notin Nat \cup Seq(STRING)

VARIABLES
    pc,         \* the stage that comes next
    security,   \* cfg.Security
    mode,       \* Engine.mode
    rules,      \* the configured rules; Engine.rules are the enabled ones
    request,    \* the request as the client sent it
    body,       \* what is left to be read of r.Body
    inspected,  \* the variable body of ServeHTTP
    at,         \* which rule Evaluate has come to
    noCache,    \* r.Header["X-OpenFlare-No-Cache"] = "1"
    route,      \* which function of the handler talks to the origin
    received,   \* the body with which the origin processed the request
    produced,   \* the length of the origin's response
    answer      \* what the client got: how, status code, length

vars == <<pc, security, mode, rules, request, body, inspected, at, noCache,
          route, received, produced, answer>>

engine == <<security, mode, rules>>
exchange == <<route, received, produced>>

MaxBodyInspectBytes == security.MaxBodyInspectBytes
MaxRequestBodyBytes == security.MaxRequestBodyBytes

\* io.LimitReader, and a slice with an upper limit.
Limit(s, n) == IF n < Len(s) THEN SubSeq(s, 1, n) ELSE s

-----------------------------------------------------------------------------
(* The WAF engine.                                                         *)

\* One test that succeeds is enough; the body is looked at up to the limit.
matchCondition(cond, q, bytes) ==
    \E f \in cond.fields :
        IF f = "body"
        THEN \E i \in 1..Len(Limit(bytes, MaxBodyInspectBytes)) : bytes[i] = cond.mark
        ELSE cond.mark \in q.marks[f]

matchRule(rule, q, bytes) == \E cond \in rule.any : matchCondition(cond, q, bytes)

(***************************************************************************)
(* A rule decides if it is enabled, matches and has one of the four        *)
(* actions; any other action falls through the switch to the next rule.    *)
(***************************************************************************)
Decides(i, q, bytes) ==
    rules[i].enabled /\ matchRule(rules[i], q, bytes) /\ rules[i].action \in Actions

\* Mutant of Effective: the mode is not consulted.
EffectiveAlways(action) == action

\* Outside of mode enforce, block becomes log.
Effective(action) == IF action = "block" /\ mode # "enforce" THEN "log" ELSE action

Code(rule) == IF rule.status > 0 THEN rule.status ELSE 403

\* Mutant of GetBlockStatusCode: the loop does not stop at the rule.
LastStatusCode(id) == Code(rules[Len(rules)])

\* The status of the first enabled rule with that identifier.
GetBlockStatusCode(id) ==
    LET Named(i) == rules[i].enabled /\ rules[i].id = id
    IN Code(rules[CHOOSE i \in 1..Len(rules) :
                    Named(i) /\ \A j \in 1..(i - 1) : ~Named(j)])

-----------------------------------------------------------------------------
(* The stages.                                                             *)

Finish(how, code, length) ==
    pc' = "answered" /\ answer' = [how |-> how, code |-> code, length |-> length]

Init ==
    /\ pc = "start"
    /\ security \in SecurityConfigs
    /\ mode = "shadow" /\ rules = <<>>
    /\ request = None /\ body = <<>> /\ inspected = <<>>
    /\ at = 1 /\ noCache = FALSE /\ route = "none"
    /\ received = None /\ produced = None /\ answer = None

\* Without a configuration the WAF has no rules.
NewEngine ==
    /\ pc = "start"
    /\ pc' = "answered"
    /\ \E c \in WAFConfigs :
          IF c = NoConfig
          THEN mode' = "shadow" /\ rules' = <<>>
          ELSE mode' = c.mode /\ rules' = c.rules
    /\ UNCHANGED <<security, request, body, inspected, at, noCache, exchange, answer>>

\* The server calls ServeHTTP with the next request.
Arrive ==
    /\ pc = "answered"
    /\ pc' = "arrived"
    /\ request' \in Requests
    /\ body' = request'.body
    /\ noCache' = request'.noCache
    /\ inspected' = <<>> /\ at' = 1 /\ route' = "none"
    /\ received' = None /\ produced' = None /\ answer' = None
    /\ UNCHANGED engine

\* /healthz, /readyz and /metrics.
Builtin ==
    /\ pc = "arrived" /\ request.builtin
    /\ Finish("builtin", 200, 0)
    /\ UNCHANGED <<engine, request, body, inspected, at, noCache, exchange>>

SkipBody ==
    /\ pc = "arrived" /\ ~request.builtin /\ request.contentLength = "zero"
    /\ pc' = "inspect"
    /\ UNCHANGED <<engine, request, body, inspected, at, noCache, exchange, answer>>

\* Mutant of ReadBodyForInspection: the body is cut before it is restored.
ReadBodyCut ==
    /\ pc = "arrived" /\ ~request.builtin /\ request.contentLength # "zero"
    /\ MaxBodyInspectBytes >= 0
    /\ body' = Limit(body, MaxBodyInspectBytes)
    /\ inspected' = body'
    /\ pc' = "inspect"
    /\ UNCHANGED <<engine, request, at, noCache, exchange, answer>>

(***************************************************************************)
(* One byte more than the limit is read, and what was read takes the place *)
(* of the body.                                                            *)
(***************************************************************************)
ReadBodyForInspection ==
    /\ pc = "arrived" /\ ~request.builtin /\ request.contentLength # "zero"
    /\ MaxBodyInspectBytes >= 0
    /\ body' = Limit(body, MaxBodyInspectBytes + 1)
    /\ inspected' = Limit(body', MaxBodyInspectBytes)
    /\ pc' = "inspect"
    /\ UNCHANGED <<engine, request, at, noCache, exchange, answer>>

\* The client goes away, or the server's read timeout strikes.
ReadBodyFails ==
    /\ pc = "arrived" /\ ~request.builtin /\ request.contentLength # "zero"
    /\ Finish("bad_request", 400, 0)
    /\ UNCHANGED <<engine, request, body, inspected, at, noCache, exchange>>

\* A slice with a negative bound panics; the middleware Recovery answers.
ReadBodyPanics ==
    /\ pc = "arrived" /\ ~request.builtin /\ request.contentLength # "zero"
    /\ MaxBodyInspectBytes < 0
    /\ body' = <<>>
    /\ Finish("panic", 500, 0)
    /\ UNCHANGED <<engine, request, inspected, at, noCache, exchange>>

\* Mutant of NextRule: the loop steps over every second rule.
NextRuleByTwo ==
    /\ pc = "inspect" /\ at <= Len(rules) /\ ~Decides(at, request, inspected)
    /\ at' = at + 2
    /\ UNCHANGED <<pc, engine, request, body, inspected, noCache, exchange, answer>>

\* Evaluate goes on to the next rule.
NextRule ==
    /\ pc = "inspect" /\ at <= Len(rules) /\ ~Decides(at, request, inspected)
    /\ at' = at + 1
    /\ UNCHANGED <<pc, engine, request, body, inspected, noCache, exchange, answer>>

\* The action of the decision, once Evaluate has one; allow if no rule decides.
Decided == at <= Len(rules) => Decides(at, request, inspected)
Verdict == IF at <= Len(rules) THEN Effective(rules[at].action) ELSE "allow"

Block ==
    /\ pc = "inspect" /\ Decided /\ Verdict = "block"
    /\ Finish("blocked", GetBlockStatusCode(rules[at].id), 0)
    /\ UNCHANGED <<engine, request, body, inspected, at, noCache, exchange>>

\* The decisions allow and log change nothing.
Pass ==
    /\ pc = "inspect" /\ Decided /\ Verdict # "block"
    /\ pc' = "limit"
    /\ noCache' = (noCache \/ Verdict = "bypass_cache")
    /\ UNCHANGED <<engine, request, body, inspected, at, exchange, answer>>

\* Limiter.Allow says no.
Deny ==
    /\ pc = "limit"
    /\ Finish("limited", 429, 0)
    /\ UNCHANGED <<engine, request, body, inspected, at, noCache, exchange>>

(***************************************************************************)
(* Limiter.Allow says yes.  The request goes through the cache if the      *)
(* cache is enabled, the policy finds it cacheable and nobody marked it.   *)
(***************************************************************************)
Allow ==
    /\ pc = "limit"
    /\ \/ pc' = "cache" /\ route' = "fetchFromOrigin" /\ ~noCache
       \/ pc' = "forward" /\ route' = "proxyToOrigin"
    /\ UNCHANGED <<engine, request, body, inspected, at, noCache, received, produced, answer>>

Hit ==
    /\ pc = "cache"
    /\ \E n \in Responses : Finish("hit", 200, n)
    /\ UNCHANGED <<engine, request, body, inspected, at, noCache, exchange>>

Miss ==
    /\ pc = "cache"
    /\ pc' = "forward"
    /\ UNCHANGED <<engine, request, body, inspected, at, noCache, exchange, answer>>

(***************************************************************************)
(* net/http refuses to end a request whose body is shorter than its        *)
(* ContentLength.  The reverse proxy keeps ContentLength; the request that *)
(* fetchFromOrigin makes has none, as http.NewRequest does not know the    *)
(* length of this reader.                                                  *)
(***************************************************************************)
TooShort == route = "proxyToOrigin" /\ request.contentLength = "known"
                /\ Len(body) < Len(request.body)

Forward ==
    /\ pc = "forward" /\ ~TooShort
    /\ pc' = "respond"
    /\ received' = body /\ body' = <<>>
    /\ produced' \in Responses
    /\ UNCHANGED <<engine, request, inspected, at, noCache, route, answer>>

\* The transport reports an error, or the body is too short.
ForwardFails ==
    /\ pc = "forward"
    /\ Finish("bad_gateway", 502, 0)
    /\ body' = <<>>
    /\ UNCHANGED <<engine, request, inspected, at, noCache, exchange>>

\* io.LimitReader on a stream of n bytes.
LimitLength(n, max) == IF max < 0 THEN 0 ELSE IF max < n THEN max ELSE n

\* Mutant of fetchFromOrigin: the wrong limit is used.
fetchFromOriginInspected ==
    /\ pc = "respond" /\ route = "fetchFromOrigin"
    /\ Finish("fetched", 200, LimitLength(produced, MaxBodyInspectBytes))
    /\ UNCHANGED <<engine, request, body, inspected, at, noCache, exchange>>

\* The response is read up to the limit for requests.
fetchFromOrigin ==
    /\ pc = "respond" /\ route = "fetchFromOrigin"
    /\ Finish("fetched", 200, LimitLength(produced, MaxRequestBodyBytes))
    /\ UNCHANGED <<engine, request, body, inspected, at, noCache, exchange>>

\* The reverse proxy copies the response.
proxyToOrigin ==
    /\ pc = "respond" /\ route = "proxyToOrigin"
    /\ Finish("proxied", 200, produced)
    /\ UNCHANGED <<engine, request, body, inspected, at, noCache, exchange>>

ServeHTTP ==
    \/ Builtin \/ SkipBody \/ ReadBodyForInspection \/ ReadBodyFails \/ ReadBodyPanics
    \/ NextRule \/ Block \/ Pass \/ Deny \/ Allow \/ Hit \/ Miss
    \/ Forward \/ ForwardFails \/ fetchFromOrigin \/ proxyToOrigin

Next == NewEngine \/ Arrive \/ ServeHTTP

Spec == Init /\ [][Next]_vars

-----------------------------------------------------------------------------
(* Properties.                                                             *)

TypeOK ==
    /\ pc \in {"start", "answered", "arrived", "inspect", "limit", "cache", "forward", "respond"}
    /\ security \in SecurityConfig
    /\ mode \in Modes /\ rules \in Seq(Rule)
    /\ request \in Requests \/ (request = None /\ pc \in {"start", "answered"})
    /\ body \in Seq(STRING) /\ inspected \in Seq(STRING)
    /\ at \in Nat \ {0} /\ noCache \in BOOLEAN
    /\ route \in {"none", "fetchFromOrigin", "proxyToOrigin"}
    /\ received = None \/ received \in Seq(STRING)
    /\ produced = None \/ produced \in Nat
    /\ answer # None => answer.how \in Answers /\ answer.length \in Nat

(***************************************************************************)
(* What the origin gets is what the client sent, although the inspection   *)
(* consumed the body.  The exception is a body of more than one byte over  *)
(* the inspection limit that is sent on without a length.                  *)
(***************************************************************************)
BodyIntact ==
    received # None =>
        \/ received = request.body
        \/ /\ Len(request.body) > MaxBodyInspectBytes + 1
           /\ request.contentLength = "unknown" \/ route = "fetchFromOrigin"

(***************************************************************************)
(* The response reaches the client whole, unless it went through           *)
(* fetchFromOrigin and is longer than max_request_body_bytes.              *)
(***************************************************************************)
ResponseIntact ==
    answer # None /\ produced # None =>
        \/ answer.length = produced
        \/ route = "fetchFromOrigin" /\ produced > MaxRequestBodyBytes

\* Rule i is in force and matches what the client sent, as far as the WAF looks.
Matches(i) ==
    rules[i].enabled /\ matchRule(rules[i], request, Limit(request.body, MaxBodyInspectBytes))

PastWAF == pc \in {"limit", "cache", "forward", "respond"}
               \/ (answer # None /\ answer.how \in {"limited", "hit", "fetched", "proxied", "bad_gateway"})

(***************************************************************************)
(* In mode enforce a request that matches a block rule gets past the WAF   *)
(* only if it matches an earlier rule with another action.                 *)
(***************************************************************************)
BlocksUnlessOvertaken ==
    PastWAF /\ mode = "enforce" =>
        \A i \in 1..Len(rules) :
            rules[i].action = "block" /\ Matches(i) =>
                \E j \in 1..(i - 1) : Matches(j) /\ rules[j].action \in Actions \ {"block"}

\* Only a block rule that matches, in mode enforce, blocks a request.
BlocksForCause ==
    answer # None /\ answer.how = "blocked" =>
        mode = "enforce" /\ \E i \in 1..Len(rules) : rules[i].action = "block" /\ Matches(i)

(***************************************************************************)
(* When identifiers are unique, a blocked request is answered with the     *)
(* status of a block rule that it matches.                                 *)
(***************************************************************************)
BlockHasItsStatus ==
    /\ answer # None /\ answer.how = "blocked"
    /\ \A i, j \in 1..Len(rules) : rules[i].id = rules[j].id => i = j
    => \E i \in 1..Len(rules) :
          rules[i].action = "block" /\ Matches(i) /\ answer.code = Code(rules[i])

\* ReadBodyForInspection restores the body for the handlers downstream.
BodyRestored == received # None => received = request.body
=============================================================================
