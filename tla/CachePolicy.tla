---------------------------- MODULE CachePolicy ----------------------------
(***************************************************************************)
(* The cache policy, internal/cache/policy.go: may a request use the       *)
(* cache, may its response be stored, and for how long.                    *)
(*                                                                         *)
(* The test of a rule on paths is the set of the paths it accepts, None    *)
(* if the rule has none.  Cache-Control is a sequence of header lines, a   *)
(* line a sequence of directives; a directive is a word, with ext TRUE     *)
(* when the word is only a part of a longer one ("x-max-age"), and a value *)
(* of digits, NonDigit standing for any other character.                   *)
(***************************************************************************)
EXTENDS Integers, Sequences, SequencesExt

CONSTANTS
    Configs,    \* the switches of config.CacheConfig, and the default TTL
    RuleLists,  \* sequences of cache rules
    Requests,   \* what the policy reads of a request
    Responses,  \* what it reads of a response
    Limit,      \* Go's int and time.Duration go from -Limit to Limit - 1: 2^63
    Second,     \* time.Second
    None        \* no such test; no request or response yet

NonDigit == 10
NoValue  == <<-1>>

PathTest    == {None} \cup SUBSET STRING
CacheRule   == [exact : PathTest, prefix : PathTest, regex : PathTest,
                methods : SUBSET STRING, eligible : BOOLEAN, ttl : Int]
CacheConfig == [BypassOnAuthorization : BOOLEAN, BypassOnCookie : BOOLEAN,
                NeverStoreOnSetCookie : BOOLEAN, RespectOriginCC : BOOLEAN,
                DefaultTTLSeconds : Int]
Request     == [method : STRING, path : STRING, authorization : BOOLEAN, cookie : BOOLEAN]
Directive   == [word : STRING, ext : BOOLEAN, value : {NoValue} \cup Seq(0 .. NonDigit)]
Response    == [status : Nat, setCookie : BOOLEAN, cacheControl : Seq(Seq(Directive))]

ASSUME LimitAssumption == Limit \in Nat \ {0} /\ Second \in Nat \ {0}
ASSUME InputsAssumption ==
    /\ Configs \subseteq CacheConfig /\ RuleLists \subseteq Seq(CacheRule)
    /\ Requests \subseteq Request /\ Responses \subseteq Response

VARIABLES
    pc,        \* which decision comes next, or how the last one ended
    cfg,       \* Policy.cfg
    rules,     \* Policy.compiled
    request, response,
    ttl        \* what DetermineTTL returned

vars == <<pc, cfg, rules, request, response, ttl>>

Forbidden == {"no-store", "private", "no-cache"}

\* Two's complement.
Wrap(n) == ((n + Limit) % (2 * Limit)) - Limit

-----------------------------------------------------------------------------
(* Rules.                                                                  *)

\* A regexp that does not compile is None: NewPolicy drops the error.
matchRulePath(rule, path) ==
    LET tests == SelectSeq(<<rule.exact, rule.prefix, rule.regex>>, LAMBDA t : t # None)
    IN tests # <<>> /\ path \in Head(tests)

matchRuleMethod(rule, method) == rule.methods = {} \/ method \in rule.methods

matchRule(rule, rq) == matchRulePath(rule, rq.path) /\ matchRuleMethod(rule, rq.method)

\* The first rule that matches a request, 0 if none does.
DecidingRule(rq) == SelectInSeq(rules, LAMBDA rule : matchRule(rule, rq))

\* Mutant of IsRequestCacheable: a rule is asked before the headers are.
RulesFirst(rq) ==
    LET first == DecidingRule(rq)
    IN IF first # 0 THEN rules[first].eligible
       ELSE /\ rq.method \in {"GET", "HEAD"}
            /\ ~(cfg.BypassOnAuthorization /\ rq.authorization)
            /\ ~(cfg.BypassOnCookie /\ rq.cookie)

\* The first rule that matches decides; without one the request is eligible.
IsRequestCacheable(rq) ==
    LET first == DecidingRule(rq)
    IN /\ rq.method \in {"GET", "HEAD"}
       /\ ~(cfg.BypassOnAuthorization /\ rq.authorization)
       /\ ~(cfg.BypassOnCookie /\ rq.cookie)
       /\ first # 0 => rules[first].eligible

-----------------------------------------------------------------------------
(* Responses.                                                              *)

\* headers.Get: the first line with that name, "" if there is none.
HeaderGet(lines) == IF lines = <<>> THEN <<>> ELSE Head(lines)

\* strings.Contains: the word is looked for anywhere in the line.
HasWord(cc, word) == \E i \in DOMAIN cc : cc[i].word = word

IsResponseStorable(rs) ==
    LET cc == HeaderGet(rs.cacheControl)
    IN /\ rs.status >= 200 /\ rs.status < 300
       /\ \A word \in Forbidden : ~HasWord(cc, word)
       /\ ~(cfg.NeverStoreOnSetCookie /\ rs.setCookie)

LeadingDigits(value) ==
    LET end == SelectInSeq(value, LAMBDA c : c = NonDigit)
    IN IF end = 0 THEN value ELSE SubSeq(value, 1, end - 1)

\* The loop over the characters of a number; int wraps around.
Accumulate(digits) ==
    LET seconds[i \in 0 .. Len(digits)] ==
            IF i = 0 THEN 0 ELSE Wrap(seconds[i - 1] * 10 + digits[i])
    IN seconds[Len(digits)]

\* strings.Index: where "word=" is first found, 0 if it is not.
Occurrence(cc, word) == SelectInSeq(cc, LAMBDA d : d.word = word /\ d.value # NoValue)

\* Mutant of parseCCDirective: the last occurrence counts.
parseLastDirective(cc, word) ==
    LET at == SelectLastInSeq(cc, LAMBDA d : d.word = word /\ d.value # NoValue)
        seconds == Accumulate(LeadingDigits(cc[at].value))
    IN IF at = 0 \/ seconds <= 0 THEN 0 ELSE Wrap(seconds * Second)

(***************************************************************************)
(* The number after the first occurrence of "word=", up to a character     *)
(* that is not a digit; a Duration wraps around as well.                   *)
(***************************************************************************)
parseCCDirective(cc, word) ==
    LET at == Occurrence(cc, word)
        seconds == Accumulate(LeadingDigits(cc[at].value))
    IN IF at = 0 \/ seconds <= 0 THEN 0 ELSE Wrap(seconds * Second)

\* The first rule for a path that has a TTL, 0 if none has.
TTLRule(path) == SelectInSeq(rules, LAMBDA r : matchRulePath(r, path) /\ r.ttl > 0)

\* Mutant of DetermineTTL: what is not 0 counts as stated.
DetermineTTLNonZero(path, rs) ==
    LET rule    == TTLRule(path)
        cc      == HeaderGet(rs.cacheControl)
        sMaxAge == parseCCDirective(cc, "s-maxage")
        maxAge  == parseCCDirective(cc, "max-age")
    IN CASE rule # 0                              -> Wrap(rules[rule].ttl * Second)
         [] rule = 0 /\ cfg.RespectOriginCC /\ sMaxAge # 0 -> sMaxAge
         [] rule = 0 /\ cfg.RespectOriginCC /\ sMaxAge = 0 /\ maxAge # 0 -> maxAge
         [] OTHER                                 -> Wrap(cfg.DefaultTTLSeconds * Second)

\* Mutant of DetermineTTL: the loop over the rules does not stop.
DetermineTTLLastRule(path, rs) ==
    LET rule    == SelectLastInSeq(rules, LAMBDA r : matchRulePath(r, path) /\ r.ttl > 0)
        cc      == HeaderGet(rs.cacheControl)
        sMaxAge == parseCCDirective(cc, "s-maxage")
        maxAge  == parseCCDirective(cc, "max-age")
    IN CASE rule # 0                              -> Wrap(rules[rule].ttl * Second)
         [] rule = 0 /\ cfg.RespectOriginCC /\ sMaxAge > 0 -> sMaxAge
         [] rule = 0 /\ cfg.RespectOriginCC /\ sMaxAge <= 0 /\ maxAge > 0 -> maxAge
         [] OTHER                                 -> Wrap(cfg.DefaultTTLSeconds * Second)

\* The first of the four sources that gives a positive duration.  A rule is
\* chosen by its path only, not by its methods.
DetermineTTL(path, rs) ==
    LET rule    == TTLRule(path)
        cc      == HeaderGet(rs.cacheControl)
        sMaxAge == parseCCDirective(cc, "s-maxage")
        maxAge  == parseCCDirective(cc, "max-age")
    IN CASE rule # 0                              -> Wrap(rules[rule].ttl * Second)
         [] rule = 0 /\ cfg.RespectOriginCC /\ sMaxAge > 0 -> sMaxAge
         [] rule = 0 /\ cfg.RespectOriginCC /\ sMaxAge <= 0 /\ maxAge > 0 -> maxAge
         [] OTHER                                 -> Wrap(cfg.DefaultTTLSeconds * Second)

-----------------------------------------------------------------------------
(* The order in which handleWithCache asks.                                *)

AskRequest ==
    /\ pc = "request"
    /\ request' \in Requests
    /\ pc' = IF IsRequestCacheable(request') THEN "response" ELSE "bypass"
    /\ UNCHANGED <<cfg, rules, response, ttl>>

AskResponse ==
    /\ pc = "response"
    /\ response' \in Responses
    /\ pc' = IF IsResponseStorable(response') THEN "ttl" ELSE "relay"
    /\ UNCHANGED <<cfg, rules, request, ttl>>

AskTTL ==
    /\ pc = "ttl"
    /\ ttl' = DetermineTTL(request.path, response)
    /\ pc' = "stored"
    /\ UNCHANGED <<cfg, rules, request, response>>

\* The policy keeps nothing from one request to the next.
Again ==
    /\ pc \in {"bypass", "relay", "stored"}
    /\ pc' = "request" /\ request' = None /\ response' = None /\ ttl' = 0
    /\ UNCHANGED <<cfg, rules>>

Init ==
    /\ pc = "request" /\ request = None /\ response = None /\ ttl = 0
    /\ cfg \in Configs
    /\ rules \in RuleLists

Next == AskRequest \/ AskResponse \/ AskTTL \/ Again

Spec == Init /\ [][Next]_vars

-----------------------------------------------------------------------------

\* What the origin says in the first line, the only one the code looks at, read
\* as HTTP means it: a directive is a whole word, numbers do not wrap.
Directives == IF response.cacheControl = <<>> THEN <<>> ELSE response.cacheControl[1]

\* The places where a directive is stated with a value, and the first of them.
Stated(word) ==
    {i \in DOMAIN Directives :
        Directives[i].word = word /\ ~Directives[i].ext /\ Directives[i].value # NoValue}

Number(value) ==
    LET digits == LeadingDigits(value)
        number[i \in 0 .. Len(digits)] == IF i = 0 THEN 0 ELSE number[i - 1] * 10 + digits[i]
    IN number[Len(digits)]

StatedTTL(word) ==
    IF Stated(word) = {} THEN 0 ELSE Number(Directives[Min(Stated(word))].value) * Second

\* No directive of the response has a number too large for the code, or is
\* one that the code takes for another.
Plain ==
    \A i \in DOMAIN Directives :
        LET d == Directives[i]
        IN d.value # NoValue => ~d.ext /\ Number(d.value) * Second < Limit

\* The durations of the configuration fit, and the default is one: nothing
\* checks them when it is loaded.
DurationsFit ==
    /\ cfg.DefaultTTLSeconds * Second \in 1 .. Limit - 1
    /\ \A i \in DOMAIN rules : rules[i].ttl * Second < Limit

RuleGivesTTL ==
    \E i \in DOMAIN rules : matchRulePath(rules[i], request.path) /\ rules[i].ttl > 0

(***************************************************************************)
(* Whatever the rules say, a pair of request and response is stored only   *)
(* if the request carries no credential that the configuration excludes,   *)
(* and the response is a success that no directive of its first            *)
(* Cache-Control line forbids to store (the table in                       *)
(* docs/03-cache-strategy.md, which does not speak of several lines).      *)
(***************************************************************************)
ForbiddenNotStored ==
    pc = "stored" =>
        /\ request.method \in {"GET", "HEAD"}
        /\ cfg.BypassOnAuthorization => ~request.authorization
        /\ cfg.BypassOnCookie => ~request.cookie
        /\ response.status \in 200 .. 299
        /\ \A i \in DOMAIN Directives : Directives[i].word \in Forbidden => Directives[i].ext
        /\ cfg.NeverStoreOnSetCookie => ~response.setCookie

(***************************************************************************)
(* What the code reads in Cache-Control is what the origin wrote: without  *)
(* a rule, the TTL is the first s-maxage, else the first max-age, else the *)
(* default; for headers without look-alikes and numbers that fit.  As in   *)
(* the code a number 0 counts as absent, where docs/03-cache-strategy.md:  *)
(* 52-53 makes no such exception: max-age=0 is given the default TTL.      *)
(***************************************************************************)
StatedTTLApplies ==
    pc = "stored" /\ cfg.RespectOriginCC /\ ~RuleGivesTTL /\ Plain /\ DurationsFit =>
        ttl = CASE StatedTTL("s-maxage") > 0 -> StatedTTL("s-maxage")
                [] StatedTTL("s-maxage") = 0 /\ StatedTTL("max-age") > 0 -> StatedTTL("max-age")
                [] OTHER -> cfg.DefaultTTLSeconds * Second

(***************************************************************************)
(* The two loops over the rules, one by path and method and one by path    *)
(* only, agree: if the rule that made the request eligible gives a TTL,    *)
(* that is the TTL, unless a rule before it gives one that is for other    *)
(* methods.                                                                *)
(***************************************************************************)
TTLOfDecidingRule ==
    pc = "stored" /\ DurationsFit =>
      LET first == DecidingRule(request)
      IN first # 0 /\ rules[first].ttl > 0 =>
         \/ ttl = rules[first].ttl * Second
         \/ \E i \in 1 .. first - 1 :
               /\ matchRulePath(rules[i], request.path) /\ request.method \notin rules[i].methods
               /\ ttl = rules[i].ttl * Second

(***************************************************************************)
(* No header makes a stored entry dead on arrival: a number so large that  *)
(* it wraps around to a negative duration is passed over.  The durations of*)
(* the configuration have to be sane, they are used as they are.           *)
(***************************************************************************)
TTLPositive == pc = "stored" /\ DurationsFit => ttl > 0
=============================================================================
