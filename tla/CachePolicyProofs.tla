------------------------- MODULE CachePolicyProofs -------------------------
(***************************************************************************)
(* Proofs about CachePolicy, for all rules, configurations, requests and   *)
(* responses, and for integers of any width.                               *)
(***************************************************************************)
EXTENDS CachePolicy, SequenceTheorems, WellFoundedInduction, TLAPS

-----------------------------------------------------------------------------
(* Numbers.                                                                *)

\* A set of natural numbers has a least element.
LEMMA Least ==
    ASSUME NEW T, T \subseteq Nat, T # {}
    PROVE  \E x \in T : \A y \in T : x <= y
<1> DEFINE R == OpToRel(<, Nat)
<1>1. IsWellFoundedOn(R, Nat)
  BY NatLessThanWellFounded
<1>2. R = {pair \in Nat \X Nat : pair[1] < pair[2]}
  BY DEF OpToRel
<1> HIDE DEF R
<1>3. PICK x \in T : \A y \in T : ~(<<y, x>> \in R)
  BY <1>1, WFMin, Zenon
<1>4. ASSUME NEW y \in T PROVE x <= y
  <2>1. x \in Nat /\ y \in Nat
    OBVIOUS
  <2>2. ~(y < x)
    BY <1>2, <1>3, <2>1
  <2>3. QED
    BY <2>1, <2>2
<1>5. QED
  BY <1>4

\* Induction over the natural numbers, for a set.
LEMMA SetInduction ==
    ASSUME NEW T, T \subseteq Nat, 0 \in T, \A n \in T : n + 1 \in T
    PROVE  T = Nat
<1> SUFFICES ASSUME Nat \ T # {} PROVE FALSE
  OBVIOUS
<1>1. PICK x \in Nat \ T : \A y \in Nat \ T : x <= y
  BY Least
<1>2. x # 0 /\ x - 1 \in Nat /\ x - 1 \in T
  BY <1>1
<1>3. QED
  BY <1>2

\* What Min chooses.
LEMMA MinEffect ==
    ASSUME NEW T, T \subseteq Nat, T # {}
    PROVE  Min(T) \in T /\ \A y \in T : Min(T) <= y
BY Least DEF Min

\* Numbers that fit do not wrap around.
LEMMA WrapFits ==
    ASSUME NEW n \in Int, -Limit <= n, n < Limit
    PROVE  Wrap(n) = n
<1>1. Limit \in Nat \ {0}
  BY LimitAssumption
<1> DEFINE m == n + Limit  w == 2 * Limit
<1>2. m \in 0 .. w - 1 /\ w \in Nat \ {0}
  BY <1>1
<1>3. Wrap(n) = (m % w) - Limit
  BY DEF Wrap
<1> HIDE DEF m, w
<1>4. m % w = m
  BY <1>2
<1>5. QED
  BY <1>1, <1>3, <1>4 DEF m

\* The first of the positions in I.
LEMMA FirstOf ==
    ASSUME NEW n \in Nat, NEW I \in SUBSET (1 .. n),
           NEW first, first = IF I # {} THEN Min(I) ELSE 0
    PROVE  /\ first \in 0 .. n
           /\ first = 0 <=> I = {}
           /\ first # 0 => first \in I /\ \A j \in I : first <= j
<1>1. I \subseteq Nat
  OBVIOUS
<1>2. I # {} => Min(I) \in I /\ \A j \in I : Min(I) <= j
  BY <1>1, MinEffect, Zenon
<1>3. CASE I = {}
  BY <1>3
<1>4. CASE I # {}
  <2>1. first = Min(I)
    BY <1>4
  <2>2. first \in I /\ \A j \in I : first <= j
    BY <1>2, <1>4, <2>1
  <2>3. QED
    BY <1>4, <2>2
<1>5. QED
  BY <1>3, <1>4

\* Both loops over the rules stop at the first one that fits.
LEMMA DecidingRuleEffect ==
    ASSUME NEW rq, rules \in Seq(CacheRule)
    PROVE  LET first == DecidingRule(rq)
           IN /\ first \in 0 .. Len(rules)
              /\ first # 0 => matchRule(rules[first], rq)
              /\ \A j \in 1 .. Len(rules) : matchRule(rules[j], rq) => first # 0 /\ first <= j
<1> DEFINE I == {i \in 1 .. Len(rules) : matchRule(rules[i], rq)}
           first == DecidingRule(rq)
<1>1. first = IF I # {} THEN Min(I) ELSE 0
  BY DEF DecidingRule, SelectInSeq
<1>2. I \in SUBSET (1 .. Len(rules)) /\ Len(rules) \in Nat
  BY LenProperties
<1> HIDE DEF first, I
<1>3. /\ first \in 0 .. Len(rules)
      /\ first = 0 <=> I = {}
      /\ first # 0 => first \in I /\ \A j \in I : first <= j
  BY <1>1, <1>2, FirstOf, Zenon
<1>4. QED
  BY <1>3 DEF first, I

LEMMA TTLRuleEffect ==
    ASSUME NEW path, rules \in Seq(CacheRule)
    PROVE  LET first == TTLRule(path)
           IN /\ first \in 0 .. Len(rules)
              /\ first # 0 => matchRulePath(rules[first], path) /\ rules[first].ttl > 0
              /\ \A j \in 1 .. Len(rules) :
                    matchRulePath(rules[j], path) /\ rules[j].ttl > 0 => first # 0 /\ first <= j
<1> DEFINE I == {i \in 1 .. Len(rules) : matchRulePath(rules[i], path) /\ rules[i].ttl > 0}
           first == TTLRule(path)
<1>1. first = IF I # {} THEN Min(I) ELSE 0
  BY DEF TTLRule, SelectInSeq
<1>2. I \in SUBSET (1 .. Len(rules)) /\ Len(rules) \in Nat
  BY LenProperties
<1> HIDE DEF first, I
<1>3. /\ first \in 0 .. Len(rules)
      /\ first = 0 <=> I = {}
      /\ first # 0 => first \in I /\ \A j \in I : first <= j
  BY <1>1, <1>2, FirstOf, Zenon
<1>4. QED
  BY <1>3 DEF first, I

-----------------------------------------------------------------------------
(* The inductive invariant.                                                *)

\* The verdicts that led to where we are.
Decided ==
    /\ pc \in {"response", "ttl", "stored"} =>
          request \in Requests /\ IsRequestCacheable(request)
    /\ pc \in {"ttl", "stored"} => response \in Responses /\ IsResponseStorable(response)
    /\ pc = "stored" => ttl = DetermineTTL(request.path, response)

IInv == cfg \in Configs /\ rules \in RuleLists /\ Decided

LEMMA Inductive == IInv /\ [Next]_vars => IInv'
<1> SUFFICES ASSUME IInv, [Next]_vars PROVE IInv'
  OBVIOUS
<1> USE DEF IInv, Decided
<1>1. CASE AskRequest
  <2>1. /\ pc' = IF IsRequestCacheable(request') THEN "response" ELSE "bypass"
        /\ request' \in Requests /\ UNCHANGED <<cfg, rules, response, ttl>>
    BY <1>1 DEF AskRequest
  <2>2. pc' = "response" => IsRequestCacheable(request')
    BY <2>1
  <2>3. IsRequestCacheable(request)' <=> IsRequestCacheable(request')
    BY <2>1 DEF IsRequestCacheable, DecidingRule, SelectInSeq
  <2>4. pc' \in {"response", "bypass"}
    BY <2>1
  <2>5. QED
    BY <2>1, <2>2, <2>3, <2>4
<1>2. CASE AskResponse
  <2>1. /\ pc' = IF IsResponseStorable(response') THEN "ttl" ELSE "relay"
        /\ response' \in Responses /\ UNCHANGED <<cfg, rules, request, ttl>>
        /\ pc = "response"
    BY <1>2 DEF AskResponse
  <2>2. pc' = "ttl" => IsResponseStorable(response')
    BY <2>1
  <2>3. IsResponseStorable(response)' <=> IsResponseStorable(response')
    BY <2>1 DEF IsResponseStorable
  <2>4. IsRequestCacheable(request)' <=> IsRequestCacheable(request)
    BY <2>1 DEF IsRequestCacheable, DecidingRule, SelectInSeq
  <2>5. pc' \in {"ttl", "relay"}
    BY <2>1
  <2>6. QED
    BY <2>1, <2>2, <2>3, <2>4, <2>5
<1>3. CASE AskTTL
  <2>1. /\ pc = "ttl" /\ pc' = "stored" /\ ttl' = DetermineTTL(request.path, response)
        /\ UNCHANGED <<cfg, rules, request, response>>
    BY <1>3 DEF AskTTL
  <2>2. IsRequestCacheable(request)' <=> IsRequestCacheable(request)
    BY <2>1 DEF IsRequestCacheable, DecidingRule, SelectInSeq
  <2>3. IsResponseStorable(response)' <=> IsResponseStorable(response)
    BY <2>1 DEF IsResponseStorable
  <2>4. DetermineTTL(request.path, response)' = DetermineTTL(request.path, response)
    BY <2>1 DEF DetermineTTL, TTLRule, SelectInSeq
  <2>5. QED
    BY <2>1, <2>2, <2>3, <2>4
<1>4. CASE Again
  BY <1>4 DEF Again
<1>5. CASE UNCHANGED vars
  <2>1. UNCHANGED <<pc, cfg, rules, request, response, ttl>>
    BY <1>5 DEF vars
  <2>2. IsRequestCacheable(request)' <=> IsRequestCacheable(request)
    BY <2>1 DEF IsRequestCacheable, DecidingRule, SelectInSeq
  <2>3. IsResponseStorable(response)' <=> IsResponseStorable(response)
    BY <2>1 DEF IsResponseStorable
  <2>4. DetermineTTL(request.path, response)' = DetermineTTL(request.path, response)
    BY <2>1 DEF DetermineTTL, TTLRule, SelectInSeq
  <2>5. QED
    BY <2>1, <2>2, <2>3, <2>4
<1>6. QED
  BY <1>1, <1>2, <1>3, <1>4, <1>5 DEF Next

\* What is decided has the types of its inputs.
LEMMA InputTypes ==
    ASSUME IInv
    PROVE  /\ cfg \in CacheConfig /\ rules \in Seq(CacheRule)
           /\ pc \in {"response", "ttl", "stored"} => request \in Request
           /\ pc \in {"ttl", "stored"} => response \in Response
BY InputsAssumption DEF IInv, Decided

\* What headers.Get returns.
LEMMA DirectivesGot ==
    ASSUME response \in Response
    PROVE  Directives = HeaderGet(response.cacheControl) /\ Directives \in Seq(Directive)
<1> DEFINE lines == response.cacheControl
<1>1. lines \in Seq(Seq(Directive))
  BY DEF Response
<1> HIDE DEF lines
<1>2. CASE lines = <<>>
  BY <1>2 DEF lines, Directives, HeaderGet
<1>3. CASE lines # <<>>
  <2>1. Head(lines) = lines[1] /\ Head(lines) \in Seq(Directive)
    BY <1>1, <1>3, HeadTailProperties
  <2>2. QED
    BY <1>3, <2>1 DEF lines, Directives, HeaderGet
<1>4. QED
  BY <1>2, <1>3

(***************************************************************************)
(* DetermineTTL takes the first source that gives a positive duration.     *)
(***************************************************************************)
LEMMA DetermineTTLEffect ==
    ASSUME NEW path, NEW rs
    PROVE  LET t == DetermineTTL(path, rs)
               cc == HeaderGet(rs.cacheControl)
               sMaxAge == parseCCDirective(cc, "s-maxage")
               maxAge  == parseCCDirective(cc, "max-age")
           IN \/ TTLRule(path) # 0 /\ t = Wrap(rules[TTLRule(path)].ttl * Second)
              \/ TTLRule(path) = 0 /\ cfg.RespectOriginCC /\ sMaxAge > 0 /\ t = sMaxAge
              \/ /\ TTLRule(path) = 0 /\ cfg.RespectOriginCC /\ sMaxAge <= 0
                 /\ maxAge > 0 /\ t = maxAge
              \/ /\ TTLRule(path) = 0 /\ t = Wrap(cfg.DefaultTTLSeconds * Second)
                 /\ cfg.RespectOriginCC => ~(sMaxAge > 0) /\ ~(sMaxAge <= 0 /\ maxAge > 0)
<1> DEFINE cc == HeaderGet(rs.cacheControl)
           sMaxAge == parseCCDirective(cc, "s-maxage")
           maxAge  == parseCCDirective(cc, "max-age")
           rule == TTLRule(path)
           respect == cfg.RespectOriginCC
<1>1. DetermineTTL(path, rs) =
        CASE rule # 0                              -> Wrap(rules[rule].ttl * Second)
          [] rule = 0 /\ respect /\ sMaxAge > 0 -> sMaxAge
          [] rule = 0 /\ respect /\ sMaxAge <= 0 /\ maxAge > 0 -> maxAge
          [] OTHER                                 -> Wrap(cfg.DefaultTTLSeconds * Second)
  BY DEF DetermineTTL
<1> HIDE DEF sMaxAge, maxAge, rule, respect
<1>2. CASE rule # 0
  BY <1>1, <1>2 DEF sMaxAge, maxAge, rule, respect
<1>3. CASE rule = 0 /\ respect /\ sMaxAge > 0
  BY <1>1, <1>3 DEF sMaxAge, maxAge, rule, respect
<1>4. CASE rule = 0 /\ respect /\ ~(sMaxAge > 0) /\ sMaxAge <= 0 /\ maxAge > 0
  BY <1>1, <1>4 DEF sMaxAge, maxAge, rule, respect
<1>5. CASE rule = 0 /\ ~(respect /\ sMaxAge > 0) /\ ~(respect /\ sMaxAge <= 0 /\ maxAge > 0)
  BY <1>1, <1>5 DEF sMaxAge, maxAge, rule, respect
<1>6. QED
  BY <1>2, <1>3, <1>4, <1>5 DEF sMaxAge, maxAge, rule, respect

-----------------------------------------------------------------------------
(* The theorems.                                                           *)

(***************************************************************************)
(* Whatever handleWithCache has come to, the verdicts of the policy before *)
(* that were the ones that lead there.                                     *)
(***************************************************************************)
THEOREM Invariant == Spec => []IInv
<1>1. Init => IInv
  BY DEF Init, IInv, Decided
<1>2. QED
  BY <1>1, Inductive, PTL DEF Spec

(***************************************************************************)
(* Nothing is stored for a request with a credential the configuration     *)
(* excludes, nor from a response that its first Cache-Control line         *)
(* forbids to store, whatever the rules say.                               *)
(***************************************************************************)
THEOREM ForbiddenIsNotStored == Spec => []ForbiddenNotStored
<1>1. IInv => ForbiddenNotStored
  <2> SUFFICES ASSUME IInv, pc = "stored" PROVE ForbiddenNotStored
    BY DEF ForbiddenNotStored
  <2>1. /\ request \in Request /\ response \in Response
        /\ IsRequestCacheable(request) /\ IsResponseStorable(response)
    BY InputTypes DEF IInv, Decided
  <2>2. Directives = HeaderGet(response.cacheControl)
    BY <2>1, DirectivesGot
  <2>3. \A i \in DOMAIN Directives : Directives[i].word \notin Forbidden
    BY <2>1, <2>2 DEF IsResponseStorable, HasWord
  <2>4. response.status \in 200 .. 299
    <3>1. response.status >= 200 /\ response.status < 300
      BY <2>1 DEF IsResponseStorable
    <3>2. response.status \in Nat
      BY <2>1 DEF Response
    <3>3. QED
      BY <3>1, <3>2
  <2>5. /\ request.method \in {"GET", "HEAD"}
        /\ cfg.BypassOnAuthorization => ~request.authorization
        /\ cfg.BypassOnCookie => ~request.cookie
    BY <2>1 DEF IsRequestCacheable
  <2>6. cfg.NeverStoreOnSetCookie => ~response.setCookie
    BY <2>1 DEF IsResponseStorable
  <2>7. QED
    BY <2>3, <2>4, <2>5, <2>6 DEF ForbiddenNotStored
<1>2. QED
  BY <1>1, Invariant, PTL

\* A rule's duration that fits is used as it is.
LEMMA RuleDuration ==
    ASSUME rules \in Seq(CacheRule), NEW i \in 1 .. Len(rules), rules[i].ttl > 0, DurationsFit
    PROVE  Wrap(rules[i].ttl * Second) = rules[i].ttl * Second /\ rules[i].ttl * Second > 0
<1> DEFINE t == rules[i].ttl  n == t * Second
<1>1. rules[i] \in CacheRule /\ i \in DOMAIN rules
  BY ElementOfSeq, LenProperties
<1>2. t \in Int /\ t > 0 /\ n < Limit
  BY <1>1 DEF CacheRule, DurationsFit
<1> HIDE DEF t
<1>3. Second \in Nat /\ Second > 0 /\ Limit \in Nat
  BY LimitAssumption
<1>4. n \in Int /\ n > 0
  BY <1>2, <1>3
<1>5. n = t * Second
  OBVIOUS
<1> HIDE DEF n
<1>6. Wrap(n) = n
  BY <1>2, <1>3, <1>4, WrapFits
<1>7. QED
  BY <1>4, <1>5, <1>6 DEF t

LEMMA DefaultDuration ==
    ASSUME cfg \in CacheConfig, DurationsFit
    PROVE  /\ Wrap(cfg.DefaultTTLSeconds * Second) = cfg.DefaultTTLSeconds * Second
           /\ cfg.DefaultTTLSeconds * Second > 0
<1> DEFINE n == cfg.DefaultTTLSeconds * Second
<1>1. n \in 1 .. Limit - 1 /\ Limit \in Nat
  BY LimitAssumption DEF DurationsFit
<1> HIDE DEF n
<1>2. Wrap(n) = n
  BY <1>1, WrapFits
<1>3. QED
  BY <1>1, <1>2 DEF n

(***************************************************************************)
(* No header of an origin gives an entry that is expired when it is        *)
(* stored, however large the number in it.                                 *)
(***************************************************************************)
THEOREM TTLIsPositive == Spec => []TTLPositive
<1>1. IInv => TTLPositive
  <2> SUFFICES ASSUME IInv, pc = "stored", DurationsFit PROVE ttl > 0
    BY DEF TTLPositive
  <2>1. ttl = DetermineTTL(request.path, response) /\ cfg \in CacheConfig /\ rules \in Seq(CacheRule)
    BY InputTypes DEF IInv, Decided
  <2> DEFINE rule == TTLRule(request.path)
  <2>2. \/ rule # 0 /\ ttl = Wrap(rules[rule].ttl * Second)
        \/ ttl > 0
        \/ ttl = Wrap(cfg.DefaultTTLSeconds * Second)
    BY <2>1, DetermineTTLEffect
  <2>3. rule \in 0 .. Len(rules) /\ (rule # 0 => rules[rule].ttl > 0)
    BY <2>1, TTLRuleEffect
  <2> HIDE DEF rule
  <2>4. CASE rule # 0 /\ ttl = Wrap(rules[rule].ttl * Second)
    <3>1. rule \in 1 .. Len(rules) /\ rules[rule].ttl > 0
      BY <2>1, <2>3, <2>4, LenProperties
    <3>2. Wrap(rules[rule].ttl * Second) = rules[rule].ttl * Second /\ rules[rule].ttl * Second > 0
      BY <2>1, <3>1, RuleDuration
    <3>3. QED
      BY <2>4, <3>2
  <2>5. CASE ttl = Wrap(cfg.DefaultTTLSeconds * Second)
    BY <2>1, <2>5, DefaultDuration
  <2>6. QED
    BY <2>2, <2>4, <2>5
<1>2. QED
  BY <1>1, Invariant, PTL

(***************************************************************************)
(* IsRequestCacheable and DetermineTTL go by the same rule, unless one for *)
(* other methods comes before it.                                          *)
(***************************************************************************)
THEOREM TTLIsOfDecidingRule == Spec => []TTLOfDecidingRule
<1>1. IInv => TTLOfDecidingRule
  <2> DEFINE first == DecidingRule(request)
             rule == TTLRule(request.path)
  <2>1. SUFFICES ASSUME IInv, pc = "stored", DurationsFit, first # 0, rules[first].ttl > 0
                 PROVE  \/ ttl = rules[first].ttl * Second
                        \/ \E i \in 1 .. first - 1 :
                              /\ matchRulePath(rules[i], request.path)
                              /\ request.method \notin rules[i].methods
                              /\ ttl = rules[i].ttl * Second
    BY DEF TTLOfDecidingRule
  <2>2. ttl = DetermineTTL(request.path, response) /\ rules \in Seq(CacheRule)
    BY <2>1, InputTypes DEF IInv, Decided
  <2>3. /\ first \in 0 .. Len(rules)
        /\ first # 0 => matchRule(rules[first], request)
        /\ \A j \in 1 .. Len(rules) : matchRule(rules[j], request) => first # 0 /\ first <= j
    BY <2>2, DecidingRuleEffect
  <2>4. /\ rule \in 0 .. Len(rules)
        /\ rule # 0 => matchRulePath(rules[rule], request.path) /\ rules[rule].ttl > 0
        /\ \A j \in 1 .. Len(rules) :
              matchRulePath(rules[j], request.path) /\ rules[j].ttl > 0 => rule # 0 /\ rule <= j
    BY <2>2, TTLRuleEffect
  <2>5. rule # 0 => ttl = Wrap(rules[rule].ttl * Second)
    BY <2>2, DetermineTTLEffect
  <2> HIDE DEF first, rule
  <2>6. Len(rules) \in Nat
    BY <2>2, LenProperties
  <2>7. first \in 1 .. Len(rules) /\ matchRulePath(rules[first], request.path)
    BY <2>1, <2>3, <2>6 DEF matchRule
  <2>8. rule # 0 /\ rule <= first /\ rule \in 1 .. Len(rules)
    BY <2>1, <2>4, <2>6, <2>7
  <2>9. ttl = rules[rule].ttl * Second
    BY <2>1, <2>2, <2>4, <2>5, <2>8, RuleDuration
  <2>10. CASE rule = first
    BY <2>9, <2>10
  <2>11. CASE rule # first
    <3>1. rule \in 1 .. first - 1 /\ ~matchRule(rules[rule], request)
      BY <2>3, <2>6, <2>8, <2>11
    <3>2. matchRulePath(rules[rule], request.path)
      BY <2>4, <2>8
    <3>3. request.method \notin rules[rule].methods
      BY <3>1, <3>2 DEF matchRule, matchRuleMethod
    <3>4. QED
      BY <2>9, <3>1, <3>2, <3>3
  <2>12. QED
    BY <2>10, <2>11
<1>2. QED
  BY <1>1, Invariant, PTL

-----------------------------------------------------------------------------
(* The numbers in the header.                                              *)

\* The values of the first n prefixes of a number, from left to right.
PrefixValues(digits, n, f) ==
    /\ f \in [0 .. n -> Nat]
    /\ f[0] = 0
    /\ \A i \in 1 .. n : f[i] = f[i - 1] * 10 + digits[i]

\* There are such values.
LEMMA PrefixesExist ==
    ASSUME NEW digits \in Seq(Nat)
    PROVE  \E f : PrefixValues(digits, Len(digits), f)
<1> DEFINE L == Len(digits)
           T == {n \in Nat : n <= L => \E f : PrefixValues(digits, n, f)}
<1>1. L \in Nat /\ \A i \in 1 .. L : digits[i] \in Nat
  BY LenProperties, ElementOfSeq
<1>2. 0 \in T
  <2>1. PrefixValues(digits, 0, [i \in 0 .. 0 |-> 0])
    BY DEF PrefixValues
  <2>2. QED
    BY <2>1
<1>3. ASSUME NEW n \in T PROVE n + 1 \in T
  <2>a. n \in Nat /\ (n <= L => \E f : PrefixValues(digits, n, f))
    OBVIOUS
  <2> SUFFICES ASSUME n + 1 <= L PROVE \E f : PrefixValues(digits, n + 1, f)
    BY <2>a
  <2>1. PICK f : PrefixValues(digits, n, f)
    <3>1. n <= L
      BY <1>1, <2>a
    <3>2. QED
      BY <2>a, <3>1
  <2> DEFINE last == f[n] * 10 + digits[n + 1]
             g == [i \in 0 .. n + 1 |-> IF i = n + 1 THEN last ELSE f[i]]
  <2>2. f \in [0 .. n -> Nat] /\ digits[n + 1] \in Nat /\ f[n] \in Nat /\ last \in Nat
    <3>1. f \in [0 .. n -> Nat] /\ n \in 0 .. n /\ n + 1 \in 1 .. L
      BY <1>1, <2>a, <2>1 DEF PrefixValues
    <3>2. f[n] \in Nat /\ digits[n + 1] \in Nat
      BY <1>1, <3>1
    <3>3. QED
      BY <3>1, <3>2
  <2>3. g \in [0 .. n + 1 -> Nat] /\ g[0] = 0
    BY <2>a, <2>1, <2>2, SMTT(30) DEF PrefixValues
  <2>4. ASSUME NEW i \in 1 .. n + 1 PROVE g[i] = g[i - 1] * 10 + digits[i]
    <3>1. i - 1 \in 0 .. n /\ g[i - 1] = f[i - 1]
      BY <2>a
    <3>2. CASE i = n + 1
      BY <2>a, <3>1, <3>2
    <3>3. CASE i # n + 1
      <4>1. i \in 1 .. n /\ g[i] = f[i]
        BY <2>a, <3>3
      <4>2. QED
        BY <2>1, <3>1, <4>1 DEF PrefixValues
    <3>4. QED
      BY <3>2, <3>3
  <2>5. PrefixValues(digits, n + 1, g)
    BY <2>3, <2>4 DEF PrefixValues
  <2>6. QED
    BY <2>5
<1>4. L \in T
  <2> HIDE DEF T
  <2>1. T \subseteq Nat
    BY DEF T
  <2>2. T = Nat
    BY <1>2, <1>3, <2>1, SetInduction
  <2>3. QED
    BY <1>1, <2>2
<1>5. QED
  BY <1>1, <1>4

\* They grow.
LEMMA PrefixesGrow ==
    ASSUME NEW digits \in Seq(Nat), NEW f, PrefixValues(digits, Len(digits), f)
    PROVE  \A i \in 0 .. Len(digits) : f[i] <= f[Len(digits)]
<1> DEFINE L == Len(digits)
           T == {n \in Nat : n <= L => f[L - n] <= f[L]}
<1>1. L \in Nat /\ \A i \in 1 .. L : digits[i] \in Nat
  BY LenProperties, ElementOfSeq
<1>2. 0 \in T
  BY <1>1 DEF PrefixValues
<1>3. ASSUME NEW n \in T PROVE n + 1 \in T
  <2>a. n \in Nat /\ (n <= L => f[L - n] <= f[L])
    OBVIOUS
  <2> SUFFICES ASSUME n + 1 <= L PROVE f[L - (n + 1)] <= f[L]
    BY <2>a
  <2> DEFINE i == L - n
  <2>1. i \in 1 .. L /\ i - 1 = L - (n + 1) /\ i - 1 \in 0 .. L
    BY <1>1, <2>a
  <2>2. f[i] <= f[L]
    BY <1>1, <2>a
  <2> HIDE DEF i
  <2>3. f[i] = f[i - 1] * 10 + digits[i] /\ f[i - 1] \in Nat /\ f[i] \in Nat /\ f[L] \in Nat
    <3>1. /\ f \in [0 .. L -> Nat] /\ i \in 0 .. L /\ L \in 0 .. L
          /\ \A j \in 1 .. L : f[j] = f[j - 1] * 10 + digits[j]
      BY <1>1, <2>1 DEF PrefixValues
    <3> HIDE DEF L
    <3>2. f[i - 1] \in Nat /\ f[i] \in Nat /\ f[L] \in Nat
      BY <2>1, <3>1
    <3>3. QED
      BY <2>1, <3>1, <3>2
  <2>4. f[i - 1] <= f[i]
    BY <1>1, <2>1, <2>3, SMTT(30)
  <2>5. f[i - 1] <= f[L]
    BY <2>2, <2>3, <2>4, SMTT(30)
  <2>6. QED
    BY <2>1, <2>5
<1>4. T = Nat
  <2>1. T \subseteq Nat
    OBVIOUS
  <2> HIDE DEF T
  <2>2. QED
    BY <1>2, <1>3, <2>1, SetInduction
<1>5. ASSUME NEW i \in 0 .. L PROVE f[i] <= f[L]
  <2>1. L - i \in Nat /\ L - (L - i) = i /\ L - i <= L
    BY <1>1
  <2>2. L - i \in T
    BY <1>4, <2>1
  <2>3. QED
    BY <2>1, <2>2
<1>6. QED
  BY <1>5

\* What Number computes.
LEMMA NumberEffect ==
    ASSUME NEW value, LeadingDigits(value) \in Seq(Nat)
    PROVE  LET digits == LeadingDigits(value)
           IN \E f : PrefixValues(digits, Len(digits), f) /\ Number(value) = f[Len(digits)]
<1> DEFINE digits == LeadingDigits(value)
           L == Len(digits)
           body(f) == [i \in 0 .. L |-> IF i = 0 THEN 0 ELSE f[i - 1] * 10 + digits[i]]
           number == CHOOSE f : f = body(f)
<1>1. Number(value) = number[L]
  BY DEF Number
<1>2. digits \in Seq(Nat) /\ L \in Nat
  BY LenProperties
<1> HIDE DEF digits
<1>a. \A i \in 1 .. L : digits[i] \in Nat
  BY <1>2, ElementOfSeq
<1>3. PICK f : PrefixValues(digits, L, f)
  BY <1>2, PrefixesExist
<1>4. f = body(f)
  BY <1>3 DEF PrefixValues
<1>5. number = body(number)
  BY <1>4
<1> HIDE DEF number
<1> DEFINE T == {n \in Nat : n <= L => number[n] \in Nat}
<1>6. 0 \in T
  BY <1>2, <1>5
<1>7. ASSUME NEW n \in T PROVE n + 1 \in T
  <2>1. n \in Nat /\ (n <= L => number[n] \in Nat)
    OBVIOUS
  <2>2. ASSUME n + 1 <= L PROVE number[n + 1] \in Nat
    <3>1. n + 1 \in 1 .. L /\ n + 1 - 1 = n /\ n <= L /\ n + 1 # 0
      BY <1>2, <2>1, <2>2
    <3>2. number[n + 1] = number[n] * 10 + digits[n + 1]
      BY <1>5, <3>1
    <3>3. digits[n + 1] \in Nat /\ number[n] \in Nat
      BY <1>a, <2>1, <3>1
    <3>4. QED
      BY <3>2, <3>3
  <2>3. QED
    BY <2>1, <2>2
<1>8. T = Nat
  <2>1. T \subseteq Nat
    OBVIOUS
  <2> HIDE DEF T
  <2>2. QED
    BY <1>6, <1>7, <2>1, SetInduction
<1>9. PrefixValues(digits, L, number)
  <2>1. number \in [0 .. L -> Nat]
    <3>1. \A n \in 0 .. L : number[n] \in Nat
      BY <1>2, <1>8
    <3>2. QED
      BY <1>5, <3>1
  <2>2. number[0] = 0
    BY <1>2, <1>5
  <2>3. ASSUME NEW i \in 1 .. L PROVE number[i] = number[i - 1] * 10 + digits[i]
    <3>1. i # 0 /\ i \in 0 .. L
      BY <1>2
    <3>2. QED
      BY <1>5, <3>1
  <2>4. QED
    BY <2>1, <2>2, <2>3 DEF PrefixValues
<1>10. QED
  BY <1>1, <1>9 DEF digits

\* The loop of the code computes the same, if the number fits.
LEMMA AccumulateEffect ==
    ASSUME NEW digits \in Seq(Nat), NEW f, PrefixValues(digits, Len(digits), f),
           f[Len(digits)] < Limit
    PROVE  Accumulate(digits) = f[Len(digits)]
<1> DEFINE L == Len(digits)
           body(g) == [i \in 0 .. L |-> IF i = 0 THEN 0 ELSE Wrap(g[i - 1] * 10 + digits[i])]
           seconds == CHOOSE g : g = body(g)
<1>1. Accumulate(digits) = seconds[L]
  BY DEF Accumulate
<1>2. L \in Nat /\ \A i \in 1 .. L : digits[i] \in Nat
  BY LenProperties, ElementOfSeq
<1>3. /\ f \in [0 .. L -> Nat] /\ f[0] = 0
      /\ \A i \in 1 .. L : f[i] = f[i - 1] * 10 + digits[i]
  BY DEF PrefixValues
<1>4. \A i \in 0 .. L : f[i] <= f[L]
  BY PrefixesGrow
<1> HIDE DEF L
<1>5. ASSUME NEW i \in 0 .. L PROVE Wrap(f[i]) = f[i]
  <2>1. f[i] \in Nat /\ f[L] \in Nat /\ f[i] <= f[L] /\ Limit \in Nat
    BY <1>2, <1>3, <1>4, LimitAssumption
  <2>2. f[L] < Limit
    BY DEF L
  <2>3. f[i] \in Int /\ -Limit <= f[i] /\ f[i] < Limit
    BY <2>1, <2>2
  <2>4. QED
    BY <2>3, WrapFits
<1>6. \A i \in 1 .. L : f[i] = Wrap(f[i - 1] * 10 + digits[i])
  BY <1>2, <1>3, <1>5
<1>7. f = body(f)
  BY <1>3, <1>6
<1>8. seconds = body(seconds)
  BY <1>7
<1> HIDE DEF seconds
<1> DEFINE T == {n \in Nat : n <= L => seconds[n] = f[n]}
<1>9. 0 \in T
  BY <1>2, <1>3, <1>8
<1>10. ASSUME NEW n \in T PROVE n + 1 \in T
  <2>1. n \in Nat /\ (n <= L => seconds[n] = f[n])
    OBVIOUS
  <2>2. ASSUME n + 1 <= L PROVE seconds[n + 1] = f[n + 1]
    <3>1. n + 1 \in 1 .. L /\ n + 1 - 1 = n /\ n <= L /\ n + 1 # 0
      BY <1>2, <2>1, <2>2
    <3>2. seconds[n + 1] = Wrap(seconds[n] * 10 + digits[n + 1])
      BY <1>8, <3>1
    <3>3. f[n + 1] = Wrap(f[n] * 10 + digits[n + 1])
      BY <1>6, <3>1
    <3>4. QED
      BY <2>1, <3>1, <3>2, <3>3
  <2>3. QED
    BY <2>1, <2>2
<1>11. T = Nat
  <2>1. T \subseteq Nat
    OBVIOUS
  <2> HIDE DEF T
  <2>2. QED
    BY <1>9, <1>10, <2>1, SetInduction
<1>12. seconds[L] = f[L]
  BY <1>2, <1>11
<1>13. QED
  BY <1>1, <1>12 DEF L

\* The characters before the first that is not a digit.
LEMMA LeadingDigitsType ==
    ASSUME NEW value \in Seq(0 .. NonDigit)
    PROVE  LeadingDigits(value) \in Seq(Nat)
<1> DEFINE I == {i \in 1 .. Len(value) : value[i] = NonDigit}
           end == IF I # {} THEN Min(I) ELSE 0
<1>1. LeadingDigits(value) = IF end = 0 THEN value ELSE SubSeq(value, 1, end - 1)
  BY DEF LeadingDigits, SelectInSeq
<1>2. Len(value) \in Nat /\ I \in SUBSET (1 .. Len(value))
  BY LenProperties
<1>3. /\ DOMAIN value = 1 .. Len(value)
      /\ \A i \in 1 .. Len(value) : value[i] \in Nat
  BY LenProperties, ElementOfSeq DEF NonDigit
<1>4. value \in Seq(Nat)
  BY <1>2, <1>3, IsASeq
<1> HIDE DEF I
<1>5. end \in 0 .. Len(value)
  <2>1. end = IF I # {} THEN Min(I) ELSE 0
    OBVIOUS
  <2> HIDE DEF end
  <2>2. QED
    BY <1>2, <2>1, FirstOf
<1> HIDE DEF end
<1>6. CASE end = 0
  BY <1>1, <1>4, <1>6
<1>7. CASE end # 0
  <2>1. \A i \in 1 .. end - 1 : value[i] \in Nat
    BY <1>2, <1>3, <1>5
  <2>2. SubSeq(value, 1, end - 1) \in Seq(Nat)
    BY <1>2, <1>4, <1>5, <1>7, <2>1, SubSeqProperties
  <2>3. QED
    BY <1>1, <1>7, <2>2
<1>8. QED
  BY <1>6, <1>7

(***************************************************************************)
(* In a plain header the code reads the value that is stated first.        *)
(***************************************************************************)
LEMMA ParseEffect ==
    ASSUME response \in Response, Plain, NEW word
    PROVE  /\ parseCCDirective(Directives, word) = StatedTTL(word)
           /\ StatedTTL(word) \in Nat
<1> DEFINE cc == Directives
           I == {i \in 1 .. Len(cc) : cc[i].word = word /\ cc[i].value # NoValue}
           at == Occurrence(cc, word)
           value == cc[at].value
           seconds == Accumulate(LeadingDigits(value))
<1>1. cc \in Seq(Directive) /\ DOMAIN cc = 1 .. Len(cc) /\ Len(cc) \in Nat
  BY DirectivesGot, LenProperties
<1>2. \A i \in 1 .. Len(cc) : cc[i].value # NoValue => ~cc[i].ext /\ Number(cc[i].value) * Second < Limit
  BY <1>1 DEF Plain
<1>3. Stated(word) = I
  BY <1>1, <1>2 DEF Stated
<1>4. at = IF I # {} THEN Min(I) ELSE 0
  BY DEF Occurrence, SelectInSeq
<1>5. parseCCDirective(cc, word) = IF at = 0 \/ seconds <= 0 THEN 0 ELSE Wrap(seconds * Second)
  BY DEF parseCCDirective
<1>6. I \in SUBSET (1 .. Len(cc))
  OBVIOUS
<1>7. \A i \in I : cc[i] \in Directive /\ cc[i].value # NoValue
  BY <1>1, ElementOfSeq
<1> HIDE DEF I, at, cc
<1>8. /\ at \in 0 .. Len(cc)
      /\ at = 0 <=> I = {}
      /\ at # 0 => at \in I /\ \A j \in I : at <= j
  BY <1>1, <1>4, <1>6, FirstOf, Zenon
<1>9. CASE at = 0
  <2>1. StatedTTL(word) = 0
    BY <1>3, <1>8, <1>9 DEF StatedTTL
  <2>2. parseCCDirective(cc, word) = 0
    BY <1>5, <1>9
  <2>3. QED
    BY <2>1, <2>2 DEF cc
<1>10. CASE at # 0
  <2>1. at \in I /\ at = Min(I) /\ at \in 1 .. Len(cc)
    BY <1>4, <1>6, <1>8, <1>10
  <2>2. StatedTTL(word) = Number(value) * Second
    BY <1>3, <2>1 DEF StatedTTL, cc
  <2>3. value \in Seq(0 .. NonDigit) /\ Number(value) * Second < Limit
    BY <1>2, <1>7, <2>1 DEF Directive
  <2> HIDE DEF value
  <2>4. LeadingDigits(value) \in Seq(Nat)
    BY <2>3, LeadingDigitsType
  <2> DEFINE digits == LeadingDigits(value)
  <2>5. PICK f : PrefixValues(digits, Len(digits), f) /\ Number(value) = f[Len(digits)]
    BY <2>4, NumberEffect
  <2>6. Number(value) \in Nat
    <3>1. Len(digits) \in 0 .. Len(digits)
      BY <2>4, LenProperties
    <3>2. QED
      BY <2>5, <3>1 DEF PrefixValues
  <2>7. Number(value) < Limit /\ Number(value) * Second \in Nat
    BY <2>3, <2>6, LimitAssumption
  <2>8. seconds = Number(value)
    BY <2>4, <2>5, <2>7, AccumulateEffect
  <2> DEFINE n == Number(value) * Second
  <2>9. Wrap(n) = n
    <3>1. n \in Int /\ -Limit <= n /\ n < Limit
      BY <2>3, <2>7, LimitAssumption
    <3> HIDE DEF n
    <3>2. QED
      BY <3>1, WrapFits
  <2>10. CASE Number(value) = 0
    <3>1. parseCCDirective(cc, word) = 0
      BY <1>5, <2>8, <2>10
    <3>2. StatedTTL(word) = 0
      BY <2>2, <2>10, LimitAssumption
    <3>3. QED
      BY <3>1, <3>2 DEF cc
  <2>11. CASE Number(value) # 0
    <3>1. parseCCDirective(cc, word) = n
      BY <1>5, <1>10, <2>6, <2>8, <2>9, <2>11
    <3>2. QED
      BY <2>2, <2>7, <3>1 DEF cc
  <2>12. QED
    BY <2>10, <2>11
<1>11. QED
  BY <1>9, <1>10

(***************************************************************************)
(* Without a rule for it, an entry lives as long as the origin states in a *)
(* plain header: s-maxage, else max-age, else the default.                 *)
(***************************************************************************)
THEOREM TTLIsAsStated == Spec => []StatedTTLApplies
<1>1. IInv => StatedTTLApplies
  <2> DEFINE sMaxAge == StatedTTL("s-maxage")
             maxAge  == StatedTTL("max-age")
             cc == HeaderGet(response.cacheControl)
             rule == TTLRule(request.path)
  <2>1. SUFFICES ASSUME IInv, pc = "stored", cfg.RespectOriginCC, ~RuleGivesTTL, Plain, DurationsFit
                 PROVE  ttl = CASE sMaxAge > 0 -> sMaxAge
                                [] sMaxAge = 0 /\ maxAge > 0 -> maxAge
                                [] OTHER -> cfg.DefaultTTLSeconds * Second
    BY DEF StatedTTLApplies
  <2>2. /\ ttl = DetermineTTL(request.path, response)
        /\ cfg \in CacheConfig /\ rules \in Seq(CacheRule) /\ response \in Response
    BY <2>1, InputTypes DEF IInv, Decided
  <2>3. cc = Directives
    BY <2>2, DirectivesGot
  <2>4. parseCCDirective(cc, "s-maxage") = sMaxAge /\ sMaxAge \in Nat
    BY <2>1, <2>2, <2>3, ParseEffect
  <2>5. parseCCDirective(cc, "max-age") = maxAge /\ maxAge \in Nat
    BY <2>1, <2>2, <2>3, ParseEffect
  <2>6. rule = 0
    <3>1. /\ rule \in 0 .. Len(rules)
          /\ rule # 0 => matchRulePath(rules[rule], request.path) /\ rules[rule].ttl > 0
      BY <2>2, TTLRuleEffect
    <3> HIDE DEF rule
    <3>2. DOMAIN rules = 1 .. Len(rules)
      BY <2>2, LenProperties
    <3>3. QED
      BY <2>1, <3>1, <3>2 DEF RuleGivesTTL
  <2>7. Wrap(cfg.DefaultTTLSeconds * Second) = cfg.DefaultTTLSeconds * Second
    BY <2>1, <2>2, DefaultDuration
  <2> DEFINE default == cfg.DefaultTTLSeconds * Second
  <2> HIDE DEF sMaxAge, maxAge, rule, cc
  <2>8. \/ sMaxAge > 0 /\ ttl = sMaxAge
        \/ sMaxAge <= 0 /\ maxAge > 0 /\ ttl = maxAge
        \/ ttl = Wrap(default) /\ ~(sMaxAge > 0) /\ ~(sMaxAge <= 0 /\ maxAge > 0)
    BY <2>1, <2>2, <2>4, <2>5, <2>6, DetermineTTLEffect DEF rule, cc
  <2>9. Wrap(default) = default
    BY <2>7
  <2> HIDE DEF default
  <2>10. CASE sMaxAge > 0
    BY <2>4, <2>8, <2>10
  <2>11. CASE sMaxAge = 0 /\ maxAge > 0
    BY <2>8, <2>11
  <2>12. CASE sMaxAge = 0 /\ maxAge = 0
    BY <2>8, <2>9, <2>12 DEF default
  <2>13. QED
    BY <2>4, <2>5, <2>10, <2>11, <2>12
<1>2. QED
  BY <1>1, Invariant, PTL
=============================================================================
