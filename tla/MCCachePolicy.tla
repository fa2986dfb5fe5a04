--------------------------- MODULE MCCachePolicy ---------------------------
(***************************************************************************)
(* Widths are scaled down: 12 bits and a second of 4 units, so that the    *)
(* value 999 wraps to a negative duration and 1100 to a positive one; a    *)
(* default of 600 does not fit.                                            *)
(***************************************************************************)
EXTENDS CachePolicy

MCConfigs ==
    {[BypassOnAuthorization |-> a, BypassOnCookie |-> ~a, NeverStoreOnSetCookie |-> s,
      RespectOriginCC |-> r, DefaultTTLSeconds |-> IF a /\ s THEN 600 ELSE 30] : a, s, r \in BOOLEAN}

Rule(exact, prefix, regex, methods, eligible, t) ==
    [exact |-> exact, prefix |-> prefix, regex |-> regex, methods |-> methods,
     eligible |-> eligible, ttl |-> t]

MCRules ==
    {Rule({"/a"}, {}, None, {}, TRUE, 60),
     Rule(None, {"/a", "/b"}, {}, {"HEAD"}, TRUE, 5),
     Rule(None, None, {"/b"}, {}, FALSE, 0),
     Rule(None, None, None, {}, FALSE, 7)}

MCRuleLists == SeqOf(MCRules, 2)

MCRequests ==
    {[method |-> m, path |-> p, authorization |-> a, cookie |-> c] :
        m \in {"GET", "POST"}, p \in {"/a", "/c"}, a, c \in BOOLEAN}
    \cup {[method |-> "HEAD", path |-> "/b", authorization |-> FALSE, cookie |-> FALSE]}

Numbers == {<<0>>, <<5>>, <<1, NonDigit, 2>>, <<9, 9, 9>>, <<1, 1, 0, 0>>}

MCDirectives ==
    {[word |-> w, ext |-> FALSE, value |-> NoValue] : w \in Forbidden \cup {"public"}}
    \cup {[word |-> "private", ext |-> TRUE, value |-> NoValue],
          [word |-> "max-age", ext |-> TRUE, value |-> <<5>>]}
    \cup {[word |-> w, ext |-> FALSE, value |-> v] : w \in {"s-maxage", "max-age"}, v \in Numbers}

\* One line of up to two directives, or two lines of one.
MCHeaders ==
    {<<>>} \cup {<<l>> : l \in SeqOf(MCDirectives, 2)}
    \cup {<<<<c>>, <<d>>>> : c, d \in MCDirectives}

MCResponses ==
    {[status |-> 200, setCookie |-> s, cacheControl |-> ls] :
        s \in BOOLEAN, ls \in MCHeaders}
    \cup {[status |-> s, setCookie |-> FALSE, cacheControl |-> <<>>] : s \in {199, 299, 300}}
=============================================================================
