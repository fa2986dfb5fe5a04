---------------------------- MODULE MCKeyedCache ----------------------------
EXTENDS KeyedCache

\* "/a", and the character c after n encodings.
A == <<Slash, <<"a", 0>>>>
B == <<Slash, <<"b", 0>>>>
Esc(c, n) == <<<<c, n>>>>
Up(n) == Esc(".", n) \o Esc(".", n)

MCTargets ==
    {A, A \o B, Append(A, Slash), <<Slash>> \o Esc("a", 1)}
    \cup {<<Slash>> \o Esc("a", n) \o B : n \in 2 .. 3}                  \* /%2561/b
    \cup {A \o Esc("/", n) \o <<<<"b", 0>>>> : n \in 1 .. 2}               \* /a%2Fb
    \cup {A \o <<Slash>> \o Up(n) \o B : n \in 0 .. 3}                     \* /a/../b
    \cup {A \o Esc("|", n) \o <<<<"b", 0>>>> : n \in 0 .. 1}               \* /a|b
    \cup {A \o Esc("%", 1)}                                                \* /a%25

P(i) == <<"p", i>>
Gzip(q) == [enc |-> 1, q |-> q]
Br == [enc |-> 2, q |-> 1]

Rq(target, query, accept) == [target |-> target, query |-> query, accept |-> accept]

MCRequests ==
    {Rq(t, <<>>, <<>>) : t \in MCTargets}
    \cup {Rq(A, q, <<>>) : q \in {<<P(1)>>, <<P(1), P(2)>>, <<P(2), P(1)>>, <<P(1), P(1)>>,
                                <<P(1), Bar>>, <<P(2), Percent, P(1)>>, <<<<"b", 0>>, Bar, Percent>>}}
    \cup {Rq(A \o <<Bar, <<"b", 0>>>>, <<Percent>>, <<>>)}
    \cup {Rq(A, <<>>, ae) : ae \in {<<Gzip(1)>>, <<Gzip(0)>>, <<Gzip(1), Br>>, <<Br, Gzip(1)>>}}

MCPurgeTexts ==
    {<<>>, A, A \o B, B, A \o <<Bar, <<"b", 0>>>>, CacheKey(A, <<P(2), P(1)>>, <<>>)}

MCPurgePrefixes == {<<>>, A, Append(A, Slash), <<<<"b", 0>>>>}

MCAuthToken == <<"token">>

MCCredentials == {<<>>, <<"token">>, <<"bearer", "token">>, <<"Basic", "token">>, <<"other">>}
=============================================================================
