--------------------------- MODULE MCRateLimiter ---------------------------
EXTENDS RateLimiter, TLC

\* A rule with its own identifier for paths below /p, and two rules with one
\* identifier, whose values differ.
MCRules == <<[id |-> "b", key |-> "api_key", prefix |-> "/p", burst |-> 1, rate |-> 0],
             [id |-> "a", key |-> "ip", prefix |-> "/p", burst |-> 3, rate |-> 1],
             [id |-> "a", key |-> "ip", prefix |-> "", burst |-> 1, rate |-> 1]>>
MCPaths == {{""}, {"", "/p"}}
MCClients == {[ip |-> "1", apiKey |-> ""], [ip |-> "2", apiKey |-> "anonymous"]}
Symmetry == Permutations(Requests)
=============================================================================
