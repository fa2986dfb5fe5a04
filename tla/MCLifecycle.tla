---------------------------- MODULE MCLifecycle ----------------------------
EXTENDS Lifecycle

\* A limit that is not set, one that is, and the negative timeout.
LimitsOf(grace) == [f \in Limits |-> IF f = "graceful_shutdown_timeout_ms" THEN grace
                                     ELSE IF f = "max_entries" THEN 0 ELSE 2]

Up(n, u) == [name |-> n, base_url |-> u]

Conf(upstreams, default, grace, admin, token) ==
    [upstreams |-> upstreams, default_upstream |-> default, limits |-> LimitsOf(grace),
     admin_enabled |-> admin, auth_token |-> token]

MCConfigs ==
    {Conf(<<Up("b", "y"), Up("a", "x"), Up("a", "y")>>, "a", grace, admin, "token") :
        grace \in {-1, 0}, admin \in BOOLEAN}
    \cup {Conf(ups, "a", 2, FALSE, "") :
            ups \in {<<>>, <<Up("a", "")>>, <<Up("", "x")>>, <<Up("b", "x")>>, <<Up("a", BadURL)>>}}
    \cup {Conf(<<Up("a", "x")>>, "", 2, FALSE, ""), Conf(<<Up("a", "x")>>, "a", 2, TRUE, "")}
=============================================================================
