----------------------------- MODULE MCPipeline -----------------------------
(***************************************************************************)
(* Up to two rules; bodies up to two bytes over the limit of one byte,     *)
(* with the mark at every place.                                           *)
(***************************************************************************)
EXTENDS Pipeline

\* A usable pair of limits, and one that the configuration also accepts.
MCSecurityConfigs ==
    {[MaxBodyInspectBytes |-> 1, MaxRequestBodyBytes |-> 2],
     [MaxBodyInspectBytes |-> -1, MaxRequestBodyBytes |-> -1]}

Any(field) == {[fields |-> {field}, mark |-> "m"]}

MCRules ==
    {[id |-> s[1], enabled |-> TRUE, action |-> a, status |-> s[2], any |-> Any(f)] :
        s \in {<<1, 0>>, <<1, 451>>, <<2, 451>>}, a \in Actions \cup {"deny"},
        f \in {"path", "body"}}
    \cup {[id |-> 3, enabled |-> FALSE, action |-> "block", status |-> 0, any |-> Any("path")],
          [id |-> 3, enabled |-> TRUE, action |-> "block", status |-> 0,
           any |-> {[fields |-> {"path", "body"}, mark |-> "m"]}],
          [id |-> 3, enabled |-> TRUE, action |-> "block", status |-> 0, any |-> {}]}

MCWAFConfigs ==
    {NoConfig} \cup
    [mode : {"shadow", "enforce"},
     rules : {<<>>} \cup {<<r>> : r \in MCRules} \cup {<<r, s>> : r, s \in MCRules}]

Bodies == {<<"m">>, <<"x", "m">>, <<"m", "x">>, <<"x", "x", "m">>, <<"m", "x", "x">>}

Message(builtin, length, bytes, hit, noCacheSent) ==
    [builtin |-> builtin, contentLength |-> length, body |-> bytes, noCache |-> noCacheSent,
     marks |-> [f \in Fields |-> IF f = "path" /\ hit THEN {"m"} ELSE {}]]

MCRequests ==
    {Message(FALSE, l, b, h, FALSE) : l \in {"known", "unknown"}, b \in Bodies, h \in BOOLEAN}
    \cup {Message(FALSE, l, <<>>, TRUE, n) : l \in {"zero", "unknown"}, n \in BOOLEAN}
    \cup {Message(TRUE, "zero", <<>>, FALSE, FALSE)}
=============================================================================
