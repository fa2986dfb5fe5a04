----------------------------- MODULE Lifecycle -----------------------------
(***************************************************************************)
(* The process, from reading its configuration to its end: internal/app,   *)
(* internal/config, internal/server and main.  Run is the main goroutine;  *)
(* each server has a goroutine in ListenAndServe and requests in flight.   *)
(***************************************************************************)
EXTENDS Integers, Sequences, FiniteSets

CONSTANTS
    Configs,    \* main files that parse, before the defaults are applied
    MaxActive   \* bound on the requests in flight at one server

ASSUME MaxActiveAssumption == MaxActive \in Nat

Servers == {"public", "admin"}

\* The fields of ServerConfig, SecurityConfig and CacheConfig with a default.
Limits ==
    {"read_timeout_ms", "write_timeout_ms", "idle_timeout_ms", "max_header_bytes",
     "graceful_shutdown_timeout_ms", "max_body_inspect_bytes", "max_request_body_bytes",
     "max_entries", "max_bytes", "default_ttl_seconds"}

\* A base_url is BadURL when url.Parse rejects it; "" is an empty string.
BadURL == "bad"

\* What can be in a file: limits of any sign, upstreams with equal names.
ConfigType ==
    [upstreams : Seq([name : {"", "a", "b"}, base_url : {"", BadURL, "x", "y"}]),
     default_upstream : {"", "a", "b"},
     limits : [Limits -> Int],
     admin_enabled : BOOLEAN,
     auth_token : {"", "token"}]

ASSUME ConfigsAssumption == \A c \in Configs : c \in ConfigType

VARIABLES
    pc,       \* the next step of Run
    cfg,      \* Config
    files,    \* the state of the other three files
    parts,    \* what was built from them, and the upstream each part uses
    srv,      \* the goroutines of the servers
    closing,  \* the servers that are in Shutdown
    active,   \* requests in flight
    errCh,    \* the servers whose error is in the channel
    sigCh,    \* signals in the channel
    ctx,      \* the shutdown deadline
    exit      \* how the process ended

vars == <<pc, cfg, files, parts, srv, closing, active, errCh, sigCh, ctx, exit>>

startVars == <<cfg, files, parts>>
serverVars == <<srv, closing, active>>

Files ==
    [waf : {"rules", "bad rule", "unreadable"}, cache : {"rules", "unreadable"},
     ratelimit : {"rules", "unreadable"}]

Parts ==
    [waf : {"nil", "loaded", "shadow", "rules"}, cache : {"rules", "unreadable"},
     ratelimit : {"rules", "unreadable"}, transport : Nat, handler : Nat]

Steps ==
    {"load", "rules", "engine", "handler", "start public", "start admin", "notify", "select",
     "close public", "drain public", "close admin", "drain admin", "end"}

Running == exit = "no"

-----------------------------------------------------------------------------
(* config.Load.                                                            *)

\* A limit of 0 is replaced (the value of the default does not matter).
applyDefaults(c) ==
    [c EXCEPT !.limits = [f \in Limits |-> IF c.limits[f] = 0 THEN 1 ELSE c.limits[f]]]

validate(c) ==
    /\ c.upstreams # <<>>
    /\ c.default_upstream # ""
    /\ \A i \in DOMAIN c.upstreams : c.upstreams[i].name # "" /\ c.upstreams[i].base_url # ""
    /\ \E i \in DOMAIN c.upstreams : c.upstreams[i].name = c.default_upstream
    /\ c.admin_enabled => c.auth_token # ""

\* The positions of the upstreams with the name that routing asks for.
Named(c) == {i \in DOMAIN c.upstreams : c.upstreams[i].name = c.default_upstream}

\* The loop of Run, for the timeouts of the transport: the first of them.
TransportUpstream(c, i) == i \in Named(c) /\ \A j \in Named(c) : i <= j

\* Mutant of HandlerUpstream: the loop does not stop at the first.
LastUpstream(c, i) == i \in Named(c) /\ \A j \in Named(c) : i >= j

\* The loop of NewHandler, for the URL.
HandlerUpstream(c, i) == i \in Named(c) /\ \A j \in Named(c) : i <= j

-----------------------------------------------------------------------------
(* Run, up to the servers.                                                 *)

Fail ==
    /\ exit' = "error"
    /\ pc' = "end"

Load ==
    /\ pc = "load" /\ Running
    /\ \/ Fail /\ cfg' = cfg
       \/ cfg' = applyDefaults(cfg)
          /\ IF validate(cfg') THEN pc' = "rules" /\ exit' = exit ELSE Fail
    /\ UNCHANGED <<files, parts, serverVars, errCh, sigCh, ctx>>

\* LoadWAFConfig, LoadCacheRulesConfig, LoadRateLimitConfig: a file that
\* cannot be read is a warning.
LoadRules ==
    /\ pc = "rules" /\ Running
    /\ parts' = [parts EXCEPT !.waf = IF files.waf = "unreadable" THEN "nil" ELSE "loaded",
                              !.cache = files.cache, !.ratelimit = files.ratelimit]
    /\ pc' = "engine"
    /\ UNCHANGED <<cfg, files, serverVars, errCh, sigCh, ctx, exit>>

\* Mutant of NewEngine: a rule that does not compile is left out.
NewEngineSkipsRule ==
    /\ pc = "engine" /\ Running
    /\ parts' = [parts EXCEPT !.waf = IF parts.waf = "nil" THEN "shadow" ELSE "rules"]
    /\ pc' = "handler"
    /\ UNCHANGED <<cfg, files, serverVars, errCh, sigCh, ctx, exit>>

\* Without a configuration the engine has no rules and runs in shadow mode; a
\* rule that does not compile ends the program.
NewEngine ==
    /\ pc = "engine" /\ Running
    /\ IF parts.waf = "loaded" /\ files.waf = "bad rule" THEN Fail /\ parts' = parts
       ELSE /\ parts' = [parts EXCEPT !.waf = IF parts.waf = "nil" THEN "shadow" ELSE "rules"]
            /\ pc' = "handler" /\ exit' = exit
    /\ UNCHANGED <<cfg, files, serverVars, errCh, sigCh, ctx>>

NewHandler ==
    /\ pc = "handler" /\ Running
    /\ \E i, j \in DOMAIN cfg.upstreams :
          /\ TransportUpstream(cfg, i) /\ HandlerUpstream(cfg, j)
          /\ parts' = [parts EXCEPT !.transport = i, !.handler = j]
          /\ IF cfg.upstreams[j].base_url = BadURL THEN Fail
             ELSE pc' = "start public" /\ exit' = exit
    /\ UNCHANGED <<cfg, files, serverVars, errCh, sigCh, ctx>>

StartPublic ==
    /\ pc = "start public" /\ Running
    /\ srv' = [srv EXCEPT !["public"] = "started"]
    /\ pc' = "start admin"
    /\ UNCHANGED <<startVars, closing, active, errCh, sigCh, ctx, exit>>

StartAdmin ==
    /\ pc = "start admin" /\ Running
    /\ srv' = IF cfg.admin_enabled THEN [srv EXCEPT !["admin"] = "started"] ELSE srv
    /\ pc' = "notify"
    /\ UNCHANGED <<startVars, closing, active, errCh, sigCh, ctx, exit>>

Notify ==
    /\ pc = "notify" /\ Running
    /\ pc' = "select"
    /\ UNCHANGED <<startVars, serverVars, errCh, sigCh, ctx, exit>>

-----------------------------------------------------------------------------
(* Run, from the select to the end.                                        *)

\* When both channels are ready, either branch may be taken.
ReceiveError ==
    /\ pc = "select" /\ Running
    /\ \E s \in errCh : errCh' = errCh \ {s}
    /\ Fail
    /\ UNCHANGED <<startVars, serverVars, sigCh, ctx>>

\* Mutant of ReceiveSignal: the context has no deadline.
ReceiveSignalNoTimeout ==
    /\ pc = "select" /\ Running
    /\ sigCh > 0
    /\ sigCh' = sigCh - 1
    /\ pc' = "close public"
    /\ UNCHANGED <<startVars, serverVars, errCh, ctx, exit>>

\* One deadline for both servers; a negative timeout has expired already.
ReceiveSignal ==
    /\ pc = "select" /\ Running
    /\ sigCh > 0
    /\ sigCh' = sigCh - 1
    /\ ctx' = IF cfg.limits["graceful_shutdown_timeout_ms"] < 0 THEN "expired" ELSE "running"
    /\ pc' = "close public"
    /\ UNCHANGED <<startVars, serverVars, errCh, exit>>

Expire ==
    /\ ctx = "running" /\ Running
    /\ ctx' = "expired"
    /\ UNCHANGED <<pc, startVars, serverVars, errCh, sigCh, exit>>

\* http.Server.Shutdown closes the listeners first ...
ShutdownPublic ==
    /\ pc = "close public" /\ Running
    /\ closing' = closing \cup {"public"}
    /\ pc' = "drain public"
    /\ UNCHANGED <<startVars, srv, active, errCh, sigCh, ctx, exit>>

\* ... and returns when no request is left or the context is done.
Drained(s) == active[s] = 0 \/ ctx = "expired"

\* Mutant of DrainedPublic: the admin server is forgotten.
DrainedPublicEnds ==
    /\ pc = "drain public" /\ Running
    /\ Drained("public")
    /\ pc' = "end" /\ exit' = "ok"
    /\ UNCHANGED <<startVars, serverVars, errCh, sigCh, ctx>>

\* The error of Shutdown is logged and the next server is shut down.
DrainedPublic ==
    /\ pc = "drain public" /\ Running
    /\ Drained("public")
    /\ IF cfg.admin_enabled THEN pc' = "close admin" /\ exit' = exit
       ELSE pc' = "end" /\ exit' = "ok"
    /\ UNCHANGED <<startVars, serverVars, errCh, sigCh, ctx>>

ShutdownAdmin ==
    /\ pc = "close admin" /\ Running
    /\ closing' = closing \cup {"admin"}
    /\ pc' = "drain admin"
    /\ UNCHANGED <<startVars, srv, active, errCh, sigCh, ctx, exit>>

DrainedAdmin ==
    /\ pc = "drain admin" /\ Running
    /\ Drained("admin")
    /\ pc' = "end" /\ exit' = "ok"
    /\ UNCHANGED <<startVars, serverVars, errCh, sigCh, ctx>>

Run ==
    \/ Load \/ LoadRules \/ NewEngine \/ NewHandler \/ StartPublic \/ StartAdmin \/ Notify
    \/ ReceiveError \/ ReceiveSignal
    \/ ShutdownPublic \/ DrainedPublic \/ ShutdownAdmin \/ DrainedAdmin

-----------------------------------------------------------------------------
(* The goroutine of a server, and its requests.                            *)

\* ListenAndServe: the address may be taken.
Listen(s) ==
    /\ srv[s] = "started" /\ Running
    /\ srv' \in IF s \in closing THEN {[srv EXCEPT ![s] = "ended"]}
                ELSE {[srv EXCEPT ![s] = "serving"], [srv EXCEPT ![s] = "failing"]}
    /\ UNCHANGED <<pc, startVars, closing, active, errCh, sigCh, ctx, exit>>

AcceptFails(s) ==
    /\ srv[s] = "serving" /\ s \notin closing /\ Running
    /\ srv' = [srv EXCEPT ![s] = "failing"]
    /\ UNCHANGED <<pc, startVars, closing, active, errCh, sigCh, ctx, exit>>

\* ErrServerClosed is not an error.
ServerClosed(s) ==
    /\ srv[s] = "serving" /\ s \in closing /\ Running
    /\ srv' = [srv EXCEPT ![s] = "ended"]
    /\ UNCHANGED <<pc, startVars, closing, active, errCh, sigCh, ctx, exit>>

\* Mutant of ErrChCapacity.
ErrChOneSlot == 1

ErrChCapacity == 2

\* Mutant of Report: the error is only logged.
ReportNothing(s) ==
    /\ srv[s] = "failing" /\ Running
    /\ srv' = [srv EXCEPT ![s] = "ended"]
    /\ UNCHANGED <<pc, startVars, closing, active, errCh, sigCh, ctx, exit>>

\* errCh <- err: waits while the channel is full.
Report(s) ==
    /\ srv[s] = "failing" /\ Running
    /\ Cardinality(errCh) < ErrChCapacity
    /\ errCh' = errCh \cup {s}
    /\ srv' = [srv EXCEPT ![s] = "ended"]
    /\ UNCHANGED <<pc, startVars, closing, active, sigCh, ctx, exit>>

\* What the server is for.  Nothing bounds how long a request takes.
Accept(s) ==
    /\ srv[s] = "serving" /\ s \notin closing /\ Running
    /\ active[s] < MaxActive
    /\ active' = [active EXCEPT ![s] = @ + 1]
    /\ UNCHANGED <<pc, startVars, srv, closing, errCh, sigCh, ctx, exit>>

Finish(s) ==
    /\ active[s] > 0 /\ Running
    /\ active' = [active EXCEPT ![s] = @ - 1]
    /\ UNCHANGED <<pc, startVars, srv, closing, errCh, sigCh, ctx, exit>>

-----------------------------------------------------------------------------
(* Signals.                                                                *)

Notified ==
    pc \in {"select", "close public", "drain public", "close admin", "drain admin"}

\* SIGINT or SIGTERM before signal.Notify kills the process.
Killed ==
    /\ ~Notified /\ Running
    /\ exit' = "killed"
    /\ UNCHANGED <<pc, startVars, serverVars, errCh, sigCh, ctx>>

\* The channel has one slot, a signal that finds it full is dropped.
Signal ==
    /\ Notified /\ Running
    /\ sigCh = 0
    /\ sigCh' = 1
    /\ UNCHANGED <<pc, startVars, serverVars, errCh, ctx, exit>>

-----------------------------------------------------------------------------

Init ==
    /\ pc = "load" /\ exit = "no"
    /\ cfg \in Configs
    /\ files \in Files
    /\ parts = [waf |-> "nil", cache |-> "unreadable", ratelimit |-> "unreadable",
                transport |-> 0, handler |-> 0]
    /\ srv = [s \in Servers |-> "none"]
    /\ closing = {}
    /\ active = [s \in Servers |-> 0]
    /\ errCh = {} /\ sigCh = 0 /\ ctx = "none"

Next ==
    \/ Run
    \/ \E s \in Servers : Listen(s) \/ AcceptFails(s) \/ ServerClosed(s) \/ Report(s)
                              \/ Accept(s) \/ Finish(s)
    \/ Expire \/ Killed \/ Signal

\* Goroutines are scheduled and time passes; clients and signals may do nothing.
Fairness ==
    /\ WF_vars(Run) /\ WF_vars(Expire)
    /\ \A s \in Servers : WF_vars(Listen(s)) /\ WF_vars(ServerClosed(s)) /\ WF_vars(Report(s))

Spec == Init /\ [][Next]_vars /\ Fairness

-----------------------------------------------------------------------------

\* The types of the variables.
TypeOK ==
    /\ pc \in Steps
    /\ cfg \in ConfigType
    /\ files \in Files
    /\ parts \in Parts
    /\ srv \in [Servers -> {"none", "started", "serving", "failing", "ended"}]
    /\ closing \in SUBSET Servers
    /\ active \in [Servers -> 0 .. MaxActive]
    /\ errCh \in SUBSET Servers
    /\ sigCh \in {0, 1}
    /\ ctx \in {"none", "running", "expired"}
    /\ exit \in {"no", "ok", "error", "killed"}

(***************************************************************************)
(* A process that serves was configured for it, whatever was in the files: *)
(* the handler and the transport, which look for it separately, use the    *)
(* same upstream, one that routing names; no limit is zero; the admin API  *)
(* has a token; and every rule of the WAF is enforced, unless its file     *)
(* could not be read.  With that exception it is the promise to fail fast  *)
(* on an invalid configuration (docs/00-cahier-des-charges.md:162): a WAF  *)
(* file that does not load is logged, and the process serves without WAF.  *)
(***************************************************************************)
ServesAsConfigured ==
    \A s \in Servers : srv[s] = "serving" =>
        /\ parts.handler = parts.transport
        /\ cfg.upstreams[parts.handler].name = cfg.default_upstream
        /\ cfg.upstreams[parts.handler].base_url \notin {"", BadURL}
        /\ \A f \in Limits : cfg.limits[f] # 0
        /\ s = "admin" => cfg.auth_token # ""
        /\ parts.waf = "rules" <=> files.waf # "unreadable"
        /\ files.waf # "bad rule"

(***************************************************************************)
(* A process that ends with status 0 has drained: neither server takes     *)
(* requests any more, and none was cut off, unless the one deadline they   *)
(* share had expired (RF-PROXY-05, docs/00-cahier-des-charges.md).         *)
(***************************************************************************)
ExitZeroIsGraceful ==
    exit = "ok" =>
        \A s \in Servers : srv[s] # "none" =>
            /\ s \in closing
            /\ active[s] = 0 \/ ctx = "expired"

(***************************************************************************)
(* No server waits for room in the channel, although nobody reads it after *)
(* the select: both errors fit.                                            *)
(***************************************************************************)
NobodyBlocksOnErrCh ==
    \A s \in Servers : srv[s] = "failing" => Cardinality(errCh) < ErrChCapacity

(***************************************************************************)
(* Once signal.Notify has been called, a signal ends the process, even if  *)
(* requests never finish.                                                  *)
(***************************************************************************)
SignalEndsProcess == sigCh > 0 ~> ~Running

(***************************************************************************)
(* The process does not go on with one of its servers: one that cannot     *)
(* listen, or stops accepting, ends it.                                    *)
(***************************************************************************)
FailureEndsProcess == \A s \in Servers : srv[s] = "failing" ~> ~Running
=============================================================================
