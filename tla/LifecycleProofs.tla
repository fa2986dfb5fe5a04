-------------------------- MODULE LifecycleProofs --------------------------
(***************************************************************************)
(* Proofs about Lifecycle, for any set of configuration files and any      *)
(* number of requests in flight.                                           *)
(***************************************************************************)
EXTENDS Lifecycle, FiniteSetTheorems, SequenceTheorems, TLAPS

-----------------------------------------------------------------------------
(* The inductive invariant: what each stretch of Run has established.      *)

Loaded == validate(cfg) /\ \A f \in Limits : cfg.limits[f] # 0

Engine ==
    /\ parts.waf = "rules" <=> files.waf # "unreadable"
    /\ files.waf # "bad rule"

Handler ==
    /\ parts.handler = parts.transport
    /\ cfg.upstreams[parts.handler].name = cfg.default_upstream
    /\ cfg.upstreams[parts.handler].base_url \notin {"", BadURL}

BeforeServers == {"load", "rules", "engine", "handler", "start public"}

\* Run builds one part after the other, and only then starts servers.
Built ==
    /\ pc \notin {"load", "end"} => Loaded
    /\ pc = "engine" => parts.waf = (IF files.waf = "unreadable" THEN "nil" ELSE "loaded")
    /\ pc \notin {"load", "rules", "engine", "end"} => Engine
    /\ pc \notin {"load", "rules", "engine", "handler", "end"} => Handler
    /\ pc \in BeforeServers => \A s \in Servers : srv[s] = "none"
    /\ pc = "start admin" => srv["admin"] = "none"

Configured ==
    \A s \in Servers : srv[s] # "none" =>
        Loaded /\ Engine /\ Handler /\ (s = "admin" => cfg.admin_enabled)

\* How far the shutdown has come; a process that has ended does nothing more.
Draining ==
    /\ pc \in {"drain public", "close admin", "drain admin"} => "public" \in closing
    /\ pc = "drain admin" => "admin" \in closing
    /\ pc \in {"close admin", "drain admin"} => active["public"] = 0 \/ ctx = "expired"
    /\ exit = "ok" => pc = "end"
    /\ ExitZeroIsGraceful

\* A goroutine reports once, as it ends.
Reported == \A s \in Servers : srv[s] # "ended" => s \notin errCh

IInv == TypeOK /\ Built /\ Configured /\ Draining /\ Reported

-----------------------------------------------------------------------------
(* Initial states.                                                         *)

\* At first nothing is loaded, built or started.
LEMMA InitIInv == Init => IInv
<1> SUFFICES ASSUME Init PROVE IInv
  OBVIOUS
<1> USE DEF Init
<1>1. TypeOK
  BY ConfigsAssumption, MaxActiveAssumption DEF TypeOK, Steps, Parts, Servers
<1>2. Built
  BY DEF Built, BeforeServers, Loaded, Engine, Handler
<1>3. Configured
  BY DEF Configured
<1>4. Draining
  BY DEF Draining, ExitZeroIsGraceful
<1>5. Reported
  BY DEF Reported
<1>6. QED
  BY <1>1, <1>2, <1>3, <1>4, <1>5 DEF IInv

-----------------------------------------------------------------------------
(* Steps.                                                                  *)

\* A file with the defaults applied is a file.
LEMMA DefaultsType ==
    ASSUME NEW c \in ConfigType
    PROVE  applyDefaults(c) \in ConfigType
<1> DEFINE d == [f \in Limits |-> IF c.limits[f] = 0 THEN 1 ELSE c.limits[f]]
<1>1. c.limits \in [Limits -> Int]
  BY DEF ConfigType
<1>2. d \in [Limits -> Int]
  BY <1>1
<1>3. applyDefaults(c) = [c EXCEPT !.limits = d]
  BY DEF applyDefaults
<1> HIDE DEF d
<1>4. QED
  BY <1>2, <1>3 DEF ConfigType

\* ... in which no limit is zero.
LEMMA DefaultsNonZero ==
    ASSUME NEW c \in ConfigType, NEW f \in Limits
    PROVE  applyDefaults(c).limits[f] # 0
<1>1. applyDefaults(c).limits = [g \in Limits |-> IF c.limits[g] = 0 THEN 1 ELSE c.limits[g]]
  BY DEF ConfigType, applyDefaults
<1>2. QED
  BY <1>1

\* Indices are natural numbers.
LEMMA SeqIndex ==
    ASSUME NEW S, NEW q \in Seq(S), NEW i \in DOMAIN q
    PROVE  i \in Nat
BY LenProperties

\* The upstreams are numbered.
LEMMA UpstreamNat ==
    ASSUME NEW c \in ConfigType, NEW i \in DOMAIN c.upstreams
    PROVE  i \in Nat
<1>1. c.upstreams \in Seq([name : {"", "a", "b"}, base_url : {"", BadURL, "x", "y"}])
  BY DEF ConfigType
<1>2. QED
  BY <1>1, SeqIndex

\* A server has one request more ...
LEMMA ActiveAccept ==
    ASSUME TypeOK, NEW s \in Servers, Accept(s)
    PROVE  active' \in [Servers -> 0 .. MaxActive]
<1>1. active \in [Servers -> 0 .. MaxActive]
  BY DEF TypeOK
<1>2. active[s] < MaxActive /\ active' = [active EXCEPT ![s] = active[s] + 1]
  BY DEF Accept
<1>3. active[s] \in 0 .. MaxActive
  BY <1>1
<1>4. active[s] + 1 \in 0 .. MaxActive
  BY <1>2, <1>3, MaxActiveAssumption
<1>5. QED
  BY <1>1, <1>2, <1>4

\* ... or one less, if it has one.
LEMMA ActiveFinish ==
    ASSUME TypeOK, NEW s \in Servers, Finish(s)
    PROVE  /\ active' \in [Servers -> 0 .. MaxActive]
           /\ \A t \in Servers : active[t] = 0 => active'[t] = 0
<1>1. active \in [Servers -> 0 .. MaxActive]
  BY DEF TypeOK
<1>2. active[s] > 0 /\ active' = [active EXCEPT ![s] = active[s] - 1]
  BY DEF Finish
<1>3. active[s] \in 0 .. MaxActive
  BY <1>1
<1>4. active[s] - 1 \in 0 .. MaxActive
  BY <1>2, <1>3, MaxActiveAssumption
<1>5. QED
  BY <1>1, <1>2, <1>4

\* The loops of Run and NewHandler find the same upstream, one of the name.
LEMMA SameUpstream ==
    ASSUME NEW c \in ConfigType, NEW i \in DOMAIN c.upstreams, NEW j \in DOMAIN c.upstreams,
           TransportUpstream(c, i), HandlerUpstream(c, j)
    PROVE  i = j /\ c.upstreams[j].name = c.default_upstream
<1>1. i \in Named(c) /\ j \in Named(c) /\ i <= j /\ j <= i
  BY DEF TransportUpstream, HandlerUpstream
<1>2. QED
  BY <1>1, UpstreamNat DEF Named

\* Every step keeps the types.
LEMMA TypeOKStep == TypeOK /\ [Next]_vars => TypeOK'
<1> SUFFICES ASSUME TypeOK, [Next]_vars PROVE TypeOK'
  OBVIOUS
<1> USE DEF TypeOK, Steps, Servers, Running, startVars, serverVars, Fail
<1>1. CASE Load
  BY <1>1, DefaultsType DEF Load
<1>2. CASE LoadRules
  BY <1>2 DEF LoadRules, Files, Parts
<1>3. CASE NewEngine
  BY <1>3 DEF NewEngine, Parts
<1>4. CASE NewHandler
  <2>1. PICK i \in DOMAIN cfg.upstreams, j \in DOMAIN cfg.upstreams :
           parts' = [parts EXCEPT !.transport = i, !.handler = j]
    BY <1>4 DEF NewHandler
  <2>2. i \in Nat /\ j \in Nat
    BY UpstreamNat
  <2>3. parts' \in Parts
    BY <2>1, <2>2 DEF Parts
  <2>4. QED
    BY <1>4, <2>3 DEF NewHandler
<1>5. CASE StartPublic
  BY <1>5 DEF StartPublic
<1>6. CASE StartAdmin
  BY <1>6 DEF StartAdmin
<1>7. CASE Notify
  BY <1>7 DEF Notify
<1>8. CASE ReceiveError
  BY <1>8 DEF ReceiveError
<1>9. CASE ReceiveSignal
  <2>1. sigCh' = 0
    <3> HIDE DEF TypeOK
    <3>1. sigCh \in {0, 1} /\ sigCh > 0 /\ sigCh' = sigCh - 1
      BY <1>9 DEF ReceiveSignal, TypeOK
    <3>2. QED
      BY <3>1
  <2>2. ctx' \in {"running", "expired"}
    BY <1>9, Zenon DEF ReceiveSignal
  <2>3. QED
    BY <1>9, <2>1, <2>2 DEF ReceiveSignal
<1>10. CASE ShutdownPublic
  BY <1>10 DEF ShutdownPublic
<1>11. CASE DrainedPublic
  BY <1>11 DEF DrainedPublic, Drained
<1>12. CASE ShutdownAdmin
  BY <1>12 DEF ShutdownAdmin
<1>13. CASE DrainedAdmin
  BY <1>13 DEF DrainedAdmin, Drained
<1>14. ASSUME NEW s \in Servers, Listen(s) PROVE TypeOK'
  BY <1>14 DEF Listen
<1>15. ASSUME NEW s \in Servers, AcceptFails(s) PROVE TypeOK'
  BY <1>15 DEF AcceptFails
<1>16. ASSUME NEW s \in Servers, ServerClosed(s) PROVE TypeOK'
  BY <1>16 DEF ServerClosed
<1>17. ASSUME NEW s \in Servers, Report(s) PROVE TypeOK'
  BY <1>17 DEF Report
<1>18. ASSUME NEW s \in Servers, Accept(s) PROVE TypeOK'
  BY <1>18, ActiveAccept DEF Accept
<1>19. ASSUME NEW s \in Servers, Finish(s) PROVE TypeOK'
  BY <1>19, ActiveFinish DEF Finish
<1>20. CASE Expire
  BY <1>20 DEF Expire
<1>21. CASE Killed
  BY <1>21 DEF Killed, Notified
<1>22. CASE Signal
  BY <1>22 DEF Signal, Notified
<1>23. CASE UNCHANGED vars
  BY <1>23 DEF vars
<1>24. QED
  BY <1>1, <1>2, <1>3, <1>4, <1>5, <1>6, <1>7, <1>8, <1>9, <1>10, <1>11, <1>12, <1>13, <1>14, <1>15, <1>16, <1>17, <1>18, <1>19, <1>20, <1>21, <1>22, <1>23 DEF Next, Run

\* A part is built from parts that exist, and not changed afterwards.
LEMMA BuiltStep == TypeOK /\ Built /\ [Next]_vars => Built'
<1> SUFFICES ASSUME TypeOK, Built, [Next]_vars PROVE Built'
  OBVIOUS
<1> USE DEF TypeOK, Built, BeforeServers, Servers, Running, startVars, serverVars, Fail, Loaded, Engine, Handler
<1>1. CASE Load
  BY <1>1, DefaultsNonZero DEF Load
<1>2. CASE LoadRules
  BY <1>2 DEF LoadRules
<1>3. CASE NewEngine
  BY <1>3 DEF NewEngine, Parts
<1>4. CASE NewHandler
  <2>1. PICK i \in DOMAIN cfg.upstreams, j \in DOMAIN cfg.upstreams :
           /\ TransportUpstream(cfg, i) /\ HandlerUpstream(cfg, j)
           /\ parts' = [parts EXCEPT !.transport = i, !.handler = j]
           /\ IF cfg.upstreams[j].base_url = BadURL THEN Fail
              ELSE pc' = "start public" /\ exit' = exit
    BY <1>4 DEF NewHandler
  <2>2. i = j /\ cfg.upstreams[j].name = cfg.default_upstream
    BY <2>1, SameUpstream
  <2>3. parts'.handler = j /\ parts'.transport = j /\ parts'.waf = parts.waf
    BY <2>1, <2>2 DEF Parts
  <2>4. cfg.upstreams[j].base_url # ""
    BY <1>4 DEF NewHandler, validate
  <2>5. pc = "handler" /\ UNCHANGED <<cfg, files, srv>>
    BY <1>4 DEF NewHandler
  <2>6. QED
    BY <2>1, <2>2, <2>3, <2>4, <2>5
<1>5. CASE StartPublic
  BY <1>5 DEF StartPublic
<1>6. CASE StartAdmin
  BY <1>6 DEF StartAdmin
<1>7. CASE Notify
  BY <1>7 DEF Notify
<1>8. CASE ReceiveError
  BY <1>8 DEF ReceiveError
<1>9. CASE ReceiveSignal
  BY <1>9 DEF ReceiveSignal
<1>10. CASE ShutdownPublic
  BY <1>10 DEF ShutdownPublic
<1>11. CASE DrainedPublic
  BY <1>11 DEF DrainedPublic, Drained
<1>12. CASE ShutdownAdmin
  BY <1>12 DEF ShutdownAdmin
<1>13. CASE DrainedAdmin
  BY <1>13 DEF DrainedAdmin, Drained
<1>14. ASSUME NEW s \in Servers, Listen(s) PROVE Built'
  BY <1>14 DEF Listen
<1>15. ASSUME NEW s \in Servers, AcceptFails(s) PROVE Built'
  BY <1>15 DEF AcceptFails
<1>16. ASSUME NEW s \in Servers, ServerClosed(s) PROVE Built'
  BY <1>16 DEF ServerClosed
<1>17. ASSUME NEW s \in Servers, Report(s) PROVE Built'
  BY <1>17 DEF Report
<1>18. ASSUME NEW s \in Servers, Accept(s) PROVE Built'
  BY <1>18 DEF Accept
<1>19. ASSUME NEW s \in Servers, Finish(s) PROVE Built'
  BY <1>19 DEF Finish
<1>20. CASE Expire
  BY <1>20 DEF Expire
<1>21. CASE Killed
  BY <1>21 DEF Killed, Notified
<1>22. CASE Signal
  BY <1>22 DEF Signal, Notified
<1>23. CASE UNCHANGED vars
  BY <1>23 DEF vars
<1>24. QED
  BY <1>1, <1>2, <1>3, <1>4, <1>5, <1>6, <1>7, <1>8, <1>9, <1>10, <1>11, <1>12, <1>13, <1>14, <1>15, <1>16, <1>17, <1>18, <1>19, <1>20, <1>21, <1>22, <1>23 DEF Next, Run

\* A server is started when everything is built.
LEMMA ConfiguredStep == TypeOK /\ Built /\ Configured /\ [Next]_vars => Configured'
<1> SUFFICES ASSUME TypeOK, Built, Configured, [Next]_vars PROVE Configured'
  OBVIOUS
<1> USE DEF TypeOK, Built, BeforeServers, Configured, Servers, Running, startVars, serverVars, Fail, Loaded, Engine, Handler
<1>1. CASE Load
  BY <1>1 DEF Load, applyDefaults
<1>2. CASE LoadRules
  BY <1>2 DEF LoadRules
<1>3. CASE NewEngine
  BY <1>3 DEF NewEngine
<1>4. CASE NewHandler
  BY <1>4 DEF NewHandler
<1>5. CASE StartPublic
  BY <1>5 DEF StartPublic
<1>6. CASE StartAdmin
  BY <1>6 DEF StartAdmin
<1>7. CASE Notify
  BY <1>7 DEF Notify
<1>8. CASE ReceiveError
  BY <1>8 DEF ReceiveError
<1>9. CASE ReceiveSignal
  BY <1>9 DEF ReceiveSignal
<1>10. CASE ShutdownPublic
  BY <1>10 DEF ShutdownPublic
<1>11. CASE DrainedPublic
  BY <1>11 DEF DrainedPublic, Drained
<1>12. CASE ShutdownAdmin
  BY <1>12 DEF ShutdownAdmin
<1>13. CASE DrainedAdmin
  BY <1>13 DEF DrainedAdmin, Drained
<1>14. ASSUME NEW s \in Servers, Listen(s) PROVE Configured'
  BY <1>14 DEF Listen
<1>15. ASSUME NEW s \in Servers, AcceptFails(s) PROVE Configured'
  BY <1>15 DEF AcceptFails
<1>16. ASSUME NEW s \in Servers, ServerClosed(s) PROVE Configured'
  BY <1>16 DEF ServerClosed
<1>17. ASSUME NEW s \in Servers, Report(s) PROVE Configured'
  BY <1>17 DEF Report
<1>18. ASSUME NEW s \in Servers, Accept(s) PROVE Configured'
  BY <1>18 DEF Accept
<1>19. ASSUME NEW s \in Servers, Finish(s) PROVE Configured'
  BY <1>19 DEF Finish
<1>20. CASE Expire
  BY <1>20 DEF Expire
<1>21. CASE Killed
  BY <1>21 DEF Killed, Notified
<1>22. CASE Signal
  BY <1>22 DEF Signal, Notified
<1>23. CASE UNCHANGED vars
  BY <1>23 DEF vars
<1>24. QED
  BY <1>1, <1>2, <1>3, <1>4, <1>5, <1>6, <1>7, <1>8, <1>9, <1>10, <1>11, <1>12, <1>13, <1>14, <1>15, <1>16, <1>17, <1>18, <1>19, <1>20, <1>21, <1>22, <1>23 DEF Next, Run

\* A server that is closing only loses requests.
LEMMA DrainingStep == TypeOK /\ Built /\ Configured /\ Draining /\ [Next]_vars => Draining'
<1> SUFFICES ASSUME TypeOK, Built, Configured, Draining, [Next]_vars PROVE Draining'
  OBVIOUS
<1> USE DEF Configured, Draining, ExitZeroIsGraceful, Servers, Running, startVars, serverVars, Fail
<1>1. CASE Load
  BY <1>1 DEF Load, applyDefaults
<1>2. CASE LoadRules
  BY <1>2 DEF LoadRules
<1>3. CASE NewEngine
  BY <1>3 DEF NewEngine
<1>4. CASE NewHandler
  BY <1>4 DEF NewHandler
<1>5. CASE StartPublic
  BY <1>5 DEF StartPublic
<1>6. CASE StartAdmin
  BY <1>6 DEF StartAdmin
<1>7. CASE Notify
  BY <1>7 DEF Notify
<1>8. CASE ReceiveError
  BY <1>8 DEF ReceiveError
<1>9. CASE ReceiveSignal
  BY <1>9 DEF ReceiveSignal
<1>10. CASE ShutdownPublic
  BY <1>10 DEF ShutdownPublic
<1>11. CASE DrainedPublic
  <2>1. exit = "no" /\ UNCHANGED <<cfg, srv, closing, active, ctx>>
    BY <1>11 DEF DrainedPublic
  <2>2. "public" \in closing /\ (active["public"] = 0 \/ ctx = "expired")
    BY <1>11 DEF DrainedPublic, Drained
  <2>3. CASE cfg.admin_enabled
    <3>1. pc' = "close admin" /\ exit' = "no"
      BY <1>11, <2>3 DEF DrainedPublic
    <3>2. QED
      BY <2>1, <2>2, <3>1
  <2>4. CASE ~cfg.admin_enabled
    <3>1. pc' = "end" /\ exit' = "ok"
      BY <1>11, <2>4 DEF DrainedPublic
    <3>2. srv["admin"] = "none"
      BY <2>4
    <3>3. \A s \in Servers : srv'[s] # "none" =>
              s \in closing' /\ (active'[s] = 0 \/ ctx' = "expired")
      BY <2>1, <2>2, <3>2
    <3>4. ExitZeroIsGraceful'
      BY <3>3
    <3>5. QED
      BY <3>1, <3>4
  <2>5. QED
    BY <2>3, <2>4
<1>12. CASE ShutdownAdmin
  BY <1>12 DEF ShutdownAdmin
<1>13. CASE DrainedAdmin
  <2>1. exit = "no" /\ UNCHANGED <<cfg, srv, closing, active, ctx>>
    BY <1>13 DEF DrainedAdmin
  <2>2. \A s \in Servers : s \in closing /\ (active[s] = 0 \/ ctx = "expired")
    BY <1>13 DEF DrainedAdmin, Drained
  <2>3. pc' = "end" /\ exit' = "ok"
    BY <1>13 DEF DrainedAdmin
  <2>4. \A s \in Servers : s \in closing' /\ (active'[s] = 0 \/ ctx' = "expired")
    BY <2>1, <2>2
  <2>5. ExitZeroIsGraceful'
    BY <2>4
  <2>6. QED
    BY <2>3, <2>5
<1>14. ASSUME NEW s \in Servers, Listen(s) PROVE Draining'
  BY <1>14 DEF Listen
<1>15. ASSUME NEW s \in Servers, AcceptFails(s) PROVE Draining'
  BY <1>15 DEF AcceptFails
<1>16. ASSUME NEW s \in Servers, ServerClosed(s) PROVE Draining'
  BY <1>16 DEF ServerClosed
<1>17. ASSUME NEW s \in Servers, Report(s) PROVE Draining'
  BY <1>17 DEF Report
<1>18. ASSUME NEW s \in Servers, Accept(s) PROVE Draining'
  BY <1>18 DEF Accept, TypeOK
<1>19. ASSUME NEW s \in Servers, Finish(s) PROVE Draining'
  BY <1>19, ActiveFinish DEF Finish
<1>20. CASE Expire
  BY <1>20 DEF Expire
<1>21. CASE Killed
  BY <1>21 DEF Killed, Notified
<1>22. CASE Signal
  BY <1>22 DEF Signal, Notified
<1>23. CASE UNCHANGED vars
  BY <1>23 DEF vars
<1>24. QED
  BY <1>1, <1>2, <1>3, <1>4, <1>5, <1>6, <1>7, <1>8, <1>9, <1>10, <1>11, <1>12, <1>13, <1>14, <1>15, <1>16, <1>17, <1>18, <1>19, <1>20, <1>21, <1>22, <1>23 DEF Next, Run

\* An error is sent as the goroutine ends.
LEMMA ReportedStep == TypeOK /\ Built /\ Reported /\ [Next]_vars => Reported'
<1> SUFFICES ASSUME TypeOK, Built, Reported, [Next]_vars PROVE Reported'
  OBVIOUS
<1> USE DEF TypeOK, Built, BeforeServers, Reported, Servers, Running, startVars, serverVars, Fail
<1>1. CASE Load
  BY <1>1 DEF Load, applyDefaults
<1>2. CASE LoadRules
  BY <1>2 DEF LoadRules
<1>3. CASE NewEngine
  BY <1>3 DEF NewEngine
<1>4. CASE NewHandler
  BY <1>4 DEF NewHandler
<1>5. CASE StartPublic
  BY <1>5 DEF StartPublic
<1>6. CASE StartAdmin
  BY <1>6 DEF StartAdmin
<1>7. CASE Notify
  BY <1>7 DEF Notify
<1>8. CASE ReceiveError
  BY <1>8 DEF ReceiveError
<1>9. CASE ReceiveSignal
  BY <1>9 DEF ReceiveSignal
<1>10. CASE ShutdownPublic
  BY <1>10 DEF ShutdownPublic
<1>11. CASE DrainedPublic
  BY <1>11 DEF DrainedPublic, Drained
<1>12. CASE ShutdownAdmin
  BY <1>12 DEF ShutdownAdmin
<1>13. CASE DrainedAdmin
  BY <1>13 DEF DrainedAdmin, Drained
<1>14. ASSUME NEW s \in Servers, Listen(s) PROVE Reported'
  BY <1>14 DEF Listen
<1>15. ASSUME NEW s \in Servers, AcceptFails(s) PROVE Reported'
  BY <1>15 DEF AcceptFails
<1>16. ASSUME NEW s \in Servers, ServerClosed(s) PROVE Reported'
  BY <1>16 DEF ServerClosed
<1>17. ASSUME NEW s \in Servers, Report(s) PROVE Reported'
  BY <1>17 DEF Report
<1>18. ASSUME NEW s \in Servers, Accept(s) PROVE Reported'
  BY <1>18 DEF Accept
<1>19. ASSUME NEW s \in Servers, Finish(s) PROVE Reported'
  BY <1>19 DEF Finish
<1>20. CASE Expire
  BY <1>20 DEF Expire
<1>21. CASE Killed
  BY <1>21 DEF Killed, Notified
<1>22. CASE Signal
  BY <1>22 DEF Signal, Notified
<1>23. CASE UNCHANGED vars
  BY <1>23 DEF vars
<1>24. QED
  BY <1>1, <1>2, <1>3, <1>4, <1>5, <1>6, <1>7, <1>8, <1>9, <1>10, <1>11, <1>12, <1>13, <1>14, <1>15, <1>16, <1>17, <1>18, <1>19, <1>20, <1>21, <1>22, <1>23 DEF Next, Run

\* The invariant holds in every reachable state.
LEMMA Invariant == Spec => []IInv
<1>1. IInv /\ [Next]_vars => IInv'
  BY TypeOKStep, BuiltStep, ConfiguredStep, DrainingStep, ReportedStep DEF IInv
<1>2. QED
  BY InitIInv, <1>1, PTL DEF Spec

-----------------------------------------------------------------------------
(* What it gives.                                                          *)

\* The variables keep their types, for any configuration files.
THEOREM TypeCorrect == Spec => []TypeOK
<1>1. IInv => TypeOK
  BY DEF IInv
<1>2. QED
  BY Invariant, <1>1, PTL

(***************************************************************************)
(* Whatever the files contain, a process that serves has one upstream in   *)
(* both its parts, no limit of zero, a token, and all the WAF's rules.     *)
(***************************************************************************)
THEOREM ServesAsConfiguredHolds == Spec => []ServesAsConfigured
<1>1. IInv => ServesAsConfigured
  BY DEF IInv, Configured, ServesAsConfigured, Loaded, Engine, Handler, validate
<1>2. QED
  BY Invariant, <1>1, PTL

\* However many requests were in flight, status 0 means that none was cut off
\* before the deadline.
THEOREM ExitZeroIsGracefulHolds == Spec => []ExitZeroIsGraceful
<1>1. IInv => ExitZeroIsGraceful
  BY DEF IInv, Draining
<1>2. QED
  BY Invariant, <1>1, PTL

\* There is always room in errCh for a server that fails.
THEOREM NobodyBlocksHolds == Spec => []NobodyBlocksOnErrCh
<1>1. IInv => NobodyBlocksOnErrCh
  <2> SUFFICES ASSUME IInv, NEW s \in Servers, srv[s] = "failing"
               PROVE  Cardinality(errCh) < ErrChCapacity
    BY DEF NobodyBlocksOnErrCh
  <2>1. errCh \subseteq Servers /\ s \notin errCh
    BY DEF IInv, TypeOK, Reported
  <2>2. PICK t \in Servers : errCh \subseteq {t}
    BY <2>1 DEF Servers
  <2>3. Cardinality({t}) = 1 /\ IsFiniteSet({t})
    BY FS_Singleton
  <2>4. Cardinality(errCh) <= 1 /\ Cardinality(errCh) \in Nat
    BY <2>2, <2>3, FS_Subset, FS_CardinalityType
  <2>5. QED
    BY <2>4 DEF ErrChCapacity
<1>2. QED
  BY Invariant, <1>1, PTL
=============================================================================
