--------------------------- MODULE PipelineProofs ---------------------------
(***************************************************************************)
(* Proofs about Pipeline, for all configurations and all requests.  The    *)
(* invariants speak of a request that has left; the strengthening says     *)
(* what each stage knows of the body that is still in its hands, and how   *)
(* far Evaluate has come.                                                  *)
(***************************************************************************)
EXTENDS Pipeline, SequenceTheorems, TLAPS

\* A body that is cut is a body.
LEMMA LimitType == ASSUME NEW s \in Seq(STRING), NEW n \in Int
                   PROVE  Limit(s, n) \in Seq(STRING)
<1>1. CASE n < Len(s)
  <2>1. \A i \in 1..n : s[i] \in STRING
    BY <1>1
  <2> QED
    BY <1>1, <2>1, SubSeqProperties, Z3 DEF Limit
<1> QED
  BY <1>1 DEF Limit

\* There is nothing to cut from an empty body.
LEMMA LimitEmpty == ASSUME NEW n \in Int PROVE Limit(<<>>, n) = <<>>
  BY SubSeqEmpty DEF Limit

\* ReadBodyForInspection cuts twice, which is as good as once.
LEMMA LimitTwice == ASSUME NEW s \in Seq(STRING), NEW n \in Nat
                    PROVE  Limit(Limit(s, n + 1), n) = Limit(s, n)
<1>1. CASE Len(s) <= n + 1
  BY <1>1 DEF Limit
<1>2. CASE n + 1 < Len(s)
  <2>1. Limit(s, n + 1) = SubSeq(s, 1, n + 1)
    BY <1>2 DEF Limit
  <2>2. Limit(s, n) = SubSeq(s, 1, n)
    BY <1>2 DEF Limit
  <2>3. Len(SubSeq(s, 1, n + 1)) = n + 1
    BY <1>2
  <2>4. SubSeq(SubSeq(s, 1, n + 1), 1, n) = SubSeq(s, 1, n)
    <3>1. CASE n = 0
      BY <3>1, SubSeqEmpty
    <3>2. CASE n # 0
      <4>1. 1 \in 1..Len(s) /\ n + 1 \in 1..Len(s) /\ 1 \in 1..(n + 1) /\ n \in 1..(n + 1)
        BY <1>2, <3>2
      <4> QED
        BY <4>1, SubSeqOfSubSeq
    <3> QED
      BY <3>1, <3>2
  <2>5. Limit(SubSeq(s, 1, n + 1), n) = SubSeq(SubSeq(s, 1, n + 1), 1, n)
    <3> DEFINE t == SubSeq(s, 1, n + 1)
    <3>1. n < Len(t)
      BY <2>3
    <3> HIDE DEF t
    <3>2. Limit(t, n) = SubSeq(t, 1, n)
      BY <3>1 DEF Limit
    <3> QED
      BY <3>2 DEF t
  <2> QED
    BY <2>1, <2>2, <2>4, <2>5, Zenon
<1> QED
  BY <1>1, <1>2

-----------------------------------------------------------------------------
Inside == {"inspect", "limit", "cache", "forward"}

Blocked == answer # None /\ answer.how = "blocked"

\* Only an answered request has an answer; only one that was sent on, the rest.
Stages ==
    /\ pc # "answered" => answer = None
    /\ pc \notin {"respond", "answered"} => received = None /\ produced = None
    /\ pc = "respond" => received # None /\ produced # None
    /\ answer # None => request \in Requests
    /\ answer # None /\ produced # None => answer.how \in {"fetched", "proxied"}
    /\ pc \in {"start", "arrived"} => at = 1 /\ inspected = <<>>
    /\ received # None => request \in Requests
    /\ pc \in {"cache", "forward", "respond"} => route # "none"

\* What is left of the body at each stage.
Body ==
    /\ pc = "arrived" => body = request.body
    /\ pc \in Inside =>
          \/ body = request.body
          \/ MaxBodyInspectBytes >= 0 /\ body = Limit(request.body, MaxBodyInspectBytes + 1)

\* What the WAF was shown.
Shown ==
    pc = "inspect" \/ PastWAF \/ Blocked =>
        inspected = Limit(request.body, MaxBodyInspectBytes)

\* The rules before the one Evaluate has come to did not decide.
Skipped ==
    pc = "inspect" \/ PastWAF \/ Blocked =>
        \A j \in 1..(at - 1) : j \in 1..Len(rules) => ~Decides(j, request, inspected)

Unique == \A i, j \in 1..Len(rules) : rules[i].id = rules[j].id => i = j

\* How the WAF came to its decision.
Judged ==
    /\ PastWAF => Decided /\ Verdict # "block"
    /\ Blocked => Decided /\ Verdict = "block"
    /\ Blocked /\ Unique => answer.code = Code(rules[at])

IInv == TypeOK /\ Stages /\ Body /\ Shown /\ Skipped /\ Judged /\ BodyIntact /\ ResponseIntact

WAFView == <<security, mode, rules, request, inspected, at>>

\* What a rule decides depends on the engine, the request and what is inspected.
LEMMA DecidesFrame ==
    ASSUME security' = security, rules' = rules, request' = request,
           inspected' = inspected, NEW j
    PROVE  Decides(j, request, inspected)' <=> Decides(j, request, inspected)
  BY DEF Decides, matchRule, matchCondition, Limit, MaxBodyInspectBytes

\* The verdict stands as long as nothing it depends on changes.
LEMMA VerdictFrame ==
    ASSUME UNCHANGED WAFView
    PROVE  /\ Decided' <=> Decided
           /\ Verdict' = Verdict
<1>1. security' = security /\ mode' = mode /\ rules' = rules /\ request' = request
          /\ inspected' = inspected /\ at' = at
  BY DEF WAFView
<1>2. Decided' <=> Decided
  BY <1>1, DecidesFrame, Zenon DEF Decided, Decides, matchRule, matchCondition, Limit,
     MaxBodyInspectBytes
<1>3. Verdict' = Verdict
  BY <1>1 DEF Verdict, Effective
<1> QED
  BY <1>2, <1>3

\* A stage after the WAF keeps what is known of the WAF.
LEMMA WAFKept ==
    ASSUME Shown, Skipped, Judged, PastWAF, UNCHANGED WAFView, ~Blocked', pc' # "inspect"
    PROVE  Shown' /\ Skipped' /\ Judged'
<1>1. security' = security /\ rules' = rules /\ request' = request
          /\ inspected' = inspected /\ at' = at
  BY DEF WAFView
<1>2. Shown'
  BY <1>1 DEF Shown, MaxBodyInspectBytes, Limit
<1>3. Skipped'
  <2>1. \A j \in 1..(at - 1) : j \in 1..Len(rules) => ~Decides(j, request, inspected)
    BY DEF Skipped
  <2>2. \A j \in 1..(at - 1) : j \in 1..Len(rules) => ~Decides(j, request, inspected)'
    BY <2>1, <1>1, DecidesFrame
  <2> QED
    BY <2>2, <1>1 DEF Skipped
<1>4. Judged'
  BY VerdictFrame DEF Judged
<1> QED
  BY <1>2, <1>3, <1>4

-----------------------------------------------------------------------------
(* Induction.                                                              *)

\* None is neither a body nor a length; a request has the fields of Request.
LEMMA Values ==
    /\ None \notin Nat /\ None \notin Seq(STRING)
    /\ Responses \subseteq Nat
    /\ \A q \in Requests : /\ q.body \in Seq(STRING) /\ q.noCache \in BOOLEAN
                           /\ q.contentLength = "zero" => q.body = <<>>
                           /\ q.contentLength \in {"zero", "known", "unknown"}
  BY PipelineAssumption DEF Request

\* The empty sequence is a list of rules and a body.
LEMMA Empty == <<>> \in Seq(Rule) /\ <<>> \in Seq(STRING)
  BY EmptySeq

\* Before the first request there is nothing to say.
LEMMA InitHolds == Init => IInv
<1> SUFFICES ASSUME Init PROVE IInv
  OBVIOUS
<1>1. TypeOK
  <2>1. security \in SecurityConfig
    BY PipelineAssumption DEF Init
  <2>2. at \in Nat \ {0} /\ mode \in Modes /\ route \in {"none", "fetchFromOrigin", "proxyToOrigin"}
    BY DEF Init, Modes
  <2>3. rules \in Seq(Rule) /\ body \in Seq(STRING) /\ inspected \in Seq(STRING)
    BY Empty DEF Init
  <2> QED
    BY <2>1, <2>2, <2>3 DEF Init, TypeOK
<1>2. Stages /\ Body /\ BodyIntact /\ ResponseIntact
  BY DEF Init, Stages, Body, Inside, BodyIntact, ResponseIntact
<1>3. ~PastWAF /\ ~Blocked /\ pc # "inspect"
  BY DEF Init, PastWAF, Blocked
<1> QED
  BY <1>1, <1>2, <1>3 DEF IInv, Shown, Skipped, Judged

\* Nothing has arrived yet.
LEMMA NewEngineStep == IInv /\ NewEngine => IInv'
<1> SUFFICES ASSUME IInv, NewEngine PROVE IInv'
  OBVIOUS
<1> USE Values DEF IInv
<1>0. mode' \in Modes /\ rules' \in Seq(Rule)
  <2>1. PICK c \in WAFConfigs : IF c = NoConfig THEN mode' = "shadow" /\ rules' = <<>>
                                ELSE mode' = c.mode /\ rules' = c.rules
    BY DEF NewEngine
  <2>2. CASE c = NoConfig
    BY <2>1, <2>2, Empty DEF Modes
  <2>3. CASE c # NoConfig
    <3>1. c \in [mode : Modes, rules : Seq(Rule)]
      BY <2>3, PipelineAssumption
    <3> QED
      BY <2>1, <2>3, <3>1
  <2> QED
    BY <2>2, <2>3
<1>1. TypeOK'
  BY <1>0 DEF TypeOK, Stages, NewEngine, engine, exchange, Answers
<1>2. Stages'
  BY DEF TypeOK, Stages, NewEngine, engine, exchange
<1>3. Body'
  BY DEF TypeOK, Stages, Body, Inside, MaxBodyInspectBytes, Limit, NewEngine, engine, exchange
<1>4. Shown' /\ Skipped' /\ Judged'
  <2>1. ~PastWAF' /\ ~Blocked' /\ pc' # "inspect"
    BY DEF PastWAF, Blocked, Stages, NewEngine, engine, exchange
  <2> QED
    BY <2>1 DEF Shown, Skipped, Judged
<1>5. BodyIntact'
  BY DEF TypeOK, Stages, Body, Inside, BodyIntact, MaxBodyInspectBytes, NewEngine, engine,
     exchange
<1>6. ResponseIntact'
  BY DEF TypeOK, Stages, ResponseIntact, MaxRequestBodyBytes, NewEngine, engine, exchange
<1> QED
  BY <1>1, <1>2, <1>3, <1>4, <1>5, <1>6


\* A new request starts from nothing.
LEMMA ArriveStep == IInv /\ Arrive => IInv'
<1> SUFFICES ASSUME IInv, Arrive PROVE IInv'
  OBVIOUS
<1> USE Values DEF IInv
<1>1. TypeOK'
  BY DEF TypeOK, Stages, Arrive, engine, exchange, Answers
<1>2. Stages'
  BY DEF TypeOK, Stages, Arrive, engine, exchange
<1>3. Body'
  BY DEF TypeOK, Stages, Body, Inside, MaxBodyInspectBytes, Limit, Arrive, engine, exchange
<1>4. Shown' /\ Skipped' /\ Judged'
  <2>1. ~PastWAF' /\ ~Blocked' /\ pc' # "inspect"
    BY DEF PastWAF, Blocked, Stages, Arrive, engine, exchange
  <2> QED
    BY <2>1 DEF Shown, Skipped, Judged
<1>5. BodyIntact'
  BY DEF TypeOK, Stages, Body, Inside, BodyIntact, MaxBodyInspectBytes, Arrive, engine, exchange
<1>6. ResponseIntact'
  BY DEF TypeOK, Stages, ResponseIntact, MaxRequestBodyBytes, Arrive, engine, exchange
<1> QED
  BY <1>1, <1>2, <1>3, <1>4, <1>5, <1>6


\* The WAF is not asked.
LEMMA BuiltinStep == IInv /\ Builtin => IInv'
<1> SUFFICES ASSUME IInv, Builtin PROVE IInv'
  OBVIOUS
<1> USE Values DEF IInv
<1>1. TypeOK'
  BY DEF TypeOK, Stages, Builtin, Finish, engine, exchange, Answers
<1>2. Stages'
  BY DEF TypeOK, Stages, Builtin, Finish, engine, exchange
<1>3. Body'
  BY DEF TypeOK, Stages, Body, Inside, MaxBodyInspectBytes, Limit, Builtin, Finish, 
     engine, exchange
<1>4. Shown' /\ Skipped' /\ Judged'
  <2>1. ~PastWAF' /\ ~Blocked' /\ pc' # "inspect"
    BY DEF PastWAF, Blocked, Stages, Builtin, Finish, engine, exchange
  <2> QED
    BY <2>1 DEF Shown, Skipped, Judged
<1>5. BodyIntact'
  BY DEF TypeOK, Stages, Body, Inside, BodyIntact, MaxBodyInspectBytes, Builtin, Finish,
     engine, exchange
<1>6. ResponseIntact'
  BY DEF TypeOK, Stages, ResponseIntact, MaxRequestBodyBytes, Builtin, Finish, 
     engine, exchange
<1> QED
  BY <1>1, <1>2, <1>3, <1>4, <1>5, <1>6


\* The WAF is not asked.
LEMMA ReadBodyFailsStep == IInv /\ ReadBodyFails => IInv'
<1> SUFFICES ASSUME IInv, ReadBodyFails PROVE IInv'
  OBVIOUS
<1> USE Values DEF IInv
<1>1. TypeOK'
  BY DEF TypeOK, Stages, ReadBodyFails, Finish, engine, exchange, Answers
<1>2. Stages'
  BY DEF TypeOK, Stages, ReadBodyFails, Finish, engine, exchange
<1>3. Body'
  BY DEF TypeOK, Stages, Body, Inside, MaxBodyInspectBytes, Limit, ReadBodyFails, Finish,
     engine, exchange
<1>4. Shown' /\ Skipped' /\ Judged'
  <2>1. ~PastWAF' /\ ~Blocked' /\ pc' # "inspect"
    BY DEF PastWAF, Blocked, Stages, ReadBodyFails, Finish, engine, exchange
  <2> QED
    BY <2>1 DEF Shown, Skipped, Judged
<1>5. BodyIntact'
  BY DEF TypeOK, Stages, Body, Inside, BodyIntact, MaxBodyInspectBytes, ReadBodyFails,
     Finish, engine, exchange
<1>6. ResponseIntact'
  BY DEF TypeOK, Stages, ResponseIntact, MaxRequestBodyBytes, ReadBodyFails, Finish,
     engine, exchange
<1> QED
  BY <1>1, <1>2, <1>3, <1>4, <1>5, <1>6


\* The WAF is not asked.
LEMMA ReadBodyPanicsStep == IInv /\ ReadBodyPanics => IInv'
<1> SUFFICES ASSUME IInv, ReadBodyPanics PROVE IInv'
  OBVIOUS
<1> USE Values DEF IInv
<1>1. TypeOK'
  BY DEF TypeOK, Stages, ReadBodyPanics, Finish, engine, exchange, Answers
<1>2. Stages'
  BY DEF TypeOK, Stages, ReadBodyPanics, Finish, engine, exchange
<1>3. Body'
  BY DEF TypeOK, Stages, Body, Inside, MaxBodyInspectBytes, Limit, ReadBodyPanics, Finish,
     engine, exchange
<1>4. Shown' /\ Skipped' /\ Judged'
  <2>1. ~PastWAF' /\ ~Blocked' /\ pc' # "inspect"
    BY DEF PastWAF, Blocked, Stages, ReadBodyPanics, Finish, engine, exchange
  <2> QED
    BY <2>1 DEF Shown, Skipped, Judged
<1>5. BodyIntact'
  BY DEF TypeOK, Stages, Body, Inside, BodyIntact, MaxBodyInspectBytes, ReadBodyPanics,
     Finish, engine, exchange
<1>6. ResponseIntact'
  BY DEF TypeOK, Stages, ResponseIntact, MaxRequestBodyBytes, ReadBodyPanics, Finish,
     engine, exchange
<1> QED
  BY <1>1, <1>2, <1>3, <1>4, <1>5, <1>6


\* An empty body is shown as it is.
LEMMA SkipBodyStep == IInv /\ SkipBody => IInv'
<1> SUFFICES ASSUME IInv, SkipBody PROVE IInv'
  OBVIOUS
<1> USE Values DEF IInv
<1>1. TypeOK'
  BY DEF TypeOK, Stages, SkipBody, engine, exchange, Answers
<1>2. Stages'
  BY DEF TypeOK, Stages, SkipBody, engine, exchange
<1>3. Body'
  BY DEF TypeOK, Stages, Body, Inside, MaxBodyInspectBytes, Limit, SkipBody, engine, exchange
<1>4. Shown' /\ Skipped' /\ Judged'
  <2>1. ~PastWAF' /\ ~Blocked'
    BY DEF PastWAF, Blocked, Stages, SkipBody
  <2>2. Shown'
    <3>1. security \in SecurityConfig /\ security' = security /\ request' = request /\ request \in Requests
      BY DEF TypeOK, SkipBody, engine
    <3>2. MaxBodyInspectBytes \in Int /\ MaxBodyInspectBytes' = MaxBodyInspectBytes
      BY <3>1 DEF SecurityConfig, MaxBodyInspectBytes
    <3>3. inspected' = Limit(request.body, MaxBodyInspectBytes)
      <4>1. request.body = <<>> /\ inspected' = inspected
        BY <3>1 DEF SkipBody
      <4>2. inspected = <<>>
        BY DEF Stages, SkipBody
      <4> QED
        BY <4>1, <4>2, <3>2, LimitEmpty
    <3> QED
      BY <3>1, <3>2, <3>3 DEF Shown, Limit
  <2>3. Skipped'
    BY DEF Skipped, Stages, TypeOK, SkipBody
  <2> QED
    BY <2>1, <2>2, <2>3 DEF Judged
<1>5. BodyIntact'
  BY DEF TypeOK, Stages, Body, Inside, BodyIntact, MaxBodyInspectBytes, SkipBody, engine,
     exchange
<1>6. ResponseIntact'
  BY DEF TypeOK, Stages, ResponseIntact, MaxRequestBodyBytes, SkipBody, engine, exchange
<1> QED
  BY <1>1, <1>2, <1>3, <1>4, <1>5, <1>6


\* The inspected part is a prefix of the request's body, not only of what was read.
LEMMA ReadBodyForInspectionStep == IInv /\ ReadBodyForInspection => IInv'
<1> SUFFICES ASSUME IInv, ReadBodyForInspection PROVE IInv'
  OBVIOUS
<1> USE Values DEF IInv
<1>0. MaxBodyInspectBytes \in Int /\ MaxBodyInspectBytes + 1 \in Int
  BY DEF TypeOK, SecurityConfig, MaxBodyInspectBytes
<1>1. TypeOK'
  BY <1>0, LimitType DEF TypeOK, Stages, ReadBodyForInspection, engine, exchange, Answers
<1>2. Stages'
  BY DEF TypeOK, Stages, ReadBodyForInspection, engine, exchange
<1>3. Body'
  BY DEF TypeOK, Stages, Body, Inside, MaxBodyInspectBytes, Limit, ReadBodyForInspection,
     engine, exchange
<1>4. Shown' /\ Skipped' /\ Judged'
  <2>1. ~PastWAF' /\ ~Blocked'
    BY DEF PastWAF, Blocked, Stages, ReadBodyForInspection
  <2>2. Shown'
    <3>1. security \in SecurityConfig /\ security' = security /\ request' = request /\ request \in Requests
      BY DEF TypeOK, ReadBodyForInspection, engine
    <3>2. MaxBodyInspectBytes \in Int /\ MaxBodyInspectBytes' = MaxBodyInspectBytes
      BY <3>1 DEF SecurityConfig, MaxBodyInspectBytes
    <3>3. inspected' = Limit(request.body, MaxBodyInspectBytes)
      <4>1. MaxBodyInspectBytes \in Nat /\ body = request.body /\ request.body \in Seq(STRING)
        BY <3>1, <3>2 DEF ReadBodyForInspection, Body
      <4>2. inspected' = Limit(Limit(request.body, MaxBodyInspectBytes + 1), MaxBodyInspectBytes)
        BY <4>1 DEF ReadBodyForInspection
      <4> QED
        BY <4>1, <4>2, LimitTwice
    <3> QED
      BY <3>1, <3>2, <3>3 DEF Shown, Limit
  <2>3. Skipped'
    BY DEF Skipped, Stages, TypeOK, ReadBodyForInspection
  <2> QED
    BY <2>1, <2>2, <2>3 DEF Judged
<1>5. BodyIntact'
  BY DEF TypeOK, Stages, Body, Inside, BodyIntact, MaxBodyInspectBytes,
     ReadBodyForInspection, engine, exchange
<1>6. ResponseIntact'
  BY DEF TypeOK, Stages, ResponseIntact, MaxRequestBodyBytes, ReadBodyForInspection,
     engine, exchange
<1> QED
  BY <1>1, <1>2, <1>3, <1>4, <1>5, <1>6


\* The rule left behind did not decide.
LEMMA NextRuleStep == IInv /\ NextRule => IInv'
<1> SUFFICES ASSUME IInv, NextRule PROVE IInv'
  OBVIOUS
<1> USE Values DEF IInv
<1>1. TypeOK'
  BY DEF TypeOK, Stages, NextRule, engine, exchange, Answers
<1>2. Stages'
  BY DEF TypeOK, Stages, NextRule, engine, exchange
<1>3. Body'
  BY DEF TypeOK, Stages, Body, Inside, MaxBodyInspectBytes, Limit, NextRule, engine, exchange
<1>4. Shown' /\ Skipped' /\ Judged'
  <2>1. ~PastWAF' /\ ~Blocked'
    BY DEF PastWAF, Blocked, Stages, NextRule
  <2>2. Shown'
    BY DEF Shown, MaxBodyInspectBytes, Limit, NextRule, engine
  <2>3. Skipped'
    <3>1. security' = security /\ rules' = rules /\ request' = request /\ inspected' = inspected
      BY DEF NextRule, engine
    <3>2. \A j \in 1..at : j \in 1..Len(rules) => ~Decides(j, request, inspected)
      BY DEF Skipped, NextRule, TypeOK
    <3>3. \A j \in 1..at : j \in 1..Len(rules) => ~Decides(j, request, inspected)'
      BY <3>1, <3>2, DecidesFrame
    <3>4. at' - 1 = at
      BY DEF NextRule, TypeOK
    <3> QED
      BY <3>1, <3>3, <3>4 DEF Skipped
  <2> QED
    BY <2>1, <2>2, <2>3 DEF Judged
<1>5. BodyIntact'
  BY DEF TypeOK, Stages, Body, Inside, BodyIntact, MaxBodyInspectBytes, NextRule, engine,
     exchange
<1>6. ResponseIntact'
  BY DEF TypeOK, Stages, ResponseIntact, MaxRequestBodyBytes, NextRule, engine, exchange
<1> QED
  BY <1>1, <1>2, <1>3, <1>4, <1>5, <1>6


\* The status is that of the rule that decided, if no other has its identifier.
LEMMA BlockStep == IInv /\ Block => IInv'
<1> SUFFICES ASSUME IInv, Block PROVE IInv'
  OBVIOUS
<1> USE Values DEF IInv
<1>1. TypeOK'
  BY DEF TypeOK, Stages, Block, Finish, engine, exchange, Answers
<1>2. Stages'
  BY DEF TypeOK, Stages, Block, Finish, engine, exchange
<1>3. Body'
  BY DEF TypeOK, Stages, Body, Inside, MaxBodyInspectBytes, Limit, Block, Finish, 
     engine, exchange
<1>4. Shown' /\ Skipped' /\ Judged'
  <2>0. UNCHANGED WAFView
    BY DEF Block, engine, WAFView
  <2>1. security' = security /\ rules' = rules /\ request' = request /\ inspected' = inspected /\ at' = at
    BY <2>0 DEF WAFView
  <2>2. Shown'
    BY <2>1 DEF Shown, MaxBodyInspectBytes, Limit, Block
  <2>3. Skipped'
    <3>1. \A j \in 1..(at - 1) : j \in 1..Len(rules) => ~Decides(j, request, inspected)
      BY DEF Skipped, Block
    <3>2. \A j \in 1..(at - 1) : j \in 1..Len(rules) => ~Decides(j, request, inspected)'
      BY <3>1, <2>1, DecidesFrame
    <3> QED
      BY <3>2, <2>1 DEF Skipped
  <2>4. Decided' /\ Verdict' = Verdict
    BY <2>0, VerdictFrame DEF Block
  <2>5. Judged'
    <3>1. ~PastWAF' /\ answer'.code = GetBlockStatusCode(rules[at].id) /\ Verdict = "block"
      BY DEF PastWAF, Block, Finish, Stages
    <3>2. Unique => GetBlockStatusCode(rules[at].id) = Code(rules[at])
      <4>1. at \in 1..Len(rules) /\ rules[at].enabled
        BY DEF Block, Decided, Verdict, Decides, TypeOK
      <4>2. ASSUME Unique, NEW i \in 1..Len(rules), rules[i].id = rules[at].id PROVE i = at
        BY <4>1, <4>2 DEF Unique
      <4>3. ASSUME Unique
            PROVE  (CHOOSE i \in 1..Len(rules) :
                       /\ rules[i].enabled /\ rules[i].id = rules[at].id
                       /\ \A j \in 1..(i - 1) : ~(rules[j].enabled /\ rules[j].id = rules[at].id))
                   = at
        <5>1. \A j \in 1..(at - 1) : ~(rules[j].enabled /\ rules[j].id = rules[at].id)
          BY <4>1, <4>2, <4>3 DEF TypeOK
        <5> QED
          BY <4>1, <4>2, <4>3, <5>1
      <4> QED
        BY <4>3 DEF GetBlockStatusCode
    <3>3. Unique' <=> Unique
      BY <2>1 DEF Unique
    <3>4. Code(rules[at])' = Code(rules[at])
      BY <2>1 DEF Code
    <3> QED
      BY <2>4, <3>1, <3>2, <3>3, <3>4 DEF Judged
  <2> QED
    BY <2>2, <2>3, <2>5
<1>5. BodyIntact'
  BY DEF TypeOK, Stages, Body, Inside, BodyIntact, MaxBodyInspectBytes, Block, Finish,
     engine, exchange
<1>6. ResponseIntact'
  BY DEF TypeOK, Stages, ResponseIntact, MaxRequestBodyBytes, Block, Finish, 
     engine, exchange
<1> QED
  BY <1>1, <1>2, <1>3, <1>4, <1>5, <1>6


\* The decision is not to block.
LEMMA PassStep == IInv /\ Pass => IInv'
<1> SUFFICES ASSUME IInv, Pass PROVE IInv'
  OBVIOUS
<1> USE Values DEF IInv
<1>1. TypeOK'
  BY DEF TypeOK, Stages, Pass, engine, exchange, Answers
<1>2. Stages'
  BY DEF TypeOK, Stages, Pass, engine, exchange
<1>3. Body'
  BY DEF TypeOK, Stages, Body, Inside, MaxBodyInspectBytes, Limit, Pass, engine, exchange
<1>4. Shown' /\ Skipped' /\ Judged'
  <2>0. UNCHANGED WAFView
    BY DEF Pass, engine, WAFView
  <2>1. security' = security /\ rules' = rules /\ request' = request /\ inspected' = inspected /\ at' = at
    BY <2>0 DEF WAFView
  <2>2. Shown'
    BY <2>1 DEF Shown, MaxBodyInspectBytes, Limit, Pass
  <2>3. Skipped'
    <3>1. \A j \in 1..(at - 1) : j \in 1..Len(rules) => ~Decides(j, request, inspected)
      BY DEF Skipped, Pass
    <3>2. \A j \in 1..(at - 1) : j \in 1..Len(rules) => ~Decides(j, request, inspected)'
      BY <3>1, <2>1, DecidesFrame
    <3> QED
      BY <3>2, <2>1 DEF Skipped
  <2>4. Decided' /\ Verdict' = Verdict
    BY <2>0, VerdictFrame DEF Pass
  <2>5. Judged'
    <3>1. ~Blocked' /\ Verdict # "block"
      BY DEF Blocked, Pass, Stages
    <3> QED
      BY <2>4, <3>1 DEF Judged
  <2> QED
    BY <2>2, <2>3, <2>5
<1>5. BodyIntact'
  BY DEF TypeOK, Stages, Body, Inside, BodyIntact, MaxBodyInspectBytes, Pass, engine, exchange
<1>6. ResponseIntact'
  BY DEF TypeOK, Stages, ResponseIntact, MaxRequestBodyBytes, Pass, engine, exchange
<1> QED
  BY <1>1, <1>2, <1>3, <1>4, <1>5, <1>6


\* Stages after the WAF.
LEMMA DenyStep == IInv /\ Deny => IInv'
<1> SUFFICES ASSUME IInv, Deny PROVE IInv'
  OBVIOUS
<1> USE Values DEF IInv
<1>1. TypeOK'
  BY DEF TypeOK, Stages, Deny, Finish, engine, exchange, Answers
<1>2. Stages'
  BY DEF TypeOK, Stages, Deny, Finish, engine, exchange
<1>3. Body'
  BY DEF TypeOK, Stages, Body, Inside, MaxBodyInspectBytes, Limit, Deny, Finish, 
     engine, exchange
<1>4. Shown' /\ Skipped' /\ Judged'
  <2>1. PastWAF
    BY DEF PastWAF, Deny
  <2>2. UNCHANGED WAFView /\ ~Blocked' /\ pc' # "inspect"
    BY DEF WAFView, Blocked, TypeOK, Stages, Deny, Finish, engine, exchange
  <2> QED
    BY <2>1, <2>2, WAFKept
<1>5. BodyIntact'
  BY DEF TypeOK, Stages, Body, Inside, BodyIntact, MaxBodyInspectBytes, Deny, Finish,
     engine, exchange
<1>6. ResponseIntact'
  BY DEF TypeOK, Stages, ResponseIntact, MaxRequestBodyBytes, Deny, Finish, engine,
     exchange
<1> QED
  BY <1>1, <1>2, <1>3, <1>4, <1>5, <1>6


\* Stages after the WAF.
LEMMA AllowStep == IInv /\ Allow => IInv'
<1> SUFFICES ASSUME IInv, Allow PROVE IInv'
  OBVIOUS
<1> USE Values DEF IInv
<1>1. TypeOK'
  BY DEF TypeOK, Stages, Allow, engine, exchange, Answers
<1>2. Stages'
  BY DEF TypeOK, Stages, Allow, engine, exchange
<1>3. Body'
  BY DEF TypeOK, Stages, Body, Inside, MaxBodyInspectBytes, Limit, Allow, engine, exchange
<1>4. Shown' /\ Skipped' /\ Judged'
  <2>1. PastWAF
    BY DEF PastWAF, Allow
  <2>2. UNCHANGED WAFView /\ ~Blocked' /\ pc' # "inspect"
    BY DEF WAFView, Blocked, TypeOK, Stages, Allow, engine, exchange
  <2> QED
    BY <2>1, <2>2, WAFKept
<1>5. BodyIntact'
  BY DEF TypeOK, Stages, Body, Inside, BodyIntact, MaxBodyInspectBytes, Allow, engine, exchange
<1>6. ResponseIntact'
  BY DEF TypeOK, Stages, ResponseIntact, MaxRequestBodyBytes, Allow, engine, exchange
<1> QED
  BY <1>1, <1>2, <1>3, <1>4, <1>5, <1>6


\* Stages after the WAF.
LEMMA HitStep == IInv /\ Hit => IInv'
<1> SUFFICES ASSUME IInv, Hit PROVE IInv'
  OBVIOUS
<1> USE Values DEF IInv
<1>1. TypeOK'
  BY DEF TypeOK, Stages, Hit, Finish, engine, exchange, Answers
<1>2. Stages'
  BY DEF TypeOK, Stages, Hit, Finish, engine, exchange
<1>3. Body'
  BY DEF TypeOK, Stages, Body, Inside, MaxBodyInspectBytes, Limit, Hit, Finish, 
     engine, exchange
<1>4. Shown' /\ Skipped' /\ Judged'
  <2>1. PastWAF
    BY DEF PastWAF, Hit
  <2>2. UNCHANGED WAFView /\ ~Blocked' /\ pc' # "inspect"
    BY DEF WAFView, Blocked, TypeOK, Stages, Hit, Finish, engine, exchange
  <2> QED
    BY <2>1, <2>2, WAFKept
<1>5. BodyIntact'
  BY DEF TypeOK, Stages, Body, Inside, BodyIntact, MaxBodyInspectBytes, Hit, Finish,
     engine, exchange
<1>6. ResponseIntact'
  BY DEF TypeOK, Stages, ResponseIntact, MaxRequestBodyBytes, Hit, Finish, engine,
     exchange
<1> QED
  BY <1>1, <1>2, <1>3, <1>4, <1>5, <1>6


\* Stages after the WAF.
LEMMA MissStep == IInv /\ Miss => IInv'
<1> SUFFICES ASSUME IInv, Miss PROVE IInv'
  OBVIOUS
<1> USE Values DEF IInv
<1>1. TypeOK'
  BY DEF TypeOK, Stages, Miss, engine, exchange, Answers
<1>2. Stages'
  BY DEF TypeOK, Stages, Miss, engine, exchange
<1>3. Body'
  BY DEF TypeOK, Stages, Body, Inside, MaxBodyInspectBytes, Limit, Miss, engine, exchange
<1>4. Shown' /\ Skipped' /\ Judged'
  <2>1. PastWAF
    BY DEF PastWAF, Miss
  <2>2. UNCHANGED WAFView /\ ~Blocked' /\ pc' # "inspect"
    BY DEF WAFView, Blocked, TypeOK, Stages, Miss, engine, exchange
  <2> QED
    BY <2>1, <2>2, WAFKept
<1>5. BodyIntact'
  BY DEF TypeOK, Stages, Body, Inside, BodyIntact, MaxBodyInspectBytes, Miss, engine, exchange
<1>6. ResponseIntact'
  BY DEF TypeOK, Stages, ResponseIntact, MaxRequestBodyBytes, Miss, engine, exchange
<1> QED
  BY <1>1, <1>2, <1>3, <1>4, <1>5, <1>6


\* A body that was cut goes out only without a length.
LEMMA ForwardStep == IInv /\ Forward => IInv'
<1> SUFFICES ASSUME IInv, Forward PROVE IInv'
  OBVIOUS
<1> USE Values DEF IInv
<1>1. TypeOK'
  BY DEF TypeOK, Stages, Forward, engine, exchange, TooShort, Answers
<1>2. Stages'
  BY DEF TypeOK, Stages, Forward, engine, exchange, TooShort
<1>3. Body'
  BY DEF TypeOK, Stages, Body, Inside, MaxBodyInspectBytes, Limit, Forward, engine,
     exchange, TooShort
<1>4. Shown' /\ Skipped' /\ Judged'
  <2>1. PastWAF
    BY DEF PastWAF, Forward
  <2>2. UNCHANGED WAFView /\ ~Blocked' /\ pc' # "inspect"
    BY DEF WAFView, Blocked, TypeOK, Stages, Forward, engine, exchange, TooShort
  <2> QED
    BY <2>1, <2>2, WAFKept
<1>5. BodyIntact'
  <2> DEFINE n == MaxBodyInspectBytes + 1
  <2>1. /\ request \in Requests /\ request.body \in Seq(STRING)
        /\ MaxBodyInspectBytes \in Int
        /\ MaxBodyInspectBytes' = MaxBodyInspectBytes
        /\ route \in {"fetchFromOrigin", "proxyToOrigin"}
    BY DEF TypeOK, Stages, Forward, engine, SecurityConfig, MaxBodyInspectBytes
  <2>2. received' = body /\ request' = request /\ route' = route
    BY DEF Forward
  <2>3. CASE body = request.body
    BY <2>2, <2>3 DEF BodyIntact
  <2>4. CASE body # request.body
    <3>1. n \in Nat /\ body = Limit(request.body, n)
      BY <2>1, <2>4 DEF Body, Inside, Forward
    <3>2. n < Len(request.body)
      BY <2>4, <3>1 DEF Limit
    <3>3. Len(body) < Len(request.body)
      <4>1. body = SubSeq(request.body, 1, n)
        BY <3>1, <3>2 DEF Limit
      <4> QED
        BY <2>1, <3>1, <3>2, <4>1
    <3>4. request.contentLength = "unknown" \/ route = "fetchFromOrigin"
      <4>1. CASE request.contentLength = "zero"
        BY <2>1, <3>1, <3>2, <4>1
      <4>2. CASE request.contentLength # "zero"
        BY <2>1, <3>3, <4>2 DEF Forward, TooShort
      <4> QED
        BY <4>1, <4>2
    <3> QED
      BY <2>1, <2>2, <3>2, <3>4 DEF BodyIntact
  <2> QED
    BY <2>3, <2>4
<1>6. ResponseIntact'
  BY DEF TypeOK, Stages, ResponseIntact, MaxRequestBodyBytes, Forward, engine, exchange,
     TooShort
<1> QED
  BY <1>1, <1>2, <1>3, <1>4, <1>5, <1>6


\* Stages after the WAF.
LEMMA ForwardFailsStep == IInv /\ ForwardFails => IInv'
<1> SUFFICES ASSUME IInv, ForwardFails PROVE IInv'
  OBVIOUS
<1> USE Values DEF IInv
<1>1. TypeOK'
  BY DEF TypeOK, Stages, ForwardFails, Finish, engine, exchange, Answers
<1>2. Stages'
  BY DEF TypeOK, Stages, ForwardFails, Finish, engine, exchange
<1>3. Body'
  BY DEF TypeOK, Stages, Body, Inside, MaxBodyInspectBytes, Limit, ForwardFails, Finish,
     engine, exchange
<1>4. Shown' /\ Skipped' /\ Judged'
  <2>1. PastWAF
    BY DEF PastWAF, ForwardFails
  <2>2. UNCHANGED WAFView /\ ~Blocked' /\ pc' # "inspect"
    BY DEF WAFView, Blocked, TypeOK, Stages, ForwardFails, Finish, engine, exchange
  <2> QED
    BY <2>1, <2>2, WAFKept
<1>5. BodyIntact'
  BY DEF TypeOK, Stages, Body, Inside, BodyIntact, MaxBodyInspectBytes, ForwardFails,
     Finish, engine, exchange
<1>6. ResponseIntact'
  BY DEF TypeOK, Stages, ResponseIntact, MaxRequestBodyBytes, ForwardFails, Finish, 
     engine, exchange
<1> QED
  BY <1>1, <1>2, <1>3, <1>4, <1>5, <1>6


\* The response is cut at the limit only.
LEMMA fetchFromOriginStep == IInv /\ fetchFromOrigin => IInv'
<1> SUFFICES ASSUME IInv, fetchFromOrigin PROVE IInv'
  OBVIOUS
<1> USE Values DEF IInv
<1>1. TypeOK'
  BY DEF TypeOK, Stages, fetchFromOrigin, Finish, engine, exchange, LimitLength,
     SecurityConfig, MaxRequestBodyBytes, Answers
<1>2. Stages'
  BY DEF TypeOK, Stages, fetchFromOrigin, Finish, engine, exchange, LimitLength,
     SecurityConfig, MaxRequestBodyBytes
<1>3. Body'
  BY DEF TypeOK, Stages, Body, Inside, MaxBodyInspectBytes, Limit, fetchFromOrigin, Finish,
     engine, exchange, LimitLength, SecurityConfig, MaxRequestBodyBytes
<1>4. Shown' /\ Skipped' /\ Judged'
  <2>1. PastWAF
    BY DEF PastWAF, fetchFromOrigin
  <2>2. UNCHANGED WAFView /\ ~Blocked' /\ pc' # "inspect"
    BY DEF WAFView, Blocked, TypeOK, Stages, fetchFromOrigin, Finish, engine,
       exchange, LimitLength, SecurityConfig, MaxRequestBodyBytes
  <2> QED
    BY <2>1, <2>2, WAFKept
<1>5. BodyIntact'
  BY DEF TypeOK, Stages, Body, Inside, BodyIntact, MaxBodyInspectBytes, fetchFromOrigin,
     Finish, engine, exchange, LimitLength, SecurityConfig, MaxRequestBodyBytes
<1>6. ResponseIntact'
  BY DEF TypeOK, Stages, ResponseIntact, MaxRequestBodyBytes, fetchFromOrigin, Finish,
     engine, exchange, LimitLength, SecurityConfig, MaxRequestBodyBytes
<1> QED
  BY <1>1, <1>2, <1>3, <1>4, <1>5, <1>6


\* The response is copied.
LEMMA proxyToOriginStep == IInv /\ proxyToOrigin => IInv'
<1> SUFFICES ASSUME IInv, proxyToOrigin PROVE IInv'
  OBVIOUS
<1> USE Values DEF IInv
<1>1. TypeOK'
  BY DEF TypeOK, Stages, proxyToOrigin, Finish, engine, exchange, Answers
<1>2. Stages'
  BY DEF TypeOK, Stages, proxyToOrigin, Finish, engine, exchange
<1>3. Body'
  BY DEF TypeOK, Stages, Body, Inside, MaxBodyInspectBytes, Limit, proxyToOrigin, Finish,
     engine, exchange
<1>4. Shown' /\ Skipped' /\ Judged'
  <2>1. PastWAF
    BY DEF PastWAF, proxyToOrigin
  <2>2. UNCHANGED WAFView /\ ~Blocked' /\ pc' # "inspect"
    BY DEF WAFView, Blocked, TypeOK, Stages, proxyToOrigin, Finish, engine, exchange
  <2> QED
    BY <2>1, <2>2, WAFKept
<1>5. BodyIntact'
  BY DEF TypeOK, Stages, Body, Inside, BodyIntact, MaxBodyInspectBytes, proxyToOrigin,
     Finish, engine, exchange
<1>6. ResponseIntact'
  BY DEF TypeOK, Stages, ResponseIntact, MaxRequestBodyBytes, proxyToOrigin, Finish,
     engine, exchange
<1> QED
  BY <1>1, <1>2, <1>3, <1>4, <1>5, <1>6

\* Nothing but the variables matters.
LEMMA StutterStep == IInv /\ UNCHANGED vars => IInv'
<1> SUFFICES ASSUME IInv, UNCHANGED vars PROVE IInv'
  OBVIOUS
<1> USE DEF IInv, vars
<1>1. TypeOK' /\ Stages' /\ Body'
  BY DEF TypeOK, Stages, Body, MaxBodyInspectBytes, Limit
<1>2. BodyIntact' /\ ResponseIntact'
  BY DEF BodyIntact, ResponseIntact, MaxBodyInspectBytes, MaxRequestBodyBytes
<1>3. PastWAF' = PastWAF /\ Blocked' = Blocked /\ pc' = pc
  BY DEF PastWAF, Blocked
<1>4. Shown'
  BY <1>3 DEF Shown, MaxBodyInspectBytes, Limit
<1>5. UNCHANGED WAFView
  BY DEF WAFView
<1>6. Skipped'
  <2>1. security' = security /\ rules' = rules /\ request' = request
            /\ inspected' = inspected /\ at' = at
    OBVIOUS
  <2>2. SUFFICES ASSUME pc = "inspect" \/ PastWAF \/ Blocked
                 PROVE  \A j \in 1..(at - 1) : j \in 1..Len(rules) =>
                            ~Decides(j, request, inspected)'
    BY <1>3, <2>1 DEF Skipped
  <2>3. \A j \in 1..(at - 1) : j \in 1..Len(rules) => ~Decides(j, request, inspected)
    BY <2>2 DEF Skipped
  <2> QED
    BY <2>1, <2>3, DecidesFrame
<1>7. Judged'
  <2>1. Unique' = Unique /\ Code(rules[at])' = Code(rules[at]) /\ answer' = answer
    BY DEF Unique, Code
  <2>2. (Decided' <=> Decided) /\ Verdict' = Verdict
    BY <1>5, VerdictFrame
  <2> QED
    BY <1>3, <2>1, <2>2 DEF Judged
<1> QED
  BY <1>1, <1>2, <1>4, <1>6, <1>7

\* IInv is an inductive invariant of ServeHTTP.
THEOREM Inductive == Spec => []IInv
<1>1. IInv /\ [Next]_vars => IInv'
  BY StutterStep, NewEngineStep, ArriveStep, BuiltinStep, SkipBodyStep,
     ReadBodyForInspectionStep, ReadBodyFailsStep, ReadBodyPanicsStep, NextRuleStep,
     BlockStep, PassStep, DenyStep, AllowStep, HitStep, MissStep, ForwardStep,
     ForwardFailsStep, fetchFromOriginStep, proxyToOriginStep DEF Next, ServeHTTP
<1> QED
  BY <1>1, InitHolds, PTL DEF Spec

\* The variables of the pipeline keep their types; no length is negative.
THEOREM TypeCorrect == Spec => []TypeOK
<1>1. IInv => TypeOK
  BY DEF IInv
<1> QED
  BY <1>1, Inductive, PTL

(***************************************************************************)
(* The inspection of the body does not change what the origin gets, except *)
(* for a body over the limit that is sent on without a length.             *)
(***************************************************************************)
THEOREM OriginGetsBody == Spec => []BodyIntact
<1>1. IInv => BodyIntact
  BY DEF IInv
<1> QED
  BY <1>1, Inductive, PTL

\* Only fetchFromOrigin, and only above its limit, cuts a response.
THEOREM ClientGetsResponse == Spec => []ResponseIntact
<1>1. IInv => ResponseIntact
  BY DEF IInv
<1> QED
  BY <1>1, Inductive, PTL

\* For rules the loop has not passed over, what the WAF saw is what Matches says.
LEMMA MatchesIsDecides ==
    ASSUME Shown, pc = "inspect" \/ PastWAF \/ Blocked, NEW i, rules[i].action \in Actions
    PROVE  Matches(i) <=> Decides(i, request, inspected)
  BY DEF Shown, Matches, Decides

(***************************************************************************)
(* In mode enforce a matching block rule stops the request unless an       *)
(* earlier rule with another action matches, whatever the list of rules.   *)
(***************************************************************************)
THEOREM BlockRulesAreReached == Spec => []BlocksUnlessOvertaken
<1>1. IInv => BlocksUnlessOvertaken
  <2> SUFFICES ASSUME IInv, PastWAF, mode = "enforce", NEW i \in 1..Len(rules),
                      rules[i].action = "block", Matches(i)
               PROVE  \E j \in 1..(i - 1) : Matches(j) /\ rules[j].action \in Actions \ {"block"}
    BY DEF BlocksUnlessOvertaken
  <2>1. Decides(i, request, inspected)
    BY MatchesIsDecides DEF IInv, Actions
  <2>2. at \in Nat \ {0} /\ at <= i /\ at \in 1..Len(rules)
    BY <2>1 DEF IInv, Skipped, TypeOK
  <2>3. Decides(at, request, inspected) /\ rules[at].action # "block"
    BY <2>2 DEF IInv, Judged, Decided, Verdict, Effective
  <2>4. at \in 1..(i - 1) /\ rules[at].action \in Actions \ {"block"}
    BY <2>2, <2>3 DEF Decides
  <2>5. Matches(at)
    BY <2>3, <2>4, MatchesIsDecides DEF IInv
  <2> QED
    BY <2>4, <2>5
<1> QED
  BY <1>1, Inductive, PTL

\* A request is blocked only in mode enforce, by a block rule that it matches.
THEOREM BlockedForCause == Spec => []BlocksForCause
<1>1. IInv => BlocksForCause
  <2> SUFFICES ASSUME IInv, Blocked
               PROVE  mode = "enforce" /\ \E i \in 1..Len(rules) :
                          rules[i].action = "block" /\ Matches(i)
    BY DEF BlocksForCause, Blocked
  <2>1. Decided /\ Verdict = "block" /\ at \in Nat \ {0}
    BY DEF IInv, Judged, TypeOK
  <2>2. at \in 1..Len(rules) /\ rules[at].action = "block" /\ mode = "enforce"
    BY <2>1 DEF Verdict, Effective, IInv, TypeOK
  <2>3. Matches(at)
    BY <2>1, <2>2, MatchesIsDecides DEF Decided, IInv, Actions
  <2> QED
    BY <2>2, <2>3
<1> QED
  BY <1>1, Inductive, PTL

\* With unique identifiers the status is that of a block rule that matches.
THEOREM StatusOfItsRule == Spec => []BlockHasItsStatus
<1>1. IInv => BlockHasItsStatus
  <2> SUFFICES ASSUME IInv, Blocked, Unique
               PROVE  \E i \in 1..Len(rules) :
                          rules[i].action = "block" /\ Matches(i) /\ answer.code = Code(rules[i])
    BY DEF BlockHasItsStatus, Blocked, Unique
  <2>1. Decided /\ Verdict = "block" /\ answer.code = Code(rules[at]) /\ at \in Nat \ {0}
    BY DEF IInv, Judged, TypeOK
  <2>2. at \in 1..Len(rules) /\ rules[at].action = "block"
    BY <2>1 DEF Verdict, Effective, IInv, TypeOK
  <2>3. Matches(at)
    BY <2>1, <2>2, MatchesIsDecides DEF Decided, IInv, Actions
  <2> QED
    BY <2>1, <2>2, <2>3
<1> QED
  BY <1>1, Inductive, PTL
=============================================================================
