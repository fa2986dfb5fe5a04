--------------------------- MODULE ExchangeProofs ---------------------------
(***************************************************************************)
(* Proofs about Exchange, for every set of codes, every limit and any      *)
(* header a client may send.                                               *)
(***************************************************************************)
EXTENDS Exchange, SequenceTheorems, TLAPS

Authors == {"own", "origin", "error"}
Values == {"own", "origin"}
Conn == [info : Nat, status : Nat, length : Nat \cup {Undeclared},
         ids : Seq(Values), body : Seq(Authors), complete : BOOLEAN]

-----------------------------------------------------------------------------
(* The inductive invariant.                                                *)

\* AccessLog has come to its end.
Logged == path # "mux" /\ (pc = "done" \/ (pc \in {"return", "panic"} /\ depth < 2))

\* Who runs, and what log and metrics have of it.  A panic is on its way to
\* Recovery, or is that of AccessLog and past it.
Nested ==
    /\ pc \in {"handle", "await", "copy"} => depth = 3
    /\ pc \in {"mux", "done"} => depth = 0
    /\ pc = "panic" => depth = 3 \/ (depth < 2 /\ path = "bytes")
    /\ path = "mux" => pc \in {"mux", "return", "done"} /\ depth = 0
    /\ log = IF Logged THEN <<sw.status>> ELSE <<>>
    /\ counted = IF Logged /\ path = "text" THEN 1 ELSE 0

\* What statusWriter has for the status, and what the client gets.
Told ==
    \/ conn.status = sw.status
    \/ Informational(sw.status) /\ conn.info > 0
    \/ ~Valid(sw.status) /\ conn.status \in {0, 500}
    \/ pc = "done" /\ conn.status = 0

\* statusWriter has a status from the first WriteHeader on.
Remembered ==
    /\ pc \in {"mux", "call", "handle"} => ~sw.written /\ conn.info = 0
    /\ pc \in {"mux", "call", "handle", "await"} => conn.status = 0
    /\ pc \in {"copy", "return"} => conn.status # 0
    /\ pc = "panic" /\ depth < 2 => conn.status # 0
    /\ pc = "done" /\ conn.status = 0 => path = "bytes"
    /\ path # "mux" /\ (pc = "done" \/ conn.status # 0) => sw.written
    /\ path # "mux" /\ sw.written => Told
    /\ pc = "await" /\ sw.written => Informational(sw.status) /\ conn.info > 0

ErrorLast == conn.body # <<>> /\ conn.body[Len(conn.body)] = "error"

CutEntry == origin.via = "entry" /\ origin.units > MaxRequestBody /\ conn.length = Undeclared

\* The client will notice that something is missing.
Short == conn.status \notin Bodiless /\ conn.length \notin {Undeclared, Len(conn.body)}

\* A body is not longer than declared.
Fits == conn.length = Undeclared \/ Len(conn.body) <= conn.length

\* How far the body has come, and how it looks when the handler returns.
Copied ==
    /\ pc \in {"mux", "call", "handle", "await"} =>
          conn.body = <<>> /\ conn.length = Undeclared /\ origin.units = 0
    /\ pc = "copy" =>
          /\ origin.left <= origin.units
          /\ IF conn.status \in Bodiless THEN origin.units = 0
             ELSE conn.length \in {Undeclared, origin.units}
          /\ conn.body = [i \in 1 .. origin.units - origin.left |-> "origin"]
    /\ pc = "panic" /\ depth = 3 =>
          conn.status \notin Bodiless /\ (conn.length = Undeclared \/ Len(conn.body) < conn.length)
    /\ pc = "return" \/ (pc = "panic" /\ depth < 2) =>
          Fits /\ (Whole \/ ErrorLast \/ CutEntry \/ Short)
    /\ pc # "done" => ~conn.complete
    /\ CutIsMarked

OwnFirst(values) == values # <<>> /\ values[1] = "own"

\* The identifier is there from RequestID on, and goes out with the header.
Identified ==
    path # "mux" /\ conn.info = 0 =>
        /\ depth > 0 \/ pc \notin {"mux", "call"} => OwnFirst(ids)
        /\ conn.status # 0 => OwnFirst(conn.ids)

IInv == TypeOK /\ Nested /\ Remembered /\ Copied /\ Identified /\ NoSpoofedAddress

-----------------------------------------------------------------------------
(* What the operators do.                                                  *)

LEMMA ChainFacts ==
    /\ Len(Chain) = 3
    /\ Chain[1] = "RequestID" /\ Chain[2] = "AccessLog" /\ Chain[3] = "Recovery"
BY DEF Chain

\* One more unit at the end of a body.
LEMMA OneMore ==
    ASSUME NEW S, NEW s \in Seq(S), NEW x \in S
    PROVE  /\ s \o <<x>> \in Seq(S)
           /\ Len(s \o <<x>>) = Len(s) + 1
           /\ (s \o <<x>>)[Len(s) + 1] = x
           /\ \A i \in 1 .. Len(s) : (s \o <<x>>)[i] = s[i]
           /\ s \o <<x>> # <<>>
<1> DEFINE c == <<x>>
<1>1. c \in Seq(S) /\ Len(c) = 1 /\ c[1] = x
  OBVIOUS
<1> HIDE DEF c
<1>2. /\ s \o c \in Seq(S)
      /\ Len(s \o c) = Len(s) + Len(c)
      /\ \A i \in 1 .. Len(s) + Len(c) :
            (s \o c)[i] = IF i <= Len(s) THEN s[i] ELSE c[i - Len(s)]
  BY <1>1, ConcatProperties, Zenon
<1>3. Len(s) \in Nat
  BY LenProperties
<1>4. Len(s \o c) = Len(s) + 1 /\ s \o c # <<>>
  BY <1>1, <1>2, <1>3
<1>5. (s \o c)[Len(s) + 1] = x
  BY <1>1, <1>2, <1>3
<1>6. \A i \in 1 .. Len(s) : (s \o c)[i] = s[i]
  BY <1>1, <1>2, <1>3
<1>7. QED
  BY <1>2, <1>4, <1>5, <1>6 DEF c

\* Only a final status, and only the first one, fixes the header.
LEMMA SendHeaderEffect ==
    ASSUME NEW c \in Conn, NEW code \in Nat, NEW length \in Nat \cup {Undeclared},
           NEW values \in Seq(Values)
    PROVE  LET d == SendHeader(c, code, length, values)
               first == ~Informational(code) /\ c.status = 0
           IN /\ d \in Conn
              /\ d.info = IF Informational(code) THEN c.info + 1 ELSE c.info
              /\ d.status = IF first THEN code ELSE c.status
              /\ d.length = IF first THEN length ELSE c.length
              /\ d.ids = IF first THEN values ELSE c.ids
              /\ d.body = c.body /\ d.complete = c.complete
<1>1. CASE Informational(code)
  BY <1>1, SMTT(30) DEF SendHeader, Conn
<1>2. CASE ~Informational(code) /\ c.status = 0
  BY <1>2 DEF SendHeader, Conn
<1>3. CASE ~Informational(code) /\ c.status # 0
  BY <1>3 DEF SendHeader, Conn
<1>4. QED
  BY <1>1, <1>2, <1>3

\* ... the case of a handler that has not sent one yet.
LEMMA FirstHeader ==
    ASSUME NEW c \in Conn, NEW code \in Nat, NEW length \in Nat \cup {Undeclared},
           NEW values \in Seq(Values), c.status = 0, ~Informational(code)
    PROVE  LET d == SendHeader(c, code, length, values)
           IN /\ d \in Conn /\ d.info = c.info /\ d.status = code
              /\ d.length = length /\ d.ids = values
              /\ d.body = c.body /\ d.complete = c.complete
BY SendHeaderEffect, ZenonT(40)

\* A body grows by what fits, and nothing else changes.
LEMMA SendBodyEffect ==
    ASSUME NEW c \in Conn, NEW units \in Seq(Authors)
    PROVE  LET d == SendBody(c, units)
               fits == /\ c.status \notin Bodiless
                       /\ c.length = Undeclared \/ Len(c.body \o units) <= c.length
           IN /\ d \in Conn
              /\ d.info = c.info /\ d.status = c.status /\ d.length = c.length
              /\ d.ids = c.ids /\ d.complete = c.complete
              /\ d.body = IF fits THEN c.body \o units ELSE c.body
<1>1. c.body \o units \in Seq(Authors)
  BY DEF Conn
<1>2. QED
  BY <1>1 DEF SendBody, Conn

\* statusWriter keeps the first status.
LEMMA WriteHeaderEffect ==
    ASSUME TypeOK, NEW code \in Nat, WriteHeader(code)
    PROVE  /\ sw' \in [status : Nat, written : BOOLEAN] /\ sw'.written
           /\ sw'.status = IF sw.written THEN sw.status ELSE code
<1>1. sw \in [status : Nat, written : BOOLEAN]
  BY DEF TypeOK
<1>2. CASE sw.written
  BY <1>1, <1>2 DEF WriteHeader
<1>3. CASE ~sw.written
  BY <1>1, <1>3 DEF WriteHeader
<1>4. QED
  BY <1>2, <1>3

\* A text of one unit still fits in, given the body so far.
Room(c) == c.status \notin Bodiless /\ (c.length = Undeclared \/ Len(conn.body) < c.length)

(***************************************************************************)
(* An answer of the proxy's own has the status it asks for, 200 in place   *)
(* of an informational one, unless the header is already sent; with an     *)
(* invalid one there is none, but statusWriter remembers it.               *)
(***************************************************************************)
LEMMA AnswerEffect ==
    ASSUME TypeOK, NEW code \in Nat, NEW a \in Authors, Answer(code, <<a>>)
    PROVE  /\ sw' \in [status : Nat, written : BOOLEAN] /\ sw'.written
           /\ sw'.status = IF sw.written THEN sw.status ELSE code
           /\ conn' \in Conn
           /\ Valid(code) =>
                /\ pc' = "return" /\ conn'.complete = conn.complete
                /\ conn'.info = IF Informational(code) THEN conn.info + 1 ELSE conn.info
                /\ conn'.status = IF conn.status # 0 THEN conn.status
                                  ELSE IF Informational(code) THEN 200 ELSE code
                /\ conn'.length = IF conn.status # 0 THEN conn.length ELSE Undeclared
                /\ conn'.ids = IF conn.status # 0 THEN conn.ids ELSE ids
                /\ conn'.body = IF Room(conn') THEN conn.body \o <<a>> ELSE conn.body
           /\ ~Valid(code) => conn' = conn /\ pc' = "panic"
<1> DEFINE first == SendHeader(conn, code, Undeclared, ids)
           second == SendHeader(first, 200, Undeclared, ids)
           third == SendBody(second, <<a>>)
<1>1. conn \in Conn /\ ids \in Seq(Values) /\ Undeclared \in Nat \cup {Undeclared}
  BY DEF TypeOK, Conn, Values, Authors
<1>2. WriteHeader(code)
  BY DEF Answer
<1>3. /\ sw' \in [status : Nat, written : BOOLEAN] /\ sw'.written
      /\ sw'.status = IF sw.written THEN sw.status ELSE code
  BY <1>2, WriteHeaderEffect
<1>4. CASE Valid(code)
  <2>1. conn' = third /\ pc' = "return"
    BY <1>4 DEF Answer
  <2>2. /\ first \in Conn
        /\ first.info = IF Informational(code) THEN conn.info + 1 ELSE conn.info
        /\ first.status = IF ~Informational(code) /\ conn.status = 0 THEN code ELSE conn.status
        /\ first.length = IF ~Informational(code) /\ conn.status = 0 THEN Undeclared ELSE conn.length
        /\ first.ids = IF ~Informational(code) /\ conn.status = 0 THEN ids ELSE conn.ids
        /\ first.body = conn.body /\ first.complete = conn.complete
    BY <1>1, SendHeaderEffect
  <2> HIDE DEF first
  <2>3. ~Informational(200) /\ 200 \in Nat
    BY DEF Informational
  <2>4. /\ second \in Conn /\ second.info = first.info
        /\ second.status = IF first.status = 0 THEN 200 ELSE first.status
        /\ second.length = IF first.status = 0 THEN Undeclared ELSE first.length
        /\ second.ids = IF first.status = 0 THEN ids ELSE first.ids
        /\ second.body = first.body /\ second.complete = first.complete
    <3> DEFINE ok == 200
    <3>1. ok \in Nat /\ first \in Conn /\ ~Informational(ok) /\ second = SendHeader(first, ok, Undeclared, ids)
      BY <2>2, <2>3
    <3>2. ok = 200
      OBVIOUS
    <3> HIDE DEF ok, second
    <3>3. /\ second \in Conn
          /\ second.info = IF Informational(ok) THEN first.info + 1 ELSE first.info
          /\ second.status = IF ~Informational(ok) /\ first.status = 0 THEN ok ELSE first.status
          /\ second.length = IF ~Informational(ok) /\ first.status = 0 THEN Undeclared ELSE first.length
          /\ second.ids = IF ~Informational(ok) /\ first.status = 0 THEN ids ELSE first.ids
          /\ second.body = first.body /\ second.complete = first.complete
      BY <3>1, <1>1, SendHeaderEffect, ZenonT(40)
    <3>4. QED
      BY <3>1, <3>2, <3>3
  <2> HIDE DEF second
  <2>5. <<a>> \in Seq(Authors)
    OBVIOUS
  <2>6. /\ third \in Conn /\ third.info = second.info /\ third.status = second.status
        /\ third.length = second.length /\ third.ids = second.ids
        /\ third.complete = second.complete
        /\ third.body = IF /\ second.status \notin Bodiless
                           /\ second.length = Undeclared \/ Len(second.body \o <<a>>) <= second.length
                        THEN second.body \o <<a>> ELSE second.body
    BY <2>4, <2>5, SendBodyEffect
  <2> HIDE DEF third
  <2>7. Len(second.body \o <<a>>) = Len(second.body) + 1 /\ Len(second.body) \in Nat
    BY <2>4, OneMore, LenProperties DEF Conn
  <2>8. code # 0
    BY <1>4 DEF Valid
  <2>9. second.length \in Nat \cup {Undeclared}
    BY <2>4 DEF Conn
  <2>10. conn'.body = IF Room(conn') THEN conn.body \o <<a>> ELSE conn.body
    <3> USE DEF Room
    <3>0. CASE second.status \in Bodiless
      BY <3>0, <2>1, <2>2, <2>4, <2>6
    <3>1. CASE second.status \notin Bodiless /\ second.length = Undeclared
      BY <3>1, <2>1, <2>2, <2>4, <2>6
    <3>2. CASE second.status \notin Bodiless /\ second.length # Undeclared
      <4>1. second.length \in Nat
        BY <3>2, <2>9
      <4>2. Len(second.body) + 1 <= second.length <=> Len(second.body) < second.length
        BY <4>1, <2>7
      <4>3. QED
        BY <3>2, <4>2, <2>1, <2>2, <2>4, <2>6, <2>7
    <3>3. QED
      BY <3>0, <3>1, <3>2
  <2>11. conn'.status = IF conn.status # 0 THEN conn.status
                        ELSE IF Informational(code) THEN 200 ELSE code
    BY <2>1, <2>2, <2>4, <2>6, <2>8
  <2>12. /\ conn'.length = IF conn.status # 0 THEN conn.length ELSE Undeclared
         /\ conn'.ids = IF conn.status # 0 THEN conn.ids ELSE ids
    BY <2>1, <2>2, <2>4, <2>6
  <2>13. QED
    BY <1>3, <1>4, <2>1, <2>2, <2>4, <2>6, <2>10, <2>11, <2>12
<1>5. CASE ~Valid(code)
  BY <1>1, <1>3, <1>5 DEF Answer
<1>6. QED
  BY <1>4, <1>5

-----------------------------------------------------------------------------
(* The actions that write, in terms of what is on the wire.                *)

\* The code of a refusal may be any number an operator wrote.
LEMMA RefuseEffect ==
    ASSUME IInv, Refuse
    PROVE  \E code \in Nat : Answer(code, <<"own">>)
<1>1. {200, 400, 429} \cup RuleCodes \subseteq Nat
  BY CodesAssumption
<1>2. QED
  BY <1>1 DEF Refuse

\* A panic of the handler meets Recovery at once: it is the innermost of the chain.
LEMMA RecoveryEffect ==
    ASSUME IInv, Recovery, depth = 3
    PROVE  /\ depth = 3 /\ depth' = 3 /\ pc = "panic" /\ pc' = "return"
           /\ UNCHANGED <<path, trust, xff, ids, origin, log, counted>>
           /\ conn' \in Conn /\ sw' \in [status : Nat, written : BOOLEAN] /\ sw'.written
           /\ sw'.status = IF sw.written THEN sw.status ELSE 500
           /\ conn'.complete = conn.complete /\ conn'.info = conn.info
           /\ conn'.status = IF conn.status # 0 THEN conn.status ELSE 500
           /\ conn'.ids = IF conn.status # 0 THEN conn.ids ELSE ids
           /\ conn'.length = IF conn.status # 0 THEN conn.length ELSE Undeclared
           /\ conn'.body = conn.body \o <<"error">>
<1>1. /\ pc = "panic" /\ depth = 3 /\ Chain[depth] = "Recovery" /\ TypeOK
      /\ UNCHANGED <<path, trust, xff, ids, origin, log, counted>>
  BY ChainFacts DEF IInv, Recovery
<1>2. Answer(500, <<"error">>) /\ depth' = depth
  BY <1>1 DEF Recovery
<1> DEFINE code == 500
<1>3. /\ code \in Nat /\ Valid(code) /\ ~Informational(code) /\ code \notin Bodiless
      /\ "error" \in Authors
  BY DEF Valid, Informational, Bodiless, Authors
<1>4. code = 500 /\ Answer(code, <<"error">>)
  BY <1>2
<1> HIDE DEF code
<1>5. /\ sw' \in [status : Nat, written : BOOLEAN] /\ sw'.written
      /\ sw'.status = IF sw.written THEN sw.status ELSE code
      /\ conn' \in Conn
      /\ pc' = "return" /\ conn'.complete = conn.complete
      /\ conn'.info = conn.info
      /\ conn'.status = IF conn.status # 0 THEN conn.status ELSE code
      /\ conn'.length = IF conn.status # 0 THEN conn.length ELSE Undeclared
      /\ conn'.ids = IF conn.status # 0 THEN conn.ids ELSE ids
      /\ conn'.body = IF Room(conn') THEN conn.body \o <<"error">> ELSE conn.body
  BY <1>1, <1>3, <1>4, AnswerEffect
<1>6. /\ conn.status \notin Bodiless
      /\ conn.length = Undeclared \/ Len(conn.body) < conn.length
  BY <1>1 DEF IInv, Copied
<1>7. Room(conn')
  <2>1. CASE conn.status = 0
    BY <1>3, <1>5, <2>1 DEF Room
  <2>2. CASE conn.status # 0
    BY <1>5, <1>6, <2>2 DEF Room
  <2>3. QED
    BY <2>1, <2>2
<1>8. QED
  BY <1>1, <1>2, <1>4, <1>5, <1>7

\* A panic of AccessLog only leaves the chain.
LEMMA UnwindEffect ==
    ASSUME IInv, Recovery, depth # 3
    PROVE  /\ depth = 1 /\ depth' = 0 /\ path = "bytes" /\ pc = "panic"
           /\ UNCHANGED <<path, pc, trust, xff, ids, sw, conn, origin, log, counted>>
<1>1. pc = "panic" /\ depth > 0 /\ depth \in 0 .. 3 /\ depth < 2 /\ path = "bytes"
  BY ChainFacts DEF IInv, TypeOK, Nested, Recovery
<1>2. depth = 1 /\ Chain[depth] # "Recovery"
  BY <1>1, ChainFacts
<1>3. QED
  BY <1>1, <1>2 DEF Recovery

\* What an origin sends is a final status.
LEMMA OriginCodesFacts ==
    ASSUME NEW code \in OriginCodes \cup {101}
    PROVE  code \in Nat /\ ~Informational(code) /\ code # 0
BY CodesAssumption DEF Informational

\* An entry goes out with its whole body, or with what was kept of it.
LEMMA EntryEffect ==
    ASSUME IInv, writeEntry
    PROVE  \E code \in OriginCodes \cup {101}, units \in Nat, length \in Nat \cup {Undeclared} :
              /\ pc = "handle" /\ depth = 3 /\ pc' = "return"
              /\ ids' \in Seq(Values) /\ (OwnFirst(ids) => OwnFirst(ids'))
              /\ sw' = [status |-> code, written |-> TRUE]
              /\ conn' \in Conn /\ conn'.info = conn.info /\ conn'.complete = conn.complete
              /\ conn'.status = code /\ conn'.ids = ids' /\ conn'.length = length
              /\ IF code \in Bodiless THEN units = 0 ELSE length \in {units, Undeclared}
              /\ conn'.body = [i \in 1 .. Kept(units) |-> "origin"]
              /\ origin' = [via |-> "entry", units |-> units, left |-> 0]
              /\ UNCHANGED <<path, depth, trust, xff, log, counted>>
<1>1. PICK code \in OriginCodes \cup {101}, stored \in {<<>>, <<"origin">>},
           size \in 0 .. MaxUnits, declared \in BOOLEAN :
          /\ ids' = ids \o stored
          /\ WriteHeader(code)
          /\ conn' = SendBody(SendHeader(conn, code, IF declared THEN size ELSE Undeclared, ids'),
                              [i \in 1 .. Kept(Units(code, size)) |-> "origin"])
          /\ origin' = [via |-> "entry", units |-> Units(code, size), left |-> 0]
  BY DEF writeEntry
<1> DEFINE units == Units(code, size)
           length == IF declared THEN size ELSE Undeclared
           body == [i \in 1 .. Kept(units) |-> "origin"]
           sent == SendHeader(conn, code, length, ids')
<1>2. /\ TypeOK /\ pc = "handle" /\ depth = 3 /\ pc' = "return" /\ ~sw.written
      /\ conn.status = 0 /\ conn.body = <<>> /\ conn \in Conn /\ ids \in Seq(Values)
      /\ UNCHANGED <<path, depth, trust, xff, log, counted>>
  BY DEF IInv, TypeOK, Nested, Remembered, Copied, writeEntry, Conn, Values, Authors
<1>3. /\ code \in Nat /\ ~Informational(code) /\ units \in Nat /\ length \in Nat \cup {Undeclared}
      /\ IF code \in Bodiless THEN units = 0 ELSE length \in {units, Undeclared}
  BY OriginCodesFacts, BoundsAssumption DEF Units
<1> HIDE DEF units
<1>4. sw' = [status |-> code, written |-> TRUE]
  BY <1>1, <1>2 DEF WriteHeader
<1>5. ids' \in Seq(Values) /\ (OwnFirst(ids) => OwnFirst(ids'))
  <2>1. CASE stored = <<>>
    BY <2>1, <1>1, <1>2
  <2>2. CASE stored = <<"origin">>
    <3>1. "origin" \in Values
      BY DEF Values
    <3>2. /\ ids' \in Seq(Values) /\ ids' # <<>>
          /\ \A i \in 1 .. Len(ids) : ids'[i] = ids[i]
      BY <2>2, <3>1, <1>1, <1>2, OneMore
    <3>3. ids # <<>> => Len(ids) \in Nat \ {0}
      BY <1>2, EmptySeq, LenProperties
    <3>4. QED
      BY <3>2, <3>3 DEF OwnFirst
  <2>3. QED
    BY <2>1, <2>2
<1>6. /\ sent \in Conn /\ sent.info = conn.info /\ sent.status = code
      /\ sent.length = length /\ sent.ids = ids'
      /\ sent.body = conn.body /\ sent.complete = conn.complete
  <2> HIDE DEF length
  <2>1. /\ code \in Nat /\ ~Informational(code) /\ length \in Nat \cup {Undeclared}
        /\ conn \in Conn /\ conn.status = 0 /\ ids' \in Seq(Values)
    BY <1>2, <1>3, <1>5
  <2>2. sent = SendHeader(conn, code, length, ids')
    OBVIOUS
  <2> HIDE DEF sent
  <2>3. QED
    BY <2>1, <2>2, FirstHeader
<1>7. Kept(units) \in Nat /\ Kept(units) <= units
  BY <1>3, BoundsAssumption DEF Kept
<1> HIDE DEF sent
<1>8. body \in Seq(Authors) /\ Len(body) = Kept(units) /\ <<>> \o body = body
  <2>1. body \in [1 .. Kept(units) -> Authors]
    BY DEF Authors
  <2>2. body \in Seq(Authors)
    BY <2>1, <1>7, IsASeq
  <2> HIDE DEF body
  <2>3. Len(body) = Kept(units)
    BY <2>1, <2>2, <1>7, LenProperties
  <2>4. QED
    BY <2>2, <2>3
<1>9. code \notin Bodiless => length = Undeclared \/ Len(<<>> \o body) <= length
  <2> HIDE DEF body, length
  <2>1. QED
    BY <1>3, <1>7, <1>8
<1>10. conn' = SendBody(sent, body)
  BY <1>1 DEF sent, units
<1> HIDE DEF body
<1>11. /\ conn' \in Conn /\ conn'.info = sent.info /\ conn'.status = sent.status
       /\ conn'.length = sent.length /\ conn'.ids = sent.ids /\ conn'.complete = sent.complete
       /\ conn'.body = IF /\ sent.status \notin Bodiless
                          /\ sent.length = Undeclared \/ Len(sent.body \o body) <= sent.length
                       THEN sent.body \o body ELSE sent.body
  BY <1>6, <1>8, <1>10, SendBodyEffect
<1>12. conn'.body = body
  <2>1. CASE code \in Bodiless
    <3>1. Len(body) = 0
      BY <1>3, <1>7, <1>8, <2>1
    <3>2. body = <<>>
      BY <1>8, <3>1, EmptySeq
    <3>3. QED
      BY <1>2, <1>6, <1>11, <2>1, <3>2
  <2>2. CASE code \notin Bodiless
    <3> HIDE DEF length
    <3>1. QED
      BY <1>2, <1>6, <1>8, <1>9, <1>11, <2>2
  <2>3. QED
    BY <2>1, <2>2
<1>13. origin' = [via |-> "entry", units |-> units, left |-> 0]
  BY <1>1 DEF units
<1> HIDE DEF length
<1>14. QED
  <2>1. /\ conn' \in Conn /\ conn'.info = conn.info /\ conn'.complete = conn.complete
        /\ conn'.status = code /\ conn'.ids = ids' /\ conn'.length = length
    BY <1>6, <1>11
  <2>2. conn'.body = [i \in 1 .. Kept(units) |-> "origin"]
    BY <1>12 DEF body
  <2>3. units \in Nat /\ length \in Nat \cup {Undeclared}
    BY <1>3
  <2>4. IF code \in Bodiless THEN units = 0 ELSE length \in {units, Undeclared}
    BY <1>3
  <2>5. QED
    BY <1>2, <1>4, <1>5, <1>13, <2>1, <2>2, <2>3, <2>4, ZenonT(40)

\* The reverse proxy sends the header of the origin, and nothing of the body yet.
LEMMA RelayHeaderEffect ==
    ASSUME IInv, RelayHeader
    PROVE  \E code \in OriginCodes, units \in Nat, length \in Nat \cup {Undeclared} :
              /\ pc = "await" /\ depth = 3 /\ pc' = "copy"
              /\ ids' \in Seq(Values) /\ (OwnFirst(ids) => OwnFirst(ids'))
              /\ sw' \in [status : Nat, written : BOOLEAN] /\ sw'.written
              /\ sw'.status = IF sw.written THEN sw.status ELSE code
              /\ conn' \in Conn /\ conn'.info = conn.info /\ conn'.complete = conn.complete
              /\ conn'.status = code /\ conn'.ids = ids' /\ conn'.length = length
              /\ IF code \in Bodiless THEN units = 0 ELSE length \in {units, Undeclared}
              /\ conn'.body = <<>>
              /\ origin' = [via |-> "proxy", units |-> units, left |-> units]
              /\ UNCHANGED <<path, depth, trust, xff, log, counted>>
<1>1. PICK code \in OriginCodes, size \in 0 .. MaxUnits, declared \in BOOLEAN, echoes \in BOOLEAN :
          /\ ids' = IF echoes THEN Append(ids, "origin") ELSE ids
          /\ WriteHeader(code)
          /\ conn' = SendHeader(conn, code, IF declared THEN size ELSE Undeclared, ids')
          /\ origin' = [via |-> "proxy", units |-> Units(code, size), left |-> Units(code, size)]
  BY DEF RelayHeader
<1> DEFINE units == Units(code, size)
           length == IF declared THEN size ELSE Undeclared
<1>2. /\ TypeOK /\ pc = "await" /\ depth = 3 /\ pc' = "copy"
      /\ conn.status = 0 /\ conn.body = <<>> /\ conn \in Conn /\ ids \in Seq(Values)
      /\ UNCHANGED <<path, depth, trust, xff, log, counted>>
  BY DEF IInv, TypeOK, Nested, Remembered, Copied, RelayHeader, Conn, Values, Authors
<1>3. code \in Nat /\ ~Informational(code) /\ units \in Nat /\ length \in Nat \cup {Undeclared}
  BY OriginCodesFacts, BoundsAssumption DEF Units
<1>4. /\ sw' \in [status : Nat, written : BOOLEAN] /\ sw'.written
      /\ sw'.status = IF sw.written THEN sw.status ELSE code
  BY <1>1, <1>2, <1>3, WriteHeaderEffect
<1>5. ids' \in Seq(Values) /\ (OwnFirst(ids) => OwnFirst(ids'))
  <2>1. CASE ~echoes
    BY <2>1, <1>1, <1>2
  <2>2. CASE echoes
    <3>1. "origin" \in Values
      BY DEF Values
    <3>2. /\ ids' \in Seq(Values) /\ ids' # <<>>
          /\ \A i \in 1 .. Len(ids) : ids'[i] = ids[i]
      BY <2>2, <3>1, <1>1, <1>2, AppendProperties
    <3>3. ids # <<>> => Len(ids) \in Nat \ {0}
      BY <1>2, EmptySeq
    <3>4. QED
      BY <3>2, <3>3 DEF OwnFirst
  <2>3. QED
    BY <2>1, <2>2
<1>6. /\ IF code \in Bodiless THEN units = 0 ELSE length \in {units, Undeclared}
      /\ conn' = SendHeader(conn, code, length, ids')
      /\ origin' = [via |-> "proxy", units |-> units, left |-> units]
  BY <1>1 DEF Units
<1> HIDE DEF length, units
<1>7. /\ conn' \in Conn /\ conn'.info = conn.info /\ conn'.status = code
      /\ conn'.length = length /\ conn'.ids = ids'
      /\ conn'.body = conn.body /\ conn'.complete = conn.complete
  <2>1. /\ code \in Nat /\ ~Informational(code) /\ length \in Nat \cup {Undeclared}
        /\ conn \in Conn /\ conn.status = 0 /\ ids' \in Seq(Values)
    BY <1>2, <1>3, <1>5
  <2>2. conn' = SendHeader(conn, code, length, ids')
    BY <1>6
  <2>3. QED
    BY <2>1, <2>2, FirstHeader
<1>8. QED
  BY <1>1, <1>2, <1>3, <1>4, <1>5, <1>6, <1>7

\* An informational response changes the number of them, and what statusWriter
\* takes for the status.
LEMMA Relay1xxEffect ==
    ASSUME IInv, Relay1xx
    PROVE  \E code \in InfoCodes :
              /\ code \in 100 .. 199 /\ pc = "await" /\ depth = 3
              /\ sw' \in [status : Nat, written : BOOLEAN] /\ sw'.written
              /\ sw'.status = IF sw.written THEN sw.status ELSE code
              /\ conn' \in Conn /\ conn'.info = conn.info + 1 /\ conn'.complete = conn.complete
              /\ conn'.status = conn.status /\ conn'.ids = conn.ids
              /\ conn'.length = conn.length /\ conn'.body = conn.body
              /\ ids' = <<>>
              /\ UNCHANGED <<path, pc, depth, trust, xff, origin, log, counted>>
<1>1. PICK code \in InfoCodes :
          WriteHeader(code) /\ conn' = SendHeader(conn, code, Undeclared, ids)
  BY DEF Relay1xx
<1>2. code \in 100 .. 199 /\ code \in Nat /\ Informational(code)
  BY CodesAssumption DEF Informational
<1>3. /\ TypeOK /\ conn \in Conn /\ ids \in Seq(Values) /\ pc = "await" /\ depth = 3
      /\ Undeclared \in Nat \cup {Undeclared}
      /\ ids' = <<>> /\ UNCHANGED <<path, pc, depth, trust, xff, origin, log, counted>>
  BY DEF IInv, TypeOK, Nested, Relay1xx, Conn, Values, Authors
<1>4. /\ sw' \in [status : Nat, written : BOOLEAN] /\ sw'.written
      /\ sw'.status = IF sw.written THEN sw.status ELSE code
  BY <1>1, <1>2, <1>3, WriteHeaderEffect
<1>5. /\ conn' \in Conn /\ conn'.info = conn.info + 1 /\ conn'.complete = conn.complete
      /\ conn'.status = conn.status /\ conn'.ids = conn.ids
      /\ conn'.length = conn.length /\ conn'.body = conn.body
  BY <1>1, <1>2, <1>3, SendHeaderEffect
<1>6. QED
  BY <1>2, <1>3, <1>4, <1>5

\* ErrorHandler answers 502 with its own identifier.
LEMMA ErrorHandlerEffect ==
    ASSUME IInv, ErrorHandler
    PROVE  /\ pc = "await" /\ depth = 3 /\ pc' = "return" /\ ids' = <<"own">>
           /\ sw' \in [status : Nat, written : BOOLEAN] /\ sw'.written
           /\ sw'.status = IF sw.written THEN sw.status ELSE 502
           /\ conn' \in Conn /\ conn'.info = conn.info /\ conn'.complete = conn.complete
           /\ conn'.status = 502 /\ conn'.ids = ids' /\ conn'.length = Undeclared
           /\ conn'.body = <<"own">>
           /\ UNCHANGED <<path, depth, trust, xff, origin, log, counted>>
<1> DEFINE code == 502
           sent == SendHeader(conn, code, Undeclared, ids')
<1>1. /\ code \in Nat /\ ~Informational(code) /\ code \notin Bodiless /\ code = 502
      /\ WriteHeader(code) /\ conn' = SendBody(sent, <<"own">>)
  BY DEF ErrorHandler, Informational, Bodiless
<1>2. /\ TypeOK /\ conn \in Conn /\ conn.status = 0 /\ conn.body = <<>>
      /\ pc = "await" /\ depth = 3 /\ pc' = "return" /\ ids' = <<"own">>
      /\ UNCHANGED <<path, depth, trust, xff, origin, log, counted>>
  BY DEF IInv, TypeOK, Nested, Remembered, Copied, ErrorHandler, Conn, Values, Authors
<1>3. ids' \in Seq(Values) /\ Undeclared \in Nat \cup {Undeclared} /\ <<"own">> \in Seq(Authors)
  BY <1>2 DEF Values, Authors
<1> HIDE DEF code
<1>4. /\ sw' \in [status : Nat, written : BOOLEAN] /\ sw'.written
      /\ sw'.status = IF sw.written THEN sw.status ELSE code
  BY <1>1, <1>2, WriteHeaderEffect
<1>5. /\ sent \in Conn /\ sent.info = conn.info /\ sent.status = code
      /\ sent.length = Undeclared /\ sent.ids = ids'
      /\ sent.body = conn.body /\ sent.complete = conn.complete
  <2>1. code \in Nat /\ ~Informational(code) /\ conn \in Conn /\ conn.status = 0
    BY <1>1, <1>2
  <2> DEFINE length == Undeclared
  <2>2. length \in Nat \cup {Undeclared} /\ sent = SendHeader(conn, code, length, ids')
    OBVIOUS
  <2> HIDE DEF length, sent
  <2>3. /\ sent \in Conn /\ sent.info = conn.info /\ sent.status = code
        /\ sent.length = length /\ sent.ids = ids'
        /\ sent.body = conn.body /\ sent.complete = conn.complete
    BY <2>1, <2>2, <1>3, FirstHeader
  <2>4. QED
    BY <2>3 DEF length
<1> HIDE DEF sent
<1>6. /\ conn' \in Conn /\ conn'.info = sent.info /\ conn'.status = sent.status
      /\ conn'.ids = sent.ids /\ conn'.complete = sent.complete
      /\ conn'.length = sent.length /\ conn'.body = sent.body \o <<"own">>
  <2> DEFINE units == <<"own">>
  <2>1. units \in Seq(Authors) /\ conn' = SendBody(sent, units) /\ sent \in Conn
    BY <1>1, <1>3, <1>5
  <2>2. sent.status \notin Bodiless /\ sent.length = Undeclared
    BY <1>1, <1>5
  <2> HIDE DEF units
  <2>3. /\ conn' \in Conn /\ conn'.info = sent.info /\ conn'.status = sent.status
        /\ conn'.length = sent.length /\ conn'.ids = sent.ids /\ conn'.complete = sent.complete
        /\ conn'.body = IF /\ sent.status \notin Bodiless
                           /\ sent.length = Undeclared \/ Len(sent.body \o units) <= sent.length
                        THEN sent.body \o units ELSE sent.body
    BY <2>1, SendBodyEffect
  <2>4. QED
    BY <2>2, <2>3 DEF units
<1>7. <<>> \o <<"own">> = <<"own">>
  BY <1>3, ConcatEmptySeq
<1>8. QED
  BY <1>1, <1>2, <1>4, <1>5, <1>6, <1>7

\* A unit always fits: the origin does not send more than it has declared.
LEMMA CopyUnitEffect ==
    ASSUME IInv, CopyUnit
    PROVE  /\ pc = "copy" /\ depth = 3 /\ origin.left > 0
           /\ conn' \in Conn /\ conn'.info = conn.info /\ conn'.complete = conn.complete
           /\ conn'.status = conn.status /\ conn'.ids = conn.ids /\ conn'.length = conn.length
           /\ conn'.body = [i \in 1 .. origin.units - origin'.left |-> "origin"]
           /\ origin' \in [via : {"none", "entry", "proxy"}, units : Nat, left : Nat]
           /\ origin'.units = origin.units /\ origin'.left = origin.left - 1
           /\ UNCHANGED <<path, pc, depth, trust, xff, ids, sw, log, counted>>
<1> DEFINE n == origin.units - origin.left
           body == [i \in 1 .. n |-> "origin"]
<1>1. /\ pc = "copy" /\ depth = 3 /\ origin.left > 0 /\ conn \in Conn
      /\ origin \in [via : {"none", "entry", "proxy"}, units : Nat, left : Nat]
      /\ origin.left <= origin.units /\ conn.length \in {Undeclared, origin.units}
      /\ conn.status \notin Bodiless /\ conn.body = body
      /\ UNCHANGED <<path, pc, depth, trust, xff, ids, sw, log, counted>>
  BY DEF IInv, TypeOK, Nested, Copied, CopyUnit, Conn, Values, Authors
<1>2. /\ conn' = SendBody(conn, <<"origin">>)
      /\ origin' = [origin EXCEPT !.left = origin.left - 1]
  BY DEF CopyUnit
<1>3. n \in Nat /\ n + 1 <= origin.units
  BY <1>1
<1>4. body \in Seq(Authors) /\ Len(body) = n /\ "origin" \in Authors
  <2>1. body \in [1 .. n -> Authors]
    BY DEF Authors
  <2>2. body \in Seq(Authors)
    BY <2>1, <1>3
  <2> HIDE DEF body
  <2>3. QED
    BY <2>1, <2>2, <1>3, LenProperties DEF Authors
<1>5. /\ body \o <<"origin">> \in Seq(Authors)
      /\ Len(body \o <<"origin">>) = n + 1
      /\ (body \o <<"origin">>)[n + 1] = "origin"
      /\ \A i \in 1 .. n : (body \o <<"origin">>)[i] = body[i]
  <2> HIDE DEF body
  <2>1. QED
    BY <1>4, OneMore
<1>6. body \o <<"origin">> = [i \in 1 .. n + 1 |-> "origin"]
  <2> DEFINE longer == body \o <<"origin">>
  <2>1. \A i \in 1 .. n : body[i] = "origin"
    OBVIOUS
  <2> HIDE DEF body
  <2>2. longer \in Seq(Authors) /\ Len(longer) = n + 1
    BY <1>5
  <2>3. \A i \in 1 .. n + 1 : longer[i] = "origin"
    BY <2>1, <1>3, <1>5
  <2> HIDE DEF longer
  <2>4. DOMAIN longer = 1 .. n + 1 /\ longer = [i \in DOMAIN longer |-> longer[i]]
    BY <2>2, LenProperties
  <2>5. longer = [i \in 1 .. n + 1 |-> "origin"]
    BY <2>3, <2>4
  <2>6. QED
    BY <2>5 DEF longer
<1>7. <<"origin">> \in Seq(Authors)
  BY DEF Authors
<1>8. /\ conn' \in Conn /\ conn'.info = conn.info /\ conn'.status = conn.status
      /\ conn'.length = conn.length /\ conn'.ids = conn.ids /\ conn'.complete = conn.complete
      /\ conn'.body = IF conn.length = Undeclared \/ Len(conn.body \o <<"origin">>) <= conn.length
                      THEN conn.body \o <<"origin">> ELSE conn.body
  BY <1>1, <1>2, <1>7, SendBodyEffect
<1> HIDE DEF body
<1>9. conn'.body = body \o <<"origin">>
  BY <1>1, <1>3, <1>5, <1>8
<1>10. /\ origin' \in [via : {"none", "entry", "proxy"}, units : Nat, left : Nat]
       /\ origin'.units = origin.units /\ origin'.left = origin.left - 1
  BY <1>1, <1>2
<1>11. origin.units - origin'.left = n + 1
  BY <1>1, <1>10
<1>12. QED
  BY <1>1, <1>6, <1>8, <1>9, <1>10, <1>11

\* net/http adds no status, since there is one; it finds out whether all is sent.
LEMMA FinishEffect ==
    ASSUME IInv, Finish
    PROVE  /\ pc = "return" /\ depth = 0 /\ pc' = "done" /\ conn' \in Conn
           /\ conn'.info = conn.info /\ conn'.status = conn.status /\ conn'.ids = conn.ids
           /\ conn'.length = conn.length /\ conn'.body = conn.body
           /\ conn'.complete => ~Short
           /\ UNCHANGED <<path, depth, trust, xff, ids, sw, origin, log, counted>>
<1>1. /\ pc = "return" /\ depth = 0 /\ conn.status # 0 /\ conn \in Conn
      /\ UNCHANGED <<path, depth, trust, xff, ids, sw, origin, log, counted>> /\ pc' = "done"
  BY DEF IInv, TypeOK, Nested, Remembered, Finish, Conn, Values, Authors
<1>2. SendHeader(conn, 200, Undeclared, ids) = conn
  BY <1>1 DEF SendHeader, Informational
<1> DEFINE all == conn.status \in Bodiless \/ conn.length \in {Undeclared, Len(conn.body)}
<1>3. conn' = [conn EXCEPT !.complete = all] /\ all \in BOOLEAN /\ (all => ~Short)
  BY <1>1, <1>2 DEF Finish, Short
<1> HIDE DEF all
<1>4. QED
  BY <1>1, <1>3 DEF Conn

\* net/http drops all of the answer or its end.  Only one of a declared length
\* that was written to the end can look complete.
LEMMA AbortEffect ==
    ASSUME IInv, Abort
    PROVE  /\ pc = "panic" /\ depth = 0 /\ path = "bytes" /\ pc' = "done" /\ conn' \in Conn
           /\ conn'.info = conn.info
           /\ \/ conn'.status = 0
              \/ conn'.status = conn.status /\ conn'.ids = conn.ids
           /\ conn'.complete =>
                 ~Short /\ conn'.body = conn.body /\ conn'.length = conn.length
           /\ UNCHANGED <<path, depth, trust, xff, ids, sw, origin, log, counted>>
<1>1. /\ pc = "panic" /\ depth = 0 /\ path = "bytes" /\ conn \in Conn /\ pc' = "done"
      /\ Fits /\ ~conn.complete
      /\ UNCHANGED <<path, depth, trust, xff, ids, sw, origin, log, counted>>
  <2>1. /\ pc = "panic" /\ depth = 0 /\ pc' = "done"
        /\ UNCHANGED <<path, depth, trust, xff, ids, sw, origin, log, counted>>
    BY DEF Abort
  <2>2. conn \in Conn
    BY DEF IInv, TypeOK, Conn, Values, Authors
  <2>3. path = "bytes"
    BY <2>1 DEF IInv, Nested
  <2>4. Fits /\ ~conn.complete
    BY <2>1 DEF IInv, Copied
  <2>5. QED
    BY <2>1, <2>2, <2>3, <2>4
<1>2. CASE conn' = [conn EXCEPT !.status = 0, !.length = Undeclared, !.ids = <<>>, !.body = <<>>]
  <2>1. <<>> \in Seq(Values) /\ <<>> \in Seq(Authors)
    OBVIOUS
  <2>2. conn' \in Conn /\ conn'.info = conn.info /\ conn'.status = 0 /\ conn'.complete = conn.complete
    BY <1>1, <1>2, <2>1 DEF Conn
  <2>3. QED
    BY <1>1, <2>2
<1>3. CASE \E n \in 0 .. Len(conn.body) :
              conn' = [conn EXCEPT !.body = SubSeq(conn.body, 1, n), !.complete = (conn.length = n)]
  <2>1. PICK n \in 0 .. Len(conn.body) :
              conn' = [conn EXCEPT !.body = SubSeq(conn.body, 1, n), !.complete = (conn.length = n)]
    BY <1>3
  <2>2. conn.body \in Seq(Authors) /\ Len(conn.body) \in Nat
    BY <1>1, LenProperties DEF Conn
  <2> DEFINE sent == SubSeq(conn.body, 1, n)
             whole == conn.length = n
  <2>3. sent \in Seq(Authors) /\ (n = Len(conn.body) => sent = conn.body)
    BY <2>2
  <2>4. whole \in BOOLEAN /\ conn' = [conn EXCEPT !.body = sent, !.complete = whole]
    BY <2>1
  <2>5. whole => n = Len(conn.body)
    BY <1>1, <2>2 DEF Fits, Undeclared
  <2>6. whole => ~Short
    BY <2>5 DEF Short
  <2> HIDE DEF sent, whole
  <2>7. /\ conn' \in Conn /\ conn'.info = conn.info /\ conn'.status = conn.status
        /\ conn'.ids = conn.ids /\ conn'.length = conn.length
        /\ conn'.body = sent /\ conn'.complete = whole
    BY <1>1, <2>3, <2>4 DEF Conn
  <2>8. QED
    BY <1>1, <2>3, <2>5, <2>6, <2>7
<1>4. QED
  BY <1>2, <1>3 DEF Abort

\* The mux answers itself, or nothing has happened yet.
LEMMA MuxEffect ==
    ASSUME IInv, Mux
    PROVE  /\ pc = "mux" /\ depth = 0 /\ conn' \in Conn /\ conn'.complete = conn.complete
           /\ conn'.length = Undeclared
           /\ \/ /\ path = "mux" /\ pc' = "return" /\ conn'.status # 0
                 /\ conn'.body \in {<<>>, <<"own">>}
              \/ path # "mux" /\ pc' = "call" /\ conn' = conn
           /\ UNCHANGED <<path, depth, trust, xff, ids, sw, origin, log, counted>>
<1>1. /\ pc = "mux" /\ depth = 0 /\ conn \in Conn /\ ids \in Seq(Values) /\ conn.status = 0
      /\ conn.body = <<>> /\ conn.length = Undeclared
      /\ UNCHANGED <<path, depth, trust, xff, ids, sw, origin, log, counted>>
  BY DEF IInv, TypeOK, Nested, Remembered, Copied, Mux, Conn, Values, Authors
<1>2. CASE path = "mux"
  <2>1. PICK code \in {200, 301, 400, 500}, units \in {<<>>, <<"own">>} :
              conn' = SendBody(SendHeader(conn, code, Undeclared, ids), units)
    BY <1>2 DEF Mux
  <2> DEFINE length == Undeclared
             sent == SendHeader(conn, code, length, ids)
  <2>2. code \in Nat /\ ~Informational(code) /\ code # 0 /\ code \notin Bodiless
    BY DEF Informational, Bodiless
  <2>3. length \in Nat \cup {Undeclared} /\ length = Undeclared
    OBVIOUS
  <2>4. units \in Seq(Authors) /\ <<>> \o units = units
    <3>1. <<"own">> \in Seq(Authors) /\ <<>> \in Seq(Authors)
      BY DEF Authors
    <3>2. units \in Seq(Authors)
      BY <3>1
    <3>3. QED
      BY <3>2, ConcatEmptySeq
  <2>5. conn' = SendBody(sent, units)
    BY <2>1
  <2> HIDE DEF length
  <2>6. /\ sent \in Conn /\ sent.status = code /\ sent.length = length
        /\ sent.body = conn.body /\ sent.complete = conn.complete
    <3> HIDE DEF sent
    <3>1. /\ conn \in Conn /\ conn.status = 0 /\ code \in Nat /\ ~Informational(code)
          /\ ids \in Seq(Values) /\ length \in Nat \cup {Undeclared}
      BY <1>1, <2>2, <2>3
    <3>2. sent = SendHeader(conn, code, length, ids)
      BY DEF sent
    <3>3. QED
      BY <3>1, <3>2, FirstHeader
  <2> HIDE DEF sent
  <2>7. /\ conn' \in Conn /\ conn'.status = sent.status /\ conn'.length = sent.length
        /\ conn'.complete = sent.complete /\ conn'.body = sent.body \o units
    <3>1. /\ conn' \in Conn /\ conn'.status = sent.status /\ conn'.length = sent.length
          /\ conn'.complete = sent.complete
          /\ conn'.body = IF /\ sent.status \notin Bodiless
                             /\ sent.length = Undeclared \/ Len(sent.body \o units) <= sent.length
                          THEN sent.body \o units ELSE sent.body
      <4>1. sent \in Conn /\ units \in Seq(Authors) /\ conn' = SendBody(sent, units)
        BY <2>4, <2>5, <2>6
      <4>2. QED
        BY <4>1, SendBodyEffect
    <3>2. QED
      BY <2>2, <2>3, <2>6, <3>1
  <2>8. conn'.body \in {<<>>, <<"own">>}
    BY <1>1, <2>4, <2>6, <2>7
  <2>9. pc' = "return"
    BY <1>2 DEF Mux
  <2>10. QED
    BY <1>1, <1>2, <2>2, <2>3, <2>6, <2>7, <2>8, <2>9
<1>3. CASE path # "mux"
  BY <1>1, <1>3 DEF Mux
<1>4. QED
  BY <1>2, <1>3

\* The handler refuses, or has no answer from the origin.
LEMMA OwnAnswerEffect ==
    ASSUME IInv, Refuse \/ FetchFails
    PROVE  \E code \in Nat :
              /\ pc \in {"call", "handle"} /\ depth = 3
              /\ sw' \in [status : Nat, written : BOOLEAN] /\ sw'.written /\ sw'.status = code
              /\ conn' \in Conn /\ conn'.complete = conn.complete
              /\ \/ /\ Valid(code) /\ pc' = "return" /\ conn'.length = Undeclared
                    /\ conn'.body = IF code \in Bodiless THEN <<>> ELSE <<"own">>
                    /\ conn'.status = IF Informational(code) THEN 200 ELSE code
                    /\ conn'.info = IF Informational(code) THEN 1 ELSE 0
                    /\ conn'.ids = ids
                 \/ ~Valid(code) /\ pc' = "panic" /\ conn' = conn
              /\ UNCHANGED <<path, depth, trust, xff, ids, origin, log, counted>>
<1>1. PICK code \in Nat : Answer(code, <<"own">>)
  BY RefuseEffect DEF FetchFails
<1>2. /\ TypeOK /\ pc \in {"call", "handle"} /\ depth = 3 /\ conn \in Conn
      /\ ~sw.written /\ conn.info = 0 /\ conn.status = 0 /\ conn.body = <<>>
      /\ UNCHANGED <<path, depth, trust, xff, ids, origin, log, counted>>
  BY ChainFacts DEF IInv, TypeOK, Nested, Remembered, Copied, Refuse, FetchFails, Handling,
                    Conn, Values, Authors
<1>3. "own" \in Authors
  BY DEF Authors
<1>4. /\ sw' \in [status : Nat, written : BOOLEAN] /\ sw'.written
      /\ sw'.status = IF sw.written THEN sw.status ELSE code
      /\ conn' \in Conn
      /\ Valid(code) =>
           /\ pc' = "return" /\ conn'.complete = conn.complete
           /\ conn'.info = IF Informational(code) THEN conn.info + 1 ELSE conn.info
           /\ conn'.status = IF conn.status # 0 THEN conn.status
                             ELSE IF Informational(code) THEN 200 ELSE code
           /\ conn'.length = IF conn.status # 0 THEN conn.length ELSE Undeclared
           /\ conn'.ids = IF conn.status # 0 THEN conn.ids ELSE ids
           /\ conn'.body = IF Room(conn') THEN conn.body \o <<"own">> ELSE conn.body
      /\ ~Valid(code) => conn' = conn /\ pc' = "panic"
  BY <1>1, <1>2, <1>3, AnswerEffect
<1>5. <<>> \o <<"own">> = <<"own">>
  OBVIOUS
<1>6. CASE Valid(code)
  <2>1. conn'.length = Undeclared
    BY <1>2, <1>4, <1>6
  <2>2. /\ conn'.status = (IF Informational(code) THEN 200 ELSE code)
        /\ conn'.info = (IF Informational(code) THEN 1 ELSE 0)
        /\ conn'.ids = ids /\ conn'.complete = conn.complete /\ pc' = "return"
    BY <1>2, <1>4, <1>6
  <2>3. conn'.status \in Bodiless <=> code \in Bodiless
    BY <2>2 DEF Bodiless, Informational
  <2>4. conn'.body = IF code \in Bodiless THEN <<>> ELSE <<"own">>
    BY <1>2, <1>4, <1>5, <1>6, <2>1, <2>3 DEF Room
  <2>5. QED
    BY <1>2, <1>4, <1>6, <2>1, <2>2, <2>4
<1>7. CASE ~Valid(code)
  BY <1>2, <1>4, <1>7
<1>8. QED
  BY <1>6, <1>7

-----------------------------------------------------------------------------
(* Each part of the invariant, action by action.                           *)

\* At first nothing is sent, remembered or logged.
LEMMA InitIInv == Init => IInv
<1> SUFFICES ASSUME Init PROVE IInv
  OBVIOUS
<1> USE DEF Init
<1>1. TypeOK
  BY ChainFacts, ForwardedAssumption DEF TypeOK
<1>2. Nested
  BY DEF Nested, Logged
<1>3. Remembered
  BY DEF Remembered
<1>4. Copied
  BY DEF Copied, CutIsMarked
<1>5. Identified
  BY DEF Identified
<1>6. NoSpoofedAddress
  BY DEF NoSpoofedAddress
<1>7. QED
  BY <1>1, <1>2, <1>3, <1>4, <1>5, <1>6 DEF IInv

\* The types.
LEMMA TypeOKStep == IInv /\ [Next]_vars => TypeOK'
<1> SUFFICES ASSUME IInv, [Next]_vars PROVE TypeOK'
  OBVIOUS
<1>0. TypeOK
  BY DEF IInv
<1> USE <1>0, ChainFacts DEF TypeOK
<1>1. CASE Call
  <2>1. depth' \in 0 .. 3 /\ UNCHANGED <<path, pc, trust, xff, sw, conn, origin, log, counted>>
    BY <1>1 DEF Call
  <2>2. ids' \in Seq({"own", "origin"})
    <3>1. <<"own">> \in Seq({"own", "origin"})
      OBVIOUS
    <3>2. QED
      BY <1>1, <3>1 DEF Call
  <2>3. QED
    BY <2>1, <2>2
<1>2. CASE Return
  <2>1. Append(log, sw.status) \in Seq(Nat)
    BY AppendProperties
  <2>2. /\ depth' \in 0 .. 3 /\ UNCHANGED <<path, trust, xff, ids, sw, conn, origin>>
        /\ pc' \in {pc, "panic"} /\ log' \in {log, Append(log, sw.status)}
        /\ counted' \in {counted, counted + 1}
    BY <1>2 DEF Return
  <2>3. log' \in Seq(Nat)
    BY <2>1, <2>2
  <2>4. counted' \in Nat
    BY <2>2
  <2>5. QED
    BY <2>2, <2>3, <2>4
<1>3. CASE Recovery
  <2>1. CASE depth = 3
    BY <1>3, <2>1, RecoveryEffect DEF Conn, Values, Authors
  <2>2. CASE depth # 3
    BY <1>3, <2>2, UnwindEffect
  <2>3. QED
    BY <2>1, <2>2
<1>4. CASE Finish
  BY <1>4, FinishEffect DEF Conn, Values, Authors
<1>5. CASE Panic
  BY <1>5 DEF Panic
<1>6. CASE Refuse \/ FetchFails
  BY <1>6, OwnAnswerEffect DEF Conn, Values, Authors
<1>7. CASE SetForwardedHeaders
  <2> DEFINE line == IF trust /\ xff # <<>> THEN Head(xff) ELSE <<>>
  <2>1. line \in Seq(STRING)
    BY HeadTailProperties, EmptySeq
  <2>2. line \o <<Peer>> \in Seq(STRING) /\ xff' = << line \o <<Peer>> >>
    <3>1. xff' = << line \o <<Peer>> >>
      BY <1>7 DEF SetForwardedHeaders
    <3> HIDE DEF line
    <3>2. QED
      BY <2>1, <3>1, ForwardedAssumption, OneMore
  <2> HIDE DEF line
  <2>3. xff' \in Seq(Seq(STRING))
    BY <2>2
  <2>4. QED
    BY <1>7, <2>3 DEF SetForwardedHeaders
<1>8. CASE writeEntry
  <2>1. \A u \in Nat : [via |-> "entry", units |-> u, left |-> 0]
                          \in [via : {"none", "entry", "proxy"}, units : Nat, left : Nat]
    OBVIOUS
  <2>2. \A c \in OriginCodes \cup {101} :
            [status |-> c, written |-> TRUE] \in [status : Nat, written : BOOLEAN]
    BY OriginCodesFacts
  <2>3. QED
    <3>1. PICK code \in OriginCodes \cup {101}, units \in Nat :
              /\ conn' \in Conn /\ ids' \in Seq(Values) /\ pc' = "return"
              /\ sw' = [status |-> code, written |-> TRUE]
              /\ origin' = [via |-> "entry", units |-> units, left |-> 0]
              /\ UNCHANGED <<path, depth, trust, xff, log, counted>>
      BY <1>8, EntryEffect, ZenonT(40)
    <3>2. QED
      BY <2>1, <2>2, <3>1 DEF Conn, Values, Authors
<1>9. CASE proxyToOrigin
  <2>1. xff # <<>> /\ Head(xff) \in Seq(STRING)
    BY <1>9, HeadTailProperties DEF proxyToOrigin, IInv, NoSpoofedAddress
  <2>2. Append(Head(xff), Peer) \in Seq(STRING)
    BY <2>1, ForwardedAssumption, AppendProperties
  <2>3. xff' \in Seq(Seq(STRING))
    BY <1>9, <2>2 DEF proxyToOrigin
  <2>4. QED
    BY <1>9, <2>3 DEF proxyToOrigin
<1>10. CASE Relay1xx
  <2>1. /\ conn' \in Conn /\ sw' \in [status : Nat, written : BOOLEAN] /\ ids' = <<>>
        /\ UNCHANGED <<path, pc, depth, trust, xff, origin, log, counted>>
    BY <1>10, Relay1xxEffect, Zenon
  <2>2. QED
    BY <2>1 DEF Conn, Values, Authors
<1>11. CASE ErrorHandler
  BY <1>11, ErrorHandlerEffect DEF Conn, Values, Authors
<1>12. CASE RelayHeader
  <2>1. \A u \in Nat : [via |-> "proxy", units |-> u, left |-> u]
                          \in [via : {"none", "entry", "proxy"}, units : Nat, left : Nat]
    OBVIOUS
  <2>2. QED
    <3>1. PICK units \in Nat :
              /\ conn' \in Conn /\ ids' \in Seq(Values) /\ pc' = "copy"
              /\ sw' \in [status : Nat, written : BOOLEAN]
              /\ origin' = [via |-> "proxy", units |-> units, left |-> units]
              /\ UNCHANGED <<path, depth, trust, xff, log, counted>>
      BY <1>12, RelayHeaderEffect, Zenon
    <3>2. QED
      BY <2>1, <3>1 DEF Conn, Values, Authors
<1>13. CASE CopyUnit
  BY <1>13, CopyUnitEffect DEF Conn, Values, Authors
<1>14. CASE CopyEnds
  BY <1>14 DEF CopyEnds
<1>15. CASE Mux
  BY <1>15, MuxEffect DEF Conn, Values, Authors
<1>16. CASE Abort
  BY <1>16, AbortEffect DEF Conn, Values, Authors
<1>17. CASE UNCHANGED vars
  BY <1>17 DEF vars
<1>18. QED
  BY <1>1, <1>2, <1>3, <1>4, <1>5, <1>6, <1>7, <1>8, <1>9, <1>10, <1>11, <1>12, <1>13, <1>14,
     <1>15, <1>16, <1>17 DEF Next

\* The nesting, and the log.
LEMMA NestedStep == IInv /\ [Next]_vars => Nested'
<1> SUFFICES ASSUME IInv, [Next]_vars PROVE Nested'
  OBVIOUS
<1>0. TypeOK /\ Nested
  BY DEF IInv
<1>a. pc \in {"handle", "await", "copy"} => path # "mux"
  BY <1>0 DEF Nested
<1> USE <1>0, ChainFacts DEF Nested, Logged
<1>1. CASE Call
  BY <1>1 DEF Call, TypeOK
<1>2. CASE Return
  <2>1. depth \in 0 .. 3
    BY DEF TypeOK
  <2>2. Append(<<>>, sw.status) = <<sw.status>>
    OBVIOUS
  <2>3. CASE depth = 2
    <3>1. pc = "return" /\ log = <<>> /\ counted = 0 /\ path \in {"text", "bytes"}
      BY <1>2, <2>3 DEF Return, TypeOK
    <3>2. /\ log' = <<sw.status>> /\ depth' = 1 /\ sw' = sw /\ path' = path
          /\ IF path = "bytes" THEN pc' = "panic" /\ counted' = 0
             ELSE pc' = "return" /\ counted' = 1
      BY <1>2, <2>2, <2>3, <3>1 DEF Return
    <3>3. QED
      BY <3>1, <3>2
  <2>4. CASE depth # 2
    BY <1>2, <2>1, <2>4 DEF Return
  <2>5. QED
    BY <2>3, <2>4
<1>3. CASE Recovery
  <2>1. CASE depth = 3
    BY <1>3, <2>1, RecoveryEffect
  <2>2. CASE depth # 3
    BY <1>3, <2>2, UnwindEffect
  <2>3. QED
    BY <2>1, <2>2
<1>4. CASE Finish
  BY <1>4, FinishEffect
<1>5. CASE Panic
  BY <1>5 DEF Panic, Handling
<1>6. CASE Refuse \/ FetchFails
  BY <1>6, OwnAnswerEffect
<1>7. CASE SetForwardedHeaders
  BY <1>7 DEF SetForwardedHeaders, Handling
<1>8. CASE writeEntry
  BY <1>8 DEF writeEntry
<1>9. CASE proxyToOrigin
  BY <1>9 DEF proxyToOrigin
<1>10. CASE Relay1xx
  BY <1>10 DEF Relay1xx
<1>11. CASE ErrorHandler
  BY <1>11 DEF ErrorHandler
<1>12. CASE RelayHeader
  BY <1>12 DEF RelayHeader
<1>13. CASE CopyUnit
  BY <1>13, CopyUnitEffect
<1>14. CASE CopyEnds
  BY <1>14 DEF CopyEnds
<1>15. CASE Mux
  BY <1>15, MuxEffect
<1>16. CASE Abort
  BY <1>16, AbortEffect
<1>17. CASE UNCHANGED vars
  BY <1>17 DEF vars
<1>18. QED
  BY <1>1, <1>2, <1>3, <1>4, <1>5, <1>6, <1>7, <1>8, <1>9, <1>10, <1>11, <1>12, <1>13, <1>14,
     <1>15, <1>16, <1>17 DEF Next

\* What is remembered of the status, and what was sent.
LEMMA RememberedStep == IInv /\ [Next]_vars => Remembered'
<1> SUFFICES ASSUME IInv, [Next]_vars PROVE Remembered'
  OBVIOUS
<1>0. TypeOK /\ Nested /\ Remembered
  BY DEF IInv
<1> USE <1>0 DEF Remembered, Told
<1>1. CASE Call
  BY <1>1 DEF Call
<1>2. CASE Return
  <2>1. /\ pc = "return" /\ pc' \in {"return", "panic"}
        /\ UNCHANGED <<path, sw, conn>>
    BY <1>2 DEF Return
  <2>2. QED
    BY <2>1
<1>3. CASE Recovery
  <2>1. CASE depth = 3
    <3>1. /\ pc = "panic" /\ pc' = "return" /\ sw'.written /\ path' = path /\ path # "mux"
          /\ sw'.status = IF sw.written THEN sw.status ELSE 500
          /\ conn'.status = IF conn.status # 0 THEN conn.status ELSE 500
          /\ conn'.info = conn.info
      BY <1>3, <2>1, RecoveryEffect DEF Nested
    <3>2. CASE ~sw.written
      BY <3>1, <3>2
    <3>3. CASE sw.written /\ conn.status # 0
      BY <3>1, <3>3
    <3>4. CASE sw.written /\ conn.status = 0
      <4>1. conn'.status = 500 /\ sw'.status = sw.status
        BY <3>1, <3>4
      <4>2. (Informational(sw.status) /\ conn.info > 0) \/ ~Valid(sw.status)
        BY <3>1, <3>4 DEF Valid
      <4>3. QED
        BY <3>1, <4>1, <4>2
    <3>5. QED
      BY <3>2, <3>3, <3>4
  <2>2. CASE depth # 3
    BY <1>3, <2>2, UnwindEffect
  <2>3. QED
    BY <2>1, <2>2
<1>4. CASE Finish
  BY <1>4, FinishEffect
<1>5. CASE Panic
  BY <1>5, ChainFacts DEF Panic, Handling
<1>6. CASE Refuse \/ FetchFails
  <2>1. PICK code \in Nat :
              /\ pc \in {"call", "handle"} /\ sw'.written /\ sw'.status = code
              /\ depth = 3 /\ depth' = depth
              /\ \/ /\ Valid(code) /\ pc' = "return"
                    /\ conn'.status = IF Informational(code) THEN 200 ELSE code
                    /\ conn'.info = IF Informational(code) THEN 1 ELSE 0
                 \/ ~Valid(code) /\ pc' = "panic" /\ conn' = conn
    BY <1>6, OwnAnswerEffect, Zenon
  <2>2. CASE Valid(code) /\ Informational(code) /\ pc' = "return"
    BY <2>1, <2>2
  <2>3. CASE Valid(code) /\ ~Informational(code) /\ pc' = "return"
    BY <2>1, <2>3 DEF Valid
  <2>4. CASE ~Valid(code) /\ pc' = "panic" /\ conn' = conn
    BY <2>1, <2>4
  <2>5. QED
    BY <2>1, <2>2, <2>3, <2>4
<1>7. CASE SetForwardedHeaders
  BY <1>7 DEF SetForwardedHeaders, Handling
<1>8. CASE writeEntry
  <2>1. PICK code \in OriginCodes \cup {101} :
              /\ pc' = "return" /\ sw' = [status |-> code, written |-> TRUE]
              /\ conn'.status = code
    BY <1>8, EntryEffect, Zenon
  <2>2. code # 0
    BY OriginCodesFacts
  <2>3. QED
    BY <2>1, <2>2
<1>9. CASE proxyToOrigin
  BY <1>9 DEF proxyToOrigin
<1>10. CASE Relay1xx
  <2>1. PICK code \in InfoCodes :
              /\ sw'.written /\ sw'.status = IF sw.written THEN sw.status ELSE code
              /\ conn'.info = conn.info + 1
              /\ conn'.status = conn.status /\ pc = "await" /\ pc' = pc
    BY <1>10, Relay1xxEffect, Zenon
  <2>2. conn'.status = 0 /\ pc' = "await"
    BY <2>1
  <2>3. Informational(sw'.status) /\ conn'.info > 0
    <3>1. CASE sw.written
      <4>1. Informational(sw.status) /\ sw'.status = sw.status
        BY <2>1, <3>1
      <4>2. conn'.info > 0
        BY <2>1 DEF TypeOK
      <4>3. QED
        BY <4>1, <4>2
    <3>2. CASE ~sw.written
      <4>1. sw'.status = code /\ Informational(code)
        BY <2>1, <3>2, CodesAssumption
      <4>2. conn'.info > 0
        BY <2>1 DEF TypeOK
      <4>3. QED
        BY <4>1, <4>2
    <3>3. QED
      BY <3>1, <3>2
  <2>4. QED
    BY <2>1, <2>2, <2>3
<1>11. CASE ErrorHandler
  <2>1. /\ pc = "await" /\ pc' = "return" /\ sw'.written
        /\ sw'.status = IF sw.written THEN sw.status ELSE 502
        /\ conn'.status = 502 /\ conn'.info = conn.info
    BY <1>11, ErrorHandlerEffect
  <2>2. CASE sw.written
    <3>1. sw'.status = sw.status /\ Informational(sw.status) /\ conn.info > 0
      BY <2>1, <2>2
    <3>2. QED
      BY <2>1, <3>1
  <2>3. CASE ~sw.written
    BY <2>1, <2>3
  <2>4. QED
    BY <2>2, <2>3
<1>12. CASE RelayHeader
  <2>1. PICK code \in OriginCodes :
              /\ pc = "await" /\ pc' = "copy" /\ sw'.written /\ conn'.status = code
              /\ sw'.status = IF sw.written THEN sw.status ELSE code
              /\ conn'.info = conn.info
    BY <1>12, RelayHeaderEffect, Zenon
  <2>2. code # 0
    BY OriginCodesFacts
  <2>3. CASE sw.written
    <3>1. sw'.status = sw.status /\ Informational(sw.status) /\ conn.info > 0
      BY <2>1, <2>3
    <3>2. QED
      BY <2>1, <2>2, <3>1
  <2>4. CASE ~sw.written
    BY <2>1, <2>2, <2>4
  <2>5. QED
    BY <2>3, <2>4
<1>13. CASE CopyUnit
  BY <1>13, CopyUnitEffect, ZenonT(40)
<1>14. CASE CopyEnds
  BY <1>14 DEF CopyEnds
<1>15. CASE Mux
  <2>1. CASE path = "mux"
    BY <1>15, <2>1, MuxEffect
  <2>2. CASE path # "mux"
    BY <1>15, <2>2, MuxEffect
  <2>3. QED
    BY <2>1, <2>2
<1>16. CASE Abort
  <2>1. /\ pc = "panic" /\ depth = 0 /\ path = "bytes" /\ pc' = "done"
        /\ conn'.status \in {0, conn.status} /\ conn'.info = conn.info
        /\ UNCHANGED <<path, sw>>
    BY <1>16, AbortEffect
  <2>2. QED
    BY <2>1
<1>17. CASE UNCHANGED vars
  BY <1>17 DEF vars
<1>18. QED
  BY <1>1, <1>2, <1>3, <1>4, <1>5, <1>6, <1>7, <1>8, <1>9, <1>10, <1>11, <1>12, <1>13, <1>14,
     <1>15, <1>16, <1>17 DEF Next

\* The body on its way.
LEMMA CopiedStep == IInv /\ [Next]_vars => Copied'
<1> SUFFICES ASSUME IInv, [Next]_vars PROVE Copied'
  OBVIOUS
<1>0. TypeOK /\ Nested /\ Remembered /\ Copied
  BY DEF IInv
<1> USE <1>0 DEF Copied, CutIsMarked
<1>1. CASE Call
  BY <1>1 DEF Call
<1>2. CASE Return
  <2>1. /\ pc = "return" /\ (pc' = "return" \/ (pc' = "panic" /\ depth' < 2))
        /\ conn' = conn /\ origin' = origin
    BY <1>2, ChainFacts DEF Return, TypeOK
  <2>2. (Fits /\ (Whole \/ ErrorLast \/ CutEntry \/ Short))'
    BY <2>1 DEF Fits, Whole, ErrorLast, CutEntry, Short
  <2>3. pc' # "done" /\ ~conn'.complete
    BY <2>1
  <2>4. depth' # 3 \/ pc' = "return"
    BY <2>1
  <2>5. QED
    BY <2>1, <2>2, <2>3, <2>4
<1>3. CASE Recovery
  <2>1. CASE depth = 3
    <3>1. /\ pc = "panic" /\ pc' = "return" /\ conn'.body = conn.body \o <<"error">>
          /\ conn'.length = IF conn.status # 0 THEN conn.length ELSE Undeclared
          /\ conn'.complete = conn.complete /\ conn' \in Conn
      BY <1>3, <2>1, RecoveryEffect
    <3>2. conn.body \in Seq(Authors) /\ "error" \in Authors /\ Len(conn.body) \in Nat
      BY LenProperties DEF TypeOK, Authors
    <3>3. /\ conn'.body # <<>> /\ Len(conn'.body) = Len(conn.body) + 1
          /\ conn'.body[Len(conn.body) + 1] = "error"
      BY <3>1, <3>2, OneMore
    <3>4. ErrorLast'
      BY <3>3 DEF ErrorLast
    <3>5. Fits'
      <4>1. CASE conn'.length = Undeclared
        BY <4>1 DEF Fits
      <4>2. CASE conn'.length # Undeclared
        <5>1. conn'.length = conn.length /\ Len(conn.body) < conn.length /\ conn.length \in Nat
          BY <2>1, <3>1, <4>2 DEF TypeOK
        <5>2. QED
          BY <3>2, <3>3, <5>1 DEF Fits
      <4>3. QED
        BY <4>1, <4>2
    <3>6. QED
      BY <3>1, <3>4, <3>5
  <2>2. CASE depth # 3
    <3>1. /\ depth = 1 /\ depth' = 0 /\ pc = "panic" /\ UNCHANGED <<pc, conn, origin>>
      BY <1>3, <2>2, UnwindEffect
    <3>2. (Fits /\ (Whole \/ ErrorLast \/ CutEntry \/ Short))'
      BY <3>1 DEF Fits, Whole, ErrorLast, CutEntry, Short
    <3>3. QED
      BY <3>1, <3>2
  <2>3. QED
    BY <2>1, <2>2
<1>4. CASE Finish
  <2>1. /\ pc = "return" /\ pc' = "done" /\ (conn'.complete => ~Short)
        /\ conn'.length = conn.length /\ conn'.body = conn.body /\ origin' = origin
    BY <1>4, FinishEffect
  <2>2. QED
    BY <2>1 DEF Whole, ErrorLast, CutEntry
<1>5. CASE Panic
  <2>1. pc = "call" /\ pc' = "panic" /\ depth' = 3 /\ UNCHANGED <<conn, origin>>
    BY <1>5, ChainFacts DEF Panic, Handling
  <2>2. conn.status \notin Bodiless
    BY <2>1 DEF Remembered, Bodiless
  <2>3. QED
    BY <2>1, <2>2
<1>6. CASE Refuse \/ FetchFails
  <2>1. PICK code \in Nat :
          /\ pc \in {"call", "handle"} /\ origin' = origin /\ conn'.complete = conn.complete
          /\ \/ /\ pc' = "return" /\ conn'.length = Undeclared
                /\ conn'.body = IF code \in Bodiless THEN <<>> ELSE <<"own">>
             \/ pc' = "panic" /\ conn' = conn
    BY <1>6, OwnAnswerEffect, Zenon
  <2>2. CASE pc' = "return" /\ conn'.length = Undeclared /\ conn'.body \in {<<>>, <<"own">>}
    <3>1. Whole'
      <4>1. origin'.units = 0
        BY <2>1
      <4>2. <<>> = [i \in 1 .. origin'.units |-> "origin"]
        BY <4>1
      <4>3. QED
        BY <2>2, <4>2 DEF Whole
    <3>2. Fits'
      BY <2>2 DEF Fits
    <3>3. ~conn'.complete
      BY <2>1
    <3>4. QED
      BY <2>2, <3>1, <3>2, <3>3
  <2>3. CASE pc' = "panic" /\ conn' = conn
    <3>1. depth' = 3
      BY <1>6, OwnAnswerEffect, Zenon
    <3>2. conn.status \notin Bodiless
      BY <2>1 DEF Remembered, Bodiless
    <3>3. QED
      BY <2>1, <2>3, <3>1, <3>2
  <2>4. QED
    BY <2>1, <2>2, <2>3
<1>7. CASE SetForwardedHeaders
  BY <1>7 DEF SetForwardedHeaders, Handling
<1>8. CASE writeEntry
  <2>1. PICK code \in OriginCodes \cup {101}, units \in Nat, length \in Nat \cup {Undeclared} :
              /\ pc' = "return" /\ conn'.length = length /\ conn'.status = code
              /\ IF code \in Bodiless THEN units = 0 ELSE length \in {units, Undeclared}
              /\ conn'.body = [i \in 1 .. Kept(units) |-> "origin"] /\ conn' \in Conn
              /\ conn'.complete = conn.complete /\ pc = "handle"
              /\ origin' = [via |-> "entry", units |-> units, left |-> 0]
    BY <1>8, EntryEffect, ZenonT(40)
  <2>2. /\ Kept(units) \in Nat /\ Kept(units) <= units /\ MaxRequestBody \in Nat
        /\ Kept(units) = IF units <= MaxRequestBody THEN units ELSE MaxRequestBody
    BY BoundsAssumption DEF Kept
  <2>3. Len(conn'.body) = Kept(units)
    <3>1. DOMAIN conn'.body = 1 .. Kept(units) /\ conn'.body \in Seq(Authors)
      BY <2>1 DEF Conn
    <3>2. QED
      BY <2>2, <3>1, LenProperties
  <2>4. Fits'
    <3>1. CASE code \in Bodiless
      BY <2>1, <2>2, <2>3, <3>1 DEF Fits
    <3>2. CASE code \notin Bodiless
      BY <2>1, <2>2, <2>3, <3>2 DEF Fits
    <3>3. QED
      BY <3>1, <3>2
  <2>5. pc' = "return" /\ ~conn'.complete
    BY <2>1
  <2>6. CASE units <= MaxRequestBody
    <3>1. Kept(units) = units
      BY <2>2, <2>6
    <3>2. Whole'
      BY <2>1, <3>1 DEF Whole
    <3>3. QED
      BY <2>4, <2>5, <3>2
  <2>7. CASE units > MaxRequestBody /\ length = Undeclared
    <3>1. CutEntry'
      BY <2>1, <2>7 DEF CutEntry
    <3>2. QED
      BY <2>4, <2>5, <3>1
  <2>8. CASE units > MaxRequestBody /\ length # Undeclared
    <3>1. code \notin Bodiless
      BY <2>1, <2>2, <2>8
    <3>2. length = units /\ Len(conn'.body) = MaxRequestBody
      BY <2>1, <2>2, <2>3, <2>8, <3>1
    <3>3. Short'
      BY <2>1, <2>2, <2>8, <3>1, <3>2 DEF Short
    <3>4. QED
      BY <2>4, <2>5, <3>3
  <2>9. QED
    BY <2>2, <2>6, <2>7, <2>8
<1>9. CASE proxyToOrigin
  BY <1>9 DEF proxyToOrigin
<1>10. CASE Relay1xx
  <2>1. /\ pc = "await" /\ pc' = pc /\ conn'.length = conn.length /\ conn'.body = conn.body
        /\ conn'.complete = conn.complete /\ origin' = origin
    BY <1>10, Relay1xxEffect, Zenon
  <2>2. QED
    BY <2>1
<1>11. CASE ErrorHandler
  <2>1. /\ pc = "await" /\ pc' = "return" /\ conn'.body = <<"own">> /\ conn'.length = Undeclared
        /\ conn'.complete = conn.complete
    BY <1>11, ErrorHandlerEffect
  <2>2. QED
    BY <2>1 DEF Whole, Fits
<1>12. CASE RelayHeader
  <2>1. PICK code \in OriginCodes, units \in Nat, length \in Nat \cup {Undeclared} :
              /\ pc = "await" /\ pc' = "copy" /\ conn'.length = length /\ conn'.status = code
              /\ IF code \in Bodiless THEN units = 0 ELSE length \in {units, Undeclared}
              /\ conn'.body = <<>> /\ conn'.complete = conn.complete
              /\ origin' = [via |-> "proxy", units |-> units, left |-> units]
    BY <1>12, RelayHeaderEffect, Zenon
  <2>2. 1 .. units - units = {}
    OBVIOUS
  <2>3. <<>> = [i \in 1 .. units - units |-> "origin"]
    BY <2>2
  <2>4. QED
    BY <2>1, <2>3
<1>13. CASE CopyUnit
  <2>1. /\ pc = "copy" /\ pc' = pc /\ conn'.length = conn.length
        /\ conn'.body = [i \in 1 .. origin.units - origin'.left |-> "origin"]
        /\ origin'.units = origin.units /\ origin'.left = origin.left - 1
        /\ conn'.status = conn.status /\ conn'.complete = conn.complete
    BY <1>13, CopyUnitEffect
  <2>2. origin.left <= origin.units /\ origin.left \in Nat /\ origin.units \in Nat
    BY <2>1 DEF TypeOK
  <2>3. QED
    BY <2>1, <2>2
<1>14. CASE CopyEnds
  <2>1. /\ pc = "copy" /\ UNCHANGED <<depth, conn, origin>> /\ depth = 3
        /\ origin.left <= origin.units
        /\ IF conn.status \in Bodiless THEN origin.units = 0
           ELSE conn.length \in {Undeclared, origin.units}
        /\ conn.body = [i \in 1 .. origin.units - origin.left |-> "origin"]
        /\ origin.left \in Nat /\ origin.units \in Nat /\ conn.body \in Seq(Authors)
        /\ conn.length \in Nat \cup {Undeclared} /\ ~conn.complete
    BY <1>14 DEF CopyEnds, TypeOK, Nested, Authors
  <2>2. Len(conn.body) = origin.units - origin.left
    <3>1. origin.units - origin.left \in Nat
      BY <2>1
    <3>2. DOMAIN conn.body = 1 .. origin.units - origin.left
      BY <2>1
    <3>3. QED
      BY <2>1, <3>1, <3>2, LenProperties
  <2>3. CASE pc' = "return"
    <3>1. origin.left = 0 /\ origin.units - 0 = origin.units
      BY <1>14, <2>1, <2>3 DEF CopyEnds
    <3>2. Whole'
      BY <2>1, <3>1 DEF Whole
    <3>3. Fits'
      <4>1. CASE conn.status \in Bodiless
        BY <2>1, <2>2, <3>1, <4>1 DEF Fits
      <4>2. CASE conn.status \notin Bodiless
        BY <2>1, <2>2, <3>1, <4>2 DEF Fits
      <4>3. QED
        BY <4>1, <4>2
    <3>4. QED
      BY <2>1, <2>3, <3>2, <3>3
  <2>4. CASE pc' = "panic"
    <3>1. conn.status \notin Bodiless /\ (origin.left > 0 \/ conn.length = Undeclared)
      BY <1>14, <2>4 DEF CopyEnds
    <3>2. conn.length = Undeclared \/ Len(conn.body) < conn.length
      BY <2>1, <2>2, <3>1
    <3>3. QED
      BY <2>1, <2>4, <3>1, <3>2
  <2>5. QED
    BY <1>14, <2>3, <2>4 DEF CopyEnds
<1>15. CASE Mux
  <2>1. CASE path = "mux"
    <3>1. /\ pc = "mux" /\ pc' = "return" /\ conn'.length = Undeclared
          /\ conn'.body \in {<<>>, <<"own">>} /\ origin' = origin
          /\ conn'.complete = conn.complete
      BY <1>15, <2>1, MuxEffect
    <3>2. Whole'
      <4>1. origin'.units = 0
        BY <3>1
      <4>2. <<>> = [i \in 1 .. origin'.units |-> "origin"]
        BY <4>1
      <4>3. QED
        BY <3>1, <4>2 DEF Whole
    <3>3. QED
      BY <3>1, <3>2 DEF Fits
  <2>2. CASE path # "mux"
    <3>1. pc = "mux" /\ pc' = "call" /\ conn' = conn /\ origin' = origin
      BY <1>15, <2>2, MuxEffect
    <3>2. QED
      BY <3>1
  <2>3. QED
    BY <2>1, <2>2
<1>16. CASE Abort
  <2>1. /\ pc = "panic" /\ depth = 0 /\ pc' = "done" /\ origin' = origin
        /\ conn'.complete => ~Short /\ conn'.body = conn.body /\ conn'.length = conn.length
    BY <1>16, AbortEffect
  <2>2. QED
    BY <2>1 DEF Whole, ErrorLast, CutEntry
<1>17. CASE UNCHANGED vars
  BY <1>17 DEF vars, Whole, ErrorLast, CutEntry, Short, Fits
<1>18. QED
  BY <1>1, <1>2, <1>3, <1>4, <1>5, <1>6, <1>7, <1>8, <1>9, <1>10, <1>11, <1>12, <1>13, <1>14,
     <1>15, <1>16, <1>17 DEF Next

\* The identifier.
LEMMA IdentifiedStep == IInv /\ [Next]_vars => Identified'
<1> SUFFICES ASSUME IInv, [Next]_vars PROVE Identified'
  OBVIOUS
<1>0. TypeOK /\ Nested /\ Remembered /\ Identified
  BY DEF IInv
<1>a. pc \notin {"mux", "return", "done"} => path # "mux"
  BY <1>0 DEF Nested
<1> USE <1>0, <1>a, ChainFacts DEF Identified
<1>1. CASE Call
  <2>1. /\ pc = "call" /\ pc' = "call" /\ path' = path /\ conn' = conn /\ depth' = depth + 1 /\ depth \in 0 .. 2
        /\ conn.status = 0
        /\ ids' = IF Chain[depth'] = "RequestID" THEN <<"own">> ELSE ids
    BY <1>1 DEF Call, TypeOK, Remembered
  <2>2. CASE depth = 0
    <3>1. ids' = <<"own">>
      BY <2>1, <2>2
    <3>2. OwnFirst(ids')
      BY <3>1 DEF OwnFirst
    <3>3. QED
      BY <2>1, <3>2
  <2>3. CASE depth > 0
    <3>1. ids' = ids
      BY <2>1, <2>3
    <3>2. QED
      BY <2>1, <2>3, <3>1
  <2>4. QED
    BY <2>1, <2>2, <2>3
<1>2. CASE Return
  BY <1>2 DEF Return
<1>3. CASE Recovery
  <2>1. CASE depth = 3
    <3>1. /\ pc = "panic" /\ UNCHANGED <<path, ids>> /\ conn'.info = conn.info
          /\ conn'.ids = IF conn.status # 0 THEN conn.ids ELSE ids
      BY <1>3, <2>1, RecoveryEffect
    <3>2. QED
      BY <3>1
  <2>2. CASE depth # 3
    BY <1>3, <2>2, UnwindEffect
  <2>3. QED
    BY <2>1, <2>2
<1>4. CASE Finish
  BY <1>4, FinishEffect
<1>5. CASE Panic
  BY <1>5 DEF Panic, Handling
<1>6. CASE Refuse \/ FetchFails
  <2>1. PICK code \in Nat :
              /\ pc \in {"call", "handle"} /\ depth = 3 /\ ids' = ids /\ path' = path
              /\ \/ conn'.ids = ids
                 \/ conn' = conn
    BY <1>6, OwnAnswerEffect, Zenon
  <2>2. conn.info = 0
    BY <2>1 DEF Remembered
  <2>3. OwnFirst(ids)
    BY <2>1, <2>2
  <2>4. QED
    BY <2>1, <2>2, <2>3
<1>7. CASE SetForwardedHeaders
  BY <1>7 DEF SetForwardedHeaders, Handling
<1>8. CASE writeEntry
  <2>1. /\ pc = "handle" /\ (OwnFirst(ids) => OwnFirst(ids'))
        /\ conn'.info = conn.info /\ conn'.ids = ids' /\ path' = path
    BY <1>8, EntryEffect, Zenon
  <2>2. QED
    BY <2>1
<1>9. CASE proxyToOrigin
  BY <1>9 DEF proxyToOrigin
<1>10. CASE Relay1xx
  <2>1. conn'.info = conn.info + 1 /\ conn.info \in Nat
    BY <1>10, Relay1xxEffect, Zenon DEF TypeOK
  <2>2. conn'.info # 0
    BY <2>1
  <2>3. QED
    BY <2>2
<1>11. CASE ErrorHandler
  <2>1. ids' = <<"own">> /\ conn'.ids = ids'
    BY <1>11, ErrorHandlerEffect, Zenon
  <2>2. OwnFirst(ids') /\ OwnFirst(conn'.ids)
    BY <2>1 DEF OwnFirst
  <2>3. QED
    BY <2>2
<1>12. CASE RelayHeader
  <2>1. /\ pc = "await" /\ (OwnFirst(ids) => OwnFirst(ids'))
        /\ conn'.info = conn.info /\ conn'.ids = ids' /\ path' = path
    BY <1>12, RelayHeaderEffect, Zenon
  <2>2. QED
    BY <2>1
<1>13. CASE CopyUnit
  BY <1>13, CopyUnitEffect
<1>14. CASE CopyEnds
  BY <1>14 DEF CopyEnds
<1>15. CASE Mux
  BY <1>15, MuxEffect
<1>16. CASE Abort
  BY <1>16, AbortEffect
<1>17. CASE UNCHANGED vars
  BY <1>17 DEF vars
<1>18. QED
  BY <1>1, <1>2, <1>3, <1>4, <1>5, <1>6, <1>7, <1>8, <1>9, <1>10, <1>11, <1>12, <1>13, <1>14,
     <1>15, <1>16, <1>17 DEF Next

\* The addresses.
LEMMA AddressStep == IInv /\ [Next]_vars => NoSpoofedAddress'
<1> SUFFICES ASSUME IInv, [Next]_vars PROVE NoSpoofedAddress'
  OBVIOUS
<1>0. TypeOK /\ NoSpoofedAddress
  BY DEF IInv
<1>a. Peer \in STRING
  BY ForwardedAssumption
<1> USE <1>0 DEF NoSpoofedAddress
<1>1. CASE Call
  BY <1>1 DEF Call
<1>2. CASE Return
  BY <1>2 DEF Return
<1>3. CASE Recovery
  <2>1. CASE depth = 3
    BY <1>3, <2>1, RecoveryEffect
  <2>2. CASE depth # 3
    BY <1>3, <2>2, UnwindEffect
  <2>3. QED
    BY <2>1, <2>2
<1>4. CASE Finish
  BY <1>4, FinishEffect
<1>5. CASE Panic
  BY <1>5 DEF Panic, Handling
<1>6. CASE Refuse \/ FetchFails
  <2>1. pc' \in {"return", "panic"}
    BY <1>6, OwnAnswerEffect
  <2>2. QED
    BY <2>1
<1>7. CASE SetForwardedHeaders
  <2> DEFINE claimed == IF trust /\ xff # <<>> THEN Head(xff) ELSE <<>>
             line == claimed \o <<Peer>>
  <2>1. xff' = <<line>> /\ trust' = trust
    BY <1>7 DEF SetForwardedHeaders
  <2>2. claimed \in Seq(STRING)
    BY HeadTailProperties, EmptySeq DEF TypeOK
  <2>3. ~trust => claimed = <<>>
    OBVIOUS
  <2> HIDE DEF claimed
  <2>4. /\ line \in Seq(STRING) /\ Len(line) = Len(claimed) + 1
        /\ line[Len(claimed) + 1] = Peer
    BY <1>a, <2>2, OneMore
  <2>5. ~trust => Len(claimed) = 0
    BY <2>3
  <2> HIDE DEF line
  <2>6. Len(xff') = 1 /\ xff'[1] = line
    BY <2>1
  <2>7. ~trust => \A i \in DOMAIN line : line[i] = Peer
    BY <2>4, <2>5, LenProperties
  <2>8. line[Len(line)] = Peer
    BY <2>4
  <2>9. QED
    BY <2>1, <2>6, <2>7, <2>8
<1>8. CASE writeEntry
  BY <1>8 DEF writeEntry
<1>9. CASE proxyToOrigin
  <2> DEFINE line == Append(xff[1], Peer)
  <2>1. /\ Len(xff) = 1 /\ trust' = trust /\ xff' = <<Append(Head(xff), Peer)>>
        /\ ~trust => \A i \in DOMAIN xff[1] : xff[1][i] = Peer
    BY <1>9 DEF proxyToOrigin
  <2>2. xff[1] \in Seq(STRING) /\ Head(xff) = xff[1]
    <3>1. xff \in Seq(Seq(STRING)) /\ xff # <<>>
      BY <2>1 DEF TypeOK
    <3>2. Head(xff) \in Seq(STRING) /\ Head(xff) = xff[1]
      BY <3>1, HeadTailProperties
    <3>3. QED
      BY <3>2
  <2>3. /\ line \in Seq(STRING) /\ Len(line) = Len(xff[1]) + 1
        /\ line[Len(xff[1]) + 1] = Peer
        /\ \A i \in 1 .. Len(xff[1]) : line[i] = xff[1][i]
    BY <1>a, <2>2, AppendProperties
  <2>4. DOMAIN xff[1] = 1 .. Len(xff[1]) /\ DOMAIN line = 1 .. Len(line) /\ Len(xff[1]) \in Nat
    BY <2>2, <2>3, LenProperties
  <2>5. xff' = <<line>>
    BY <2>1, <2>2
  <2> HIDE DEF line
  <2>6. Len(xff') = 1 /\ xff'[1] = line
    BY <2>5
  <2>7. ~trust => \A i \in DOMAIN line : line[i] = Peer
    BY <2>1, <2>3, <2>4
  <2>8. line[Len(line)] = Peer
    BY <2>3
  <2>9. QED
    BY <2>1, <2>6, <2>7, <2>8
<1>10. CASE Relay1xx
  BY <1>10 DEF Relay1xx
<1>11. CASE ErrorHandler
  BY <1>11 DEF ErrorHandler
<1>12. CASE RelayHeader
  BY <1>12 DEF RelayHeader
<1>13. CASE CopyUnit
  BY <1>13 DEF CopyUnit
<1>14. CASE CopyEnds
  BY <1>14 DEF CopyEnds
<1>15. CASE Mux
  BY <1>15, MuxEffect
<1>16. CASE Abort
  BY <1>16, AbortEffect
<1>17. CASE UNCHANGED vars
  BY <1>17 DEF vars
<1>18. QED
  BY <1>1, <1>2, <1>3, <1>4, <1>5, <1>6, <1>7, <1>8, <1>9, <1>10, <1>11, <1>12, <1>13, <1>14,
     <1>15, <1>16, <1>17 DEF Next

-----------------------------------------------------------------------------
(* The theorems.                                                           *)

(***************************************************************************)
(* The inductive invariant holds of every request.                         *)
(***************************************************************************)
THEOREM Invariant == Spec => []IInv
<1>1. Init => IInv
  BY InitIInv
<1>2. IInv /\ [Next]_vars => IInv'
  BY TypeOKStep, NestedStep, RememberedStep, CopiedStep, IdentifiedStep, AddressStep DEF IInv
<1>3. QED
  BY <1>1, <1>2, PTL DEF Spec

(***************************************************************************)
(* The variables of a request have their types.                            *)
(***************************************************************************)
THEOREM TypeCorrect == Spec => []TypeOK
<1>1. IInv => TypeOK
  BY DEF IInv
<1>2. QED
  BY <1>1, Invariant, PTL

(***************************************************************************)
(* AccessLog writes exactly one line for a request that the mux leaves to  *)
(* it, also for one whose handler panics, because Recovery stands inside   *)
(* of it; and counts it, unless the path is no label.                      *)
(***************************************************************************)
THEOREM RequestsAreLogged == Spec => []EveryRequestLogged
<1>1. IInv => EveryRequestLogged
  BY DEF IInv, TypeOK, Nested, Logged, EveryRequestLogged
<1>2. QED
  BY <1>1, Invariant, PTL

(***************************************************************************)
(* The status in the access log is the one the client got, for statusWriter*)
(* keeps the first as net/http does.  It is another only after an          *)
(* informational response, for a code net/http refuses and Recovery turns  *)
(* into 500, and when the panic of AccessLog took the answer back.         *)
(***************************************************************************)
THEOREM LogTellsTheStatus == Spec => []LoggedIsSent
<1>1. IInv => LoggedIsSent
  <2>1. SUFFICES ASSUME IInv, pc = "done", NEW i \in DOMAIN log
                 PROVE  \/ log[i] = conn.status
                        \/ Informational(log[i]) /\ conn.info > 0
                        \/ ~Valid(log[i]) /\ conn.status = 500
                        \/ path = "bytes" /\ conn.status = 0
    BY DEF LoggedIsSent
  <2>2. path # "mux" /\ log = <<sw.status>>
    <3>1. log # <<>>
      BY <2>1
    <3>2. QED
      BY <2>1, <3>1 DEF IInv, Nested, Logged
  <2>3. log[i] = sw.status
    BY <2>1, <2>2
  <2>4. Told /\ (conn.status = 0 => path = "bytes")
    BY <2>1, <2>2 DEF IInv, Remembered
  <2>5. QED
    BY <2>3, <2>4 DEF Told
<1>2. QED
  BY <1>1, Invariant, PTL

(***************************************************************************)
(* A client takes an incomplete answer for a complete one only if it ends  *)
(* in the text of Recovery, or comes from an entry that fetchFromOrigin cut*)
(* and that declares no length.                                            *)
(***************************************************************************)
THEOREM CutsAreMarked == Spec => []CutIsMarked
<1>1. IInv => CutIsMarked
  BY DEF IInv, Copied
<1>2. QED
  BY <1>1, Invariant, PTL

(***************************************************************************)
(* The identifier of the RequestID middleware comes first in every answer  *)
(* that no informational one went ahead of.                                *)
(***************************************************************************)
THEOREM OwnIdentifierComesFirst == Spec => []OwnRequestIDFirst
<1>1. IInv => OwnRequestIDFirst
  BY DEF IInv, Identified, Remembered, OwnFirst, OwnRequestIDFirst
<1>2. QED
  BY <1>1, Invariant, PTL

(***************************************************************************)
(* SetForwardedHeaders and the reverse proxy between them leave the origin *)
(* the address of the connection last, and no other unless clients are     *)
(* trusted.                                                                *)
(***************************************************************************)
THEOREM AddressesAreNotSpoofed == Spec => []NoSpoofedAddress
<1>1. IInv => NoSpoofedAddress
  BY DEF IInv
<1>2. QED
  BY <1>1, Invariant, PTL
=============================================================================
