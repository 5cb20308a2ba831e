------------------------- MODULE WebhookSink_proofs -------------------------
(***************************************************************************)
(* What holds of HttpWebhookSink for any number of endpoints, attempts,    *)
(* deliveries and sends.                                                   *)
(***************************************************************************)
EXTENDS WebhookSink, TLAPS

\* The posts of the current send: all of them for the endpoints before the
\* one send is at, the attempt counter for that one, none after it.
TriedAt(d, u) ==
    /\ sending[d] # "idle" /\ u < url[d] => tried[d][u] \in 1..MaxAttempts
    /\ sending[d] = "posting" /\ u = url[d] => tried[d][u] = attempt[d] - 1
    /\ sending[d] = "backoff" /\ u = url[d] =>
         tried[d][u] = attempt[d] /\ attempt[d] < MaxAttempts
    /\ sending[d] = "returned" => tried[d][u] \in 1..MaxAttempts
    /\ sending[d] = "raised" => tried[d][u] \in 0..MaxAttempts
    /\ (sending[d] = "idle" \/ (u > url[d] /\ sending[d] # "returned")) => tried[d][u] = 0

\* The copies of earlier sends are paid for by those sends; the current one
\* adds a copy that was heard of only when it leaves the endpoint.
TakenAt(d, u) ==
    /\ taken[d][u] <= sends[d] + lost[d][u]
    /\ sending[d] \in {"posting", "backoff"} /\ u >= url[d] =>
         taken[d][u] < sends[d] + lost[d][u]

\* The inductive invariant.
SinkInv ==
    /\ TypeOK
    /\ \A d \in Deliveries, u \in Endpoints : TriedAt(d, u) /\ TakenAt(d, u)

----------------------------------------------------------------------------
LEMMA SinkInvInit == Init => SinkInv
<1> SUFFICES ASSUME Init PROVE SinkInv
  OBVIOUS
<1>1. 1 \in Endpoints /\ 1 \in 1..MaxAttempts
  BY UrlsAssumption, MaxAttemptsAssumption DEF Endpoints
<1>2. TypeOK
  BY <1>1, MaxSendsAssumption DEF Init, TypeOK
<1>3. \A d \in Deliveries, u \in Endpoints : TriedAt(d, u) /\ TakenAt(d, u)
  BY DEF Init, TriedAt, TakenAt, Endpoints
<1> QED BY <1>2, <1>3 DEF SinkInv

\* The values of one delivery.
LEMMA DeliveryType ==
    ASSUME TypeOK, NEW d \in Deliveries
    PROVE  /\ url[d] \in Endpoints
           /\ attempt[d] \in 1..MaxAttempts
           /\ sends[d] \in Nat
           /\ \A u \in Endpoints :
                  tried[d][u] \in Nat /\ taken[d][u] \in Nat /\ lost[d][u] \in Nat
<1>1. sends[d] \in 0..MaxSends
  BY DEF TypeOK
<1>2. sends[d] \in Nat
  BY <1>1, MaxSendsAssumption
<1> QED BY <1>2 DEF TypeOK

\* What a post does to the counters.
LEMMA PostCounts ==
    ASSUME TypeOK, NEW d \in Deliveries, NEW t \in BOOLEAN, NEW l \in BOOLEAN,
           Post(d, t, l)
    PROVE  /\ tried' \in [Deliveries -> [Endpoints -> Nat]]
           /\ taken' \in [Deliveries -> [Endpoints -> Nat]]
           /\ lost' \in [Deliveries -> [Endpoints -> Nat]]
           /\ \A e \in Deliveries, u \in Endpoints :
                  (e # d \/ u # url[d]) =>
                    /\ tried'[e][u] = tried[e][u]
                    /\ taken'[e][u] = taken[e][u]
                    /\ lost'[e][u] = lost[e][u]
           /\ tried'[d][url[d]] = tried[d][url[d]] + 1
           /\ taken'[d][url[d]] = IF t THEN taken[d][url[d]] + 1 ELSE taken[d][url[d]]
           /\ lost'[d][url[d]] = IF l THEN lost[d][url[d]] + 1 ELSE lost[d][url[d]]
           /\ sends' = sends
           /\ sending[d] = "posting"
<1>1. url[d] \in Endpoints /\ tried[d] \in [Endpoints -> Nat]
        /\ taken[d] \in [Endpoints -> Nat] /\ lost[d] \in [Endpoints -> Nat]
  BY DEF TypeOK
<1>2. tried' = [tried EXCEPT ![d] = [tried[d] EXCEPT ![url[d]] = tried[d][url[d]] + 1]]
  BY DEF Post
<1>3. taken' = [taken EXCEPT ![d] = [taken[d] EXCEPT ![url[d]] =
                   IF t THEN taken[d][url[d]] + 1 ELSE taken[d][url[d]]]]
  BY DEF Post
<1>4. lost' = [lost EXCEPT ![d] = [lost[d] EXCEPT ![url[d]] =
                   IF l THEN lost[d][url[d]] + 1 ELSE lost[d][url[d]]]]
  BY DEF Post
<1>5. tried' \in [Deliveries -> [Endpoints -> Nat]]
  BY <1>1, <1>2 DEF TypeOK
<1>6. taken' \in [Deliveries -> [Endpoints -> Nat]]
  BY <1>1, <1>3 DEF TypeOK
<1>7. lost' \in [Deliveries -> [Endpoints -> Nat]]
  BY <1>1, <1>4 DEF TypeOK
<1>8. \A e \in Deliveries, u \in Endpoints :
          (e # d \/ u # url[d]) => /\ tried'[e][u] = tried[e][u]
                                   /\ taken'[e][u] = taken[e][u]
                                   /\ lost'[e][u] = lost[e][u]
  BY <1>1, <1>2, <1>3, <1>4 DEF TypeOK
<1>9. tried'[d][url[d]] = tried[d][url[d]] + 1
  BY <1>1, <1>2 DEF TypeOK
<1>10. taken'[d][url[d]] = IF t THEN taken[d][url[d]] + 1 ELSE taken[d][url[d]]
  BY <1>1, <1>3 DEF TypeOK
<1>11. lost'[d][url[d]] = IF l THEN lost[d][url[d]] + 1 ELSE lost[d][url[d]]
  BY <1>1, <1>4 DEF TypeOK
<1>12. sends' = sends /\ sending[d] = "posting"
  BY DEF Post
<1> QED BY <1>5, <1>6, <1>7, <1>8, <1>9, <1>10, <1>11, <1>12

\* Only the delivery that takes a step is disturbed.
LEMMA OthersKept ==
    ASSUME SinkInv, NEW d \in Deliveries, NEW e \in Deliveries, NEW u \in Endpoints,
           sending'[e] = sending[e], url'[e] = url[e], attempt'[e] = attempt[e],
           sends'[e] = sends[e], tried'[e][u] = tried[e][u],
           taken'[e][u] = taken[e][u], lost'[e][u] = lost[e][u]
    PROVE  TriedAt(e, u)' /\ TakenAt(e, u)'
BY DEF SinkInv, TriedAt, TakenAt

\* A post after which send leaves the endpoint.  If the endpoint took it, it
\* had not been heard to take it before.
LEMMA LeaveEndpoint ==
    ASSUME SinkInv, NEW d \in Deliveries, NEW t \in BOOLEAN, NEW l \in BOOLEAN,
           Post(d, t, l), NextUrl(d)
    PROVE  SinkInv'
<1>0. TypeOK /\ sending[d] = "posting"
  BY DEF SinkInv, Post
<1>1. /\ TypeOK
      /\ url[d] \in 1..Urls /\ Urls \in Nat /\ attempt[d] \in 1..MaxAttempts
      /\ MaxAttempts \in Nat /\ url[d] \in Endpoints /\ sends[d] \in Nat
      /\ sending[d] = "posting"
  BY <1>0, DeliveryType, UrlsAssumption, MaxAttemptsAssumption DEF Endpoints
<1>2. /\ \A u \in Endpoints : TriedAt(d, u) /\ TakenAt(d, u)
      /\ \A u \in Endpoints : tried[d][u] \in Nat /\ taken[d][u] \in Nat /\ lost[d][u] \in Nat
  BY <1>1 DEF SinkInv, TypeOK
<1>3. \/ /\ url[d] < Urls
         /\ url' = [url EXCEPT ![d] = url[d] + 1]
         /\ attempt' = [attempt EXCEPT ![d] = 1]
         /\ sending' = sending
      \/ /\ url[d] = Urls
         /\ sending' = [sending EXCEPT ![d] = "returned"]
         /\ url' = url /\ attempt' = attempt
  BY <1>1 DEF NextUrl
<1>4. TypeOK'
  <2>1. sending' \in [Deliveries -> {"idle", "posting", "backoff", "returned", "raised"}]
    BY <1>1, <1>3 DEF TypeOK
  <2>2. url' \in [Deliveries -> Endpoints]
    <3>1. url[d] < Urls => url[d] + 1 \in Endpoints
      BY <1>1 DEF Endpoints
    <3> QED BY <1>1, <1>3, <3>1 DEF TypeOK
  <2>3. attempt' \in [Deliveries -> 1..MaxAttempts]
    <3>1. 1 \in 1..MaxAttempts
      BY MaxAttemptsAssumption
    <3> QED BY <1>1, <1>3, <3>1 DEF TypeOK
  <2>4. sends' \in [Deliveries -> 0..MaxSends]
    BY <1>1, PostCounts DEF TypeOK
  <2>5. /\ tried' \in [Deliveries -> [Endpoints -> Nat]]
        /\ taken' \in [Deliveries -> [Endpoints -> Nat]]
        /\ lost' \in [Deliveries -> [Endpoints -> Nat]]
    BY <1>1, PostCounts
  <2> QED BY <2>1, <2>2, <2>3, <2>4, <2>5 DEF TypeOK
<1>5. ASSUME NEW e \in Deliveries, NEW u \in Endpoints
      PROVE  TriedAt(e, u)' /\ TakenAt(e, u)'
  <2>1. CASE e # d
    BY <2>1, <1>1, <1>3, PostCounts, OthersKept DEF TypeOK
  <2>2. CASE e = d
    <3>1. u \in 1..Urls
      BY DEF Endpoints
    <3>2. /\ u # url[d] => tried'[d][u] = tried[d][u]
          /\ u # url[d] => taken'[d][u] = taken[d][u] /\ lost'[d][u] = lost[d][u]
          /\ u = url[d] => tried'[d][u] = tried[d][u] + 1
          /\ u = url[d] => taken'[d][u] <= taken[d][u] + 1 /\ lost'[d][u] >= lost[d][u]
          /\ lost'[d][u] \in Nat /\ taken'[d][u] \in Nat /\ tried'[d][u] \in Nat
          /\ sends'[d] = sends[d]
      BY <1>1, <1>2, PostCounts
    <3>3. CASE url[d] < Urls
      <4>1. url'[d] = url[d] + 1 /\ attempt'[d] = 1 /\ sending'[d] = "posting"
        BY <3>3, <1>1, <1>3 DEF TypeOK
      <4> QED BY <2>2, <3>1, <3>2, <4>1, <1>1, <1>2 DEF TriedAt, TakenAt
    <3>4. CASE url[d] = Urls
      <4>1. url'[d] = Urls /\ attempt'[d] = attempt[d] /\ sending'[d] = "returned"
        BY <3>4, <1>1, <1>3 DEF TypeOK
      <4> QED BY <2>2, <3>1, <3>2, <3>4, <4>1, <1>1, <1>2 DEF TriedAt, TakenAt
    <3> QED BY <3>3, <3>4, <1>3
  <2> QED BY <2>1, <2>2
<1> QED BY <1>4, <1>5 DEF SinkInv

\* A post after which send stays at the endpoint: it has been refused, or the
\* answer was lost, and there are attempts left; or send is over.
LEMMA StayAtEndpoint ==
    ASSUME SinkInv, NEW d \in Deliveries, NEW t \in BOOLEAN, NEW l \in BOOLEAN,
           Post(d, t, l), t => l, NEW s \in {"backoff", "raised"},
           s = "backoff" => attempt[d] < MaxAttempts,
           sending' = [sending EXCEPT ![d] = s], UNCHANGED <<url, attempt>>
    PROVE  SinkInv'
<1>0. TypeOK /\ sending[d] = "posting"
  BY DEF SinkInv, Post
<1>1. /\ url[d] \in 1..Urls /\ Urls \in Nat /\ attempt[d] \in 1..MaxAttempts
      /\ MaxAttempts \in Nat /\ url[d] \in Endpoints /\ sends[d] \in Nat
  BY <1>0, DeliveryType, UrlsAssumption, MaxAttemptsAssumption DEF Endpoints
<1>2. /\ \A u \in Endpoints : TriedAt(d, u) /\ TakenAt(d, u)
      /\ \A u \in Endpoints : tried[d][u] \in Nat /\ taken[d][u] \in Nat /\ lost[d][u] \in Nat
  BY <1>0, DeliveryType DEF SinkInv
<1>3. TypeOK'
  <2>1. sending' \in [Deliveries -> {"idle", "posting", "backoff", "returned", "raised"}]
    BY <1>0 DEF TypeOK
  <2>2. sends' \in [Deliveries -> 0..MaxSends]
    BY <1>0, PostCounts DEF TypeOK
  <2>3. /\ tried' \in [Deliveries -> [Endpoints -> Nat]]
        /\ taken' \in [Deliveries -> [Endpoints -> Nat]]
        /\ lost' \in [Deliveries -> [Endpoints -> Nat]]
    BY <1>0, PostCounts
  <2> QED BY <1>0, <2>1, <2>2, <2>3 DEF TypeOK
<1>4. ASSUME NEW e \in Deliveries, NEW u \in Endpoints
      PROVE  TriedAt(e, u)' /\ TakenAt(e, u)'
  <2>1. CASE e # d
    BY <2>1, <1>0, PostCounts, OthersKept DEF TypeOK
  <2>2. CASE e = d
    <3>1. u \in 1..Urls /\ sending'[d] = s /\ url'[d] = url[d] /\ attempt'[d] = attempt[d]
      BY <1>0 DEF Endpoints, TypeOK
    <3>2. /\ u # url[d] => tried'[d][u] = tried[d][u]
          /\ u # url[d] => taken'[d][u] = taken[d][u] /\ lost'[d][u] = lost[d][u]
          /\ u = url[d] => tried'[d][u] = tried[d][u] + 1
          /\ u = url[d] => \/ taken'[d][u] = taken[d][u] /\ lost'[d][u] >= lost[d][u]
                           \/ taken'[d][u] = taken[d][u] + 1 /\ lost'[d][u] = lost[d][u] + 1
          /\ lost'[d][u] \in Nat /\ taken'[d][u] \in Nat /\ tried'[d][u] \in Nat
          /\ sends'[d] = sends[d]
      BY <1>0, <1>1, <1>2, PostCounts
    <3> QED BY <2>2, <3>1, <3>2, <1>0, <1>1, <1>2 DEF TriedAt, TakenAt
  <2> QED BY <2>1, <2>2
<1> QED BY <1>3, <1>4 DEF SinkInv

\* Every step keeps the invariant.
LEMMA SinkInvStep == SinkInv /\ [Next]_vars => SinkInv'
<1> SUFFICES ASSUME SinkInv, [Next]_vars PROVE SinkInv'
  OBVIOUS
<1>1. ASSUME NEW d \in Deliveries, Send(d) PROVE SinkInv'
  <2>1. 1 \in Endpoints /\ 1 \in 1..MaxAttempts
    BY UrlsAssumption, MaxAttemptsAssumption DEF Endpoints
  <2>2. TypeOK /\ sends[d] \in 0..MaxSends
    BY DEF SinkInv, TypeOK
  <2>3. sends' \in [Deliveries -> 0..MaxSends]
    BY <1>1, <2>2, MaxSendsAssumption DEF Send, TypeOK
  <2>4. TypeOK'
    BY <1>1, <2>1, <2>2, <2>3 DEF Send, TypeOK
  <2>5. ASSUME NEW e \in Deliveries, NEW u \in Endpoints
        PROVE  TriedAt(e, u)' /\ TakenAt(e, u)'
    <3>1. CASE e # d
      BY <3>1, <1>1, <2>2, OthersKept DEF Send, TypeOK
    <3>2. CASE e = d
      <4>1. /\ sending'[d] = "posting" /\ url'[d] = 1 /\ attempt'[d] = 1
            /\ sends'[d] = sends[d] + 1 /\ tried'[d][u] = 0
            /\ taken' = taken /\ lost' = lost
        BY <1>1, <2>2 DEF Send, TypeOK
      <4>2. taken[d][u] <= sends[d] + lost[d][u] /\ u \in 1..Urls
        BY DEF SinkInv, TakenAt, Endpoints
      <4>3. taken[d][u] \in Nat /\ lost[d][u] \in Nat /\ sends[d] \in Nat
        BY <2>2, DeliveryType
      <4> QED BY <3>2, <4>1, <4>2, <4>3, UrlsAssumption DEF TriedAt, TakenAt
    <3> QED BY <3>1, <3>2
  <2> QED BY <2>4, <2>5 DEF SinkInv
<1>2. ASSUME NEW d \in Deliveries, Accepted(d) PROVE SinkInv'
  BY <1>2, LeaveEndpoint DEF Accepted
<1>3. ASSUME NEW d \in Deliveries, NEW t \in BOOLEAN, Post(d, t, t), Retried(d)
      PROVE  SinkInv'
  <2>1. CASE attempt[d] < MaxAttempts
    BY <2>1, <1>3, StayAtEndpoint DEF Retried
  <2>2. CASE ~(attempt[d] < MaxAttempts)
    BY <2>2, <1>3, LeaveEndpoint DEF Retried
  <2> QED BY <2>1, <2>2
<1>4. ASSUME NEW d \in Deliveries, Refused(d) PROVE SinkInv'
  BY <1>3, <1>4 DEF Refused
<1>5. ASSUME NEW d \in Deliveries, AnswerLost(d) PROVE SinkInv'
  BY <1>3, <1>5 DEF AnswerLost
<1>6. ASSUME NEW d \in Deliveries, AnswerMalformed(d) PROVE SinkInv'
  <2>1. PICK t \in BOOLEAN : Post(d, t, t)
    BY <1>6 DEF AnswerMalformed
  <2> QED BY <1>6, <2>1, StayAtEndpoint DEF AnswerMalformed
<1>7. ASSUME NEW d \in Deliveries, Wake(d) PROVE SinkInv'
  <2>1. /\ TypeOK /\ sending[d] = "backoff" /\ url[d] \in Endpoints
        /\ attempt[d] \in 1..MaxAttempts /\ MaxAttempts \in Nat /\ sends[d] \in Nat
    BY <1>7, DeliveryType, MaxAttemptsAssumption DEF SinkInv, Wake
  <2>2. attempt[d] < MaxAttempts
    BY <2>1 DEF SinkInv, TriedAt
  <2>3. TypeOK'
    <3>1. attempt' \in [Deliveries -> 1..MaxAttempts]
      BY <1>7, <2>1, <2>2 DEF Wake, TypeOK
    <3> QED BY <1>7, <2>1, <3>1 DEF Wake, TypeOK
  <2>4. ASSUME NEW e \in Deliveries, NEW u \in Endpoints
        PROVE  TriedAt(e, u)' /\ TakenAt(e, u)'
    <3>1. CASE e # d
      BY <3>1, <1>7, <2>1, OthersKept DEF Wake, TypeOK
    <3>2. CASE e = d
      <4>1. /\ sending'[d] = "posting" /\ attempt'[d] = attempt[d] + 1
            /\ url' = url /\ sends' = sends /\ tried' = tried /\ taken' = taken /\ lost' = lost
        BY <1>7, <2>1 DEF Wake, TypeOK
      <4>2. TriedAt(d, u) /\ TakenAt(d, u)
        BY DEF SinkInv
      <4>3. u \in Nat /\ url[d] \in Nat
        BY <2>1, UrlsAssumption DEF Endpoints
      <4> QED BY <3>2, <2>1, <4>1, <4>2, <4>3 DEF TriedAt, TakenAt
    <3> QED BY <3>1, <3>2
  <2> QED BY <2>3, <2>4 DEF SinkInv
<1>8. CASE UNCHANGED vars
  BY <1>8 DEF vars, SinkInv, TypeOK, TriedAt, TakenAt
<1> QED BY <1>1, <1>2, <1>4, <1>5, <1>6, <1>7, <1>8 DEF Next, Step

----------------------------------------------------------------------------
THEOREM SinkInvariant == Spec => []SinkInv
BY SinkInvInit, SinkInvStep, PTL DEF Spec

\* HttpWebhookSink.send never leaves its type: attempts never exceed
\* max_attempts, the loop never runs past the last endpoint.
THEOREM TypeCorrect == Spec => []TypeOK
<1>1. SinkInv => TypeOK
  BY DEF SinkInv
<1> QED BY <1>1, SinkInvariant, PTL

\* A send that returns has posted to every endpoint, whatever the others did,
\* and to none more than max_attempts times; no attempt that was the last is
\* followed by a sleep.
THEOREM AllTried == Spec => []EveryEndpointTried
<1>1. SinkInv => EveryEndpointTried
  <2> SUFFICES ASSUME SinkInv, NEW d \in Deliveries
               PROVE  /\ sending[d] = "returned" =>
                           \A u \in Endpoints : tried[d][u] \in 1..MaxAttempts
                      /\ sending[d] = "backoff" => tried[d][url[d]] < MaxAttempts
    BY DEF EveryEndpointTried
  <2>1. url[d] \in Endpoints /\ \A u \in Endpoints : TriedAt(d, u)
    BY DEF SinkInv, TypeOK
  <2>2. TriedAt(d, url[d])
    BY <2>1
  <2>3. sending[d] = "backoff" => tried[d][url[d]] < MaxAttempts
    BY <2>2 DEF TriedAt
  <2>4. sending[d] = "returned" => \A u \in Endpoints : tried[d][u] \in 1..MaxAttempts
    BY <2>1 DEF TriedAt
  <2> QED BY <2>3, <2>4
<1> QED BY <1>1, SinkInvariant, PTL

\* A second copy at an endpoint is explained by a lost answer or another send.
THEOREM Duplicates == Spec => []DuplicatesAreRetries
<1>1. SinkInv => DuplicatesAreRetries
  BY DEF SinkInv, TakenAt, DuplicatesAreRetries
<1> QED BY <1>1, SinkInvariant, PTL
=============================================================================
