---------------------------- MODULE WebhookSink ----------------------------
(***************************************************************************)
(* HttpWebhookSink of webhook.py: each delivery is posted to every         *)
(* endpoint in turn, with a bounded number of attempts and a backoff.      *)
(* Deliveries of different appends are sent by different threads, since    *)
(* DecisionStore exports outside its lock.                                 *)
(*                                                                         *)
(* A post has four outcomes: the endpoint takes it and the sink hears so;  *)
(* it takes it but the answer is lost (a timeout); it does not take it;    *)
(* or the answer is not HTTP, and http.client raises an HTTPException,     *)
(* which is none of the errors _post_with_retries catches.  A status that  *)
(* urllib does not raise for counts as taken: the code ignores it.         *)
(***************************************************************************)
EXTENDS Naturals

CONSTANTS
    Deliveries,    \* delivery ids: one per (channel, digest key)
    Urls,          \* how many endpoints there are, in order
    MaxAttempts,   \* max_attempts
    Malformed,     \* whether an endpoint may answer with something not HTTP
    MaxSends       \* bound: how often one delivery is handed to the sink

ASSUME UrlsAssumption == Urls \in Nat \ {0}
ASSUME MaxAttemptsAssumption == MaxAttempts \in Nat \ {0}
ASSUME MalformedAssumption == Malformed \in BOOLEAN
ASSUME MaxSendsAssumption == MaxSends \in Nat

VARIABLES
    sending,   \* per delivery: idle, posting, backoff, returned or raised
    url,       \* per delivery: the endpoint send is at
    attempt,   \* per delivery: the attempt _post_with_retries is at
    sends,     \* per delivery: calls of send
    tried,     \* per delivery and endpoint: posts made in the current send
    taken,     \* per delivery and endpoint: copies the endpoint has taken
    lost       \* per delivery and endpoint: copies it took without our hearing

vars == <<sending, url, attempt, sends, tried, taken, lost>>

Endpoints == 1..Urls

Init ==
    /\ sending = [d \in Deliveries |-> "idle"]
    /\ url = [d \in Deliveries |-> 1]
    /\ attempt = [d \in Deliveries |-> 1]
    /\ sends = [d \in Deliveries |-> 0]
    /\ tried = [d \in Deliveries |-> [u \in Endpoints |-> 0]]
    /\ taken = [d \in Deliveries |-> [u \in Endpoints |-> 0]]
    /\ lost = [d \in Deliveries |-> [u \in Endpoints |-> 0]]

\* The sink is handed a delivery, for the first time or again.
Send(d) ==
    /\ sending[d] \in {"idle", "returned", "raised"}
    /\ sends[d] < MaxSends
    /\ sending' = [sending EXCEPT ![d] = "posting"]
    /\ url' = [url EXCEPT ![d] = 1]
    /\ attempt' = [attempt EXCEPT ![d] = 1]
    /\ sends' = [sends EXCEPT ![d] = @ + 1]
    /\ tried' = [tried EXCEPT ![d] = [u \in Endpoints |-> 0]]
    /\ UNCHANGED <<taken, lost>>

\* One POST of d to the endpoint it is at: the counters of what happened.
Post(d, isTaken, isLost) ==
    /\ sending[d] = "posting"
    /\ tried' = [tried EXCEPT ![d][url[d]] = @ + 1]
    /\ taken' = [taken EXCEPT ![d][url[d]] = IF isTaken THEN @ + 1 ELSE @]
    /\ lost' = [lost EXCEPT ![d][url[d]] = IF isLost THEN @ + 1 ELSE @]
    /\ UNCHANGED sends

\* Variant: the first endpoint that fails ends the send.
StopHere(d) ==
    /\ sending' = [sending EXCEPT ![d] = "returned"]
    /\ UNCHANGED <<url, attempt>>

\* _post_with_retries returned: on to the next endpoint, or send returns.
NextUrl(d) ==
    IF url[d] < Urls
      THEN /\ url' = [url EXCEPT ![d] = @ + 1]
           /\ attempt' = [attempt EXCEPT ![d] = 1]
           /\ UNCHANGED sending
      ELSE /\ sending' = [sending EXCEPT ![d] = "returned"]
           /\ UNCHANGED <<url, attempt>>

\* Variant: the answer to a post is not looked at.
AcceptedRetries(d) ==
    /\ Post(d, TRUE, FALSE)
    /\ IF attempt[d] < MaxAttempts
         THEN /\ sending' = [sending EXCEPT ![d] = "backoff"]
              /\ UNCHANGED <<url, attempt>>
         ELSE NextUrl(d)

Accepted(d) == Post(d, TRUE, FALSE) /\ NextUrl(d)

\* Variant: an endpoint that fails for good ends the send.
RetriedOrStop(d) ==
    IF attempt[d] < MaxAttempts
      THEN /\ sending' = [sending EXCEPT ![d] = "backoff"]
           /\ UNCHANGED <<url, attempt>>
      ELSE StopHere(d)

\* URLError, OSError or ValueError: sleep and retry, or give up on the
\* endpoint after the last attempt.
Retried(d) ==
    IF attempt[d] < MaxAttempts
      THEN /\ sending' = [sending EXCEPT ![d] = "backoff"]
           /\ UNCHANGED <<url, attempt>>
      ELSE NextUrl(d)

Refused(d) == Post(d, FALSE, FALSE) /\ Retried(d)

AnswerLost(d) == Post(d, TRUE, TRUE) /\ Retried(d)

\* HTTPException leaves send; DecisionStore._export swallows it.
AnswerMalformed(d) ==
    /\ Malformed
    /\ \E isTaken \in BOOLEAN : Post(d, isTaken, isTaken)
    /\ sending' = [sending EXCEPT ![d] = "raised"]
    /\ UNCHANGED <<url, attempt>>

\* The backoff is over.
Wake(d) ==
    /\ sending[d] = "backoff"
    /\ sending' = [sending EXCEPT ![d] = "posting"]
    /\ attempt' = [attempt EXCEPT ![d] = @ + 1]
    /\ UNCHANGED <<url, sends, tried, taken, lost>>

Step(d) ==
    \/ Accepted(d)
    \/ Refused(d)
    \/ AnswerLost(d)
    \/ AnswerMalformed(d)
    \/ Wake(d)

Next == \E d \in Deliveries : Send(d) \/ Step(d)

Spec == Init /\ [][Next]_vars

----------------------------------------------------------------------------
(* Properties *)

TypeOK ==
    /\ sending \in [Deliveries -> {"idle", "posting", "backoff", "returned", "raised"}]
    /\ url \in [Deliveries -> Endpoints]
    /\ attempt \in [Deliveries -> 1..MaxAttempts]
    /\ sends \in [Deliveries -> 0..MaxSends]
    /\ tried \in [Deliveries -> [Endpoints -> Nat]]
    /\ taken \in [Deliveries -> [Endpoints -> Nat]]
    /\ lost \in [Deliveries -> [Endpoints -> Nat]]

\* A send that returns has tried every endpoint, whatever the ones before
\* did: one failing never stops the others.  It has tried none more often than
\* max_attempts, the first attempt included, and slept after none that was the
\* last.
EveryEndpointTried ==
    \A d \in Deliveries :
        /\ sending[d] = "returned" => \A u \in Endpoints : tried[d][u] \in 1..MaxAttempts
        /\ sending[d] = "backoff" => tried[d][url[d]] < MaxAttempts

\* An endpoint gets a second copy of a delivery only when the answer to an
\* earlier one was lost, or when the delivery was sent again.
DuplicatesAreRetries ==
    \A d \in Deliveries, u \in Endpoints : taken[d][u] <= sends[d] + lost[d][u]

\* send never raises, so that no endpoint misses what another has broken.
SendNeverRaises == \A d \in Deliveries : sending[d] # "raised"
=============================================================================
