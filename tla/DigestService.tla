--------------------------- MODULE DigestService ---------------------------
(***************************************************************************)
(* DigestService of service.py: /digest commands and scheduled rollups of  *)
(* one channel, each fetching messages, asking the model for a digest,     *)
(* (a command) posting it to the channel, and appending it to the store.   *)
(* Commands and rollups run in threads of their own while messages arrive  *)
(* and periods end.                                                        *)
(*                                                                         *)
(* The store is what DecisionStore and AuditTrail establish: an append is  *)
(* one step under the lock of the channel, which records an entry, skips a *)
(* key that is recorded, or raises, then with or without a trace.  The     *)
(* platform and the model are external.  A message is a number, in order   *)
(* of arrival; whatever fetch_thread is asked for (a replied-to message,   *)
(* the last n, all of them, cut to the maximum) it returns the latest      *)
(* messages from some point on.  A digest is what the model made of them,  *)
(* grounded; asked twice, the model may give different ones.               *)
(***************************************************************************)
EXTENDS Naturals, Sequences, FiniteSets

CONSTANTS
    Commands,     \* invocations of /digest
    Rollups,      \* firings of the rollup job
    Contents,     \* what a digest may say, if anything
    Empty,        \* the digest that says nothing
    Error,        \* a friendly error message
    MaxMessages,  \* bound: messages in the channel
    MaxPeriods    \* bound: rollup periods

ASSUME BoundsAssumption == MaxMessages \in Nat /\ MaxPeriods \in Nat \ {0}
ASSUME KindsAssumption == Commands \cap Rollups = {}
ASSUME ContentsAssumption == Error \notin Contents \cup {Empty}

Requests == Commands \cup Rollups

VARIABLES
    messages,   \* how many messages the channel has
    period,     \* what the period key provider returns
    stage,      \* per request: where its thread is
    work,       \* per request: its thread and key, its calls of the model and
                \* (history) the usable answers, its digest
    replies,    \* per request: what it posted, in order
    log,        \* the Markdown log: key, digest and author of each entry
    processed,  \* the sidecar: the keys, each with who recorded it
    outcome     \* per request: the DigestOutcome in history

world == <<messages, period>>
store == <<log, processed>>
vars == <<world, stage, work, replies, store, outcome>>

Stages == {"idle", "fetch", "ask", "post", "append", "failed", "done", "raised"}

\* compute_digest_key: the set of messages.  No period is 0.
DigestKey(window) == [period |-> 0, window |-> window]

\* compute_rollup_key: the period, whatever the messages.
RollupKey(p) == [period |-> p, window |-> {}]

Keys == [period : 0..MaxPeriods, window : SUBSET (1..MaxMessages)]

Digests == Contents \cup {Empty}

Blank == [key |-> DigestKey({}), window |-> {}, asks |-> 0, answers |-> {}, content |-> Empty]

Init ==
    /\ messages = 0
    /\ period = 1
    /\ stage = [r \in Requests |-> "idle"]
    /\ work = [r \in Requests |-> Blank]
    /\ replies = [r \in Requests |-> <<>>]
    /\ log = <<>>
    /\ processed = {}
    /\ outcome = [r \in Requests |-> "none"]

Goto(r, from, to) == stage[r] = from /\ stage' = [stage EXCEPT ![r] = to]

\* Only a command posts its digest before it is appended.
Digested(r) == IF r \in Commands THEN "post" ELSE "append"

\* handle_digest turns the error into an outcome, a rollup lets it through.
Failed(r) == IF r \in Commands THEN "failed" ELSE "raised"

----------------------------------------------------------------------------
(* Fetching and digesting *)

\* The platform runs the handler, or the scheduler the job: the period key
\* is read first.
Invoke(r) ==
    /\ Goto(r, "idle", "fetch")
    /\ work' = [work EXCEPT ![r].key = IF r \in Rollups THEN RollupKey(period) ELSE @]
    /\ UNCHANGED <<world, replies, store, outcome>>

\* Variant: a rollup is keyed on the messages, like a command.
FetchKeyed(r) ==
    \E first \in 1..(messages + 1) :
        LET window == first..messages IN
        /\ Goto(r, "fetch", IF window = {} THEN Digested(r) ELSE "ask")
        /\ work' = [work EXCEPT ![r].window = window, ![r].key = DigestKey(window)]
        /\ UNCHANGED <<world, replies, store, outcome>>

\* Variant: the key of a command is computed before its window is cut out.
FetchKeyedOnAll(r) ==
    \E first \in 1..(messages + 1) :
        LET window == first..messages IN
        /\ Goto(r, "fetch", IF window = {} THEN Digested(r) ELSE "ask")
        /\ work' = [work EXCEPT ![r].window = window,
                       ![r].key = IF r \in Commands THEN DigestKey(1..messages) ELSE @]
        /\ UNCHANGED <<world, replies, store, outcome>>

\* fetch_thread; the model is not asked about an empty thread.
Fetch(r) ==
    \E first \in 1..(messages + 1) :
        LET window == first..messages IN
        /\ Goto(r, "fetch", IF window = {} THEN Digested(r) ELSE "ask")
        /\ work' = [work EXCEPT ![r].window = window,
                       ![r].key = IF r \in Commands THEN DigestKey(window) ELSE @]
        /\ UNCHANGED <<world, replies, store, outcome>>

\* ThreadNotFoundError or FetchError.
FetchFails(r) ==
    /\ Goto(r, "fetch", Failed(r))
    /\ UNCHANGED <<world, work, replies, store, outcome>>

\* The answer fits the schema; an answer that names nothing, or of which
\* grounding keeps nothing, makes the empty digest.
Answered(r) ==
    /\ Goto(r, "ask", Digested(r))
    /\ \E c \in Digests :
           work' = [work EXCEPT ![r].asks = @ + 1, ![r].answers = @ \cup {c}, ![r].content = c]
    /\ UNCHANGED <<world, replies, store, outcome>>

\* Variant: an unusable answer is taken for an empty one.
MisansweredEmpty(r) ==
    /\ Goto(r, "ask", IF work[r].asks = 0 THEN "ask" ELSE Digested(r))
    /\ work' = [work EXCEPT ![r].asks = @ + 1]
    /\ UNCHANGED <<world, replies, store, outcome>>

\* The answer does not fit the schema: one retry, then LLMError.
Misanswered(r) ==
    /\ Goto(r, "ask", IF work[r].asks = 0 THEN "ask" ELSE Failed(r))
    /\ work' = [work EXCEPT ![r].asks = @ + 1]
    /\ UNCHANGED <<world, replies, store, outcome>>

----------------------------------------------------------------------------
(* Posting and appending *)

PostReply(r) ==
    /\ Goto(r, "post", "append")
    /\ replies' = [replies EXCEPT ![r] = Append(@, work[r].content)]
    /\ UNCHANGED <<world, work, store, outcome>>

IsProcessed(key) == \E p \in processed : p.key = key

Finish(r, result) ==
    /\ Goto(r, "append", "done")
    /\ outcome' = [outcome EXCEPT ![r] = result]
    /\ UNCHANGED <<world, work>>

AppendSkips(r) ==
    /\ IsProcessed(work[r].key)
    /\ Finish(r, "skipped")
    /\ UNCHANGED <<store, replies>>

Record(r, content) ==
    /\ processed' = processed \cup {[key |-> work[r].key, by |-> r]}
    /\ log' = Append(log, [key |-> work[r].key, content |-> content, by |-> r])

\* Variant: no check for the key.
AppendAnyway(r) ==
    /\ Record(r, work[r].content)
    /\ Finish(r, "committed")
    /\ UNCHANGED replies

\* Variant: the thread is digested again for the store.
AppendRedigested(r) ==
    /\ ~IsProcessed(work[r].key)
    /\ \E c \in Digests : Record(r, c)
    /\ Finish(r, "committed")
    /\ UNCHANGED replies

\* Variant: the command handler posts the digest as well.
AppendAndReply(r) ==
    /\ ~IsProcessed(work[r].key)
    /\ Record(r, work[r].content)
    /\ Finish(r, "committed")
    /\ replies' = [replies EXCEPT ![r] = Append(@, work[r].content)]

AppendCommits(r) ==
    /\ ~IsProcessed(work[r].key)
    /\ Record(r, work[r].content)
    /\ Finish(r, "committed")
    /\ UNCHANGED replies

\* append raises before it wrote anything, with only the key written (the
\* entry is lost), or with both written, for the next append to commit.
AppendRaises(r) ==
    /\ Goto(r, "append", "raised")
    /\ \/ UNCHANGED store
       \/ /\ ~IsProcessed(work[r].key)
          /\ processed' = processed \cup {[key |-> work[r].key, by |-> r]}
          /\ UNCHANGED log
       \/ ~IsProcessed(work[r].key) /\ Record(r, work[r].content)
    /\ UNCHANGED <<world, work, replies, outcome>>

\* _on_digest: the outcome goes to history, then the message to the channel.
ReportError(r) ==
    /\ Goto(r, "failed", "done")
    /\ outcome' = [outcome EXCEPT ![r] = "error"]
    /\ replies' = [replies EXCEPT ![r] = Append(@, Error)]
    /\ UNCHANGED <<world, work, store>>

\* post_reply fails with the outcome in history.
ReportRaises(r) ==
    /\ Goto(r, "failed", "raised")
    /\ outcome' = [outcome EXCEPT ![r] = "error"]
    /\ UNCHANGED <<world, work, replies, store>>

\* An error that is not an LLMError leaves the model's client, post_reply
\* fails, or the process is killed: nobody catches it.
Escapes(r) ==
    /\ stage[r] \in {"fetch", "ask", "post"}
    /\ stage' = [stage EXCEPT ![r] = "raised"]
    /\ UNCHANGED <<world, work, replies, store, outcome>>

----------------------------------------------------------------------------
MessageArrives ==
    /\ messages < MaxMessages
    /\ messages' = messages + 1
    /\ UNCHANGED <<period, stage, work, replies, store, outcome>>

PeriodEnds ==
    /\ period < MaxPeriods
    /\ period' = period + 1
    /\ UNCHANGED <<messages, stage, work, replies, store, outcome>>

\* What the thread of a request does once it is invoked.
Step(r) ==
    \/ Fetch(r)
    \/ FetchFails(r)
    \/ Answered(r)
    \/ Misanswered(r)
    \/ PostReply(r)
    \/ AppendSkips(r)
    \/ AppendCommits(r)
    \/ AppendRaises(r)
    \/ ReportError(r)
    \/ ReportRaises(r)
    \/ Escapes(r)

Next ==
    \/ MessageArrives
    \/ PeriodEnds
    \/ \E r \in Requests : Invoke(r) \/ Step(r)

Spec == Init /\ [][Next]_vars

----------------------------------------------------------------------------
(* Properties *)

Work == [key : Keys, window : SUBSET (1..MaxMessages), asks : 0..2,
         answers : SUBSET Digests, content : Digests]

TypeOK ==
    /\ messages \in 0..MaxMessages
    /\ period \in 1..MaxPeriods
    /\ stage \in [Requests -> Stages]
    /\ work \in [Requests -> Work]
    /\ replies \in [Requests -> Seq(Digests \cup {Error})]
    /\ log \in Seq([key : Keys, content : Digests, by : Requests])
    /\ processed \subseteq [key : Keys, by : Requests]
    /\ outcome \in [Requests -> {"none", "committed", "skipped", "error"}]

\* However many commands and rollups race over the same messages or the same
\* period, one of them commits and no key is recorded twice.
OneCommitPerKey ==
    /\ \A r, s \in Requests :
           outcome[r] = "committed" /\ outcome[s] = "committed" /\ work[r].key = work[s].key
             => r = s
    /\ \A i, j \in DOMAIN log : log[i].key = log[j].key => i = j

\* A command that ran to its end posted exactly one reply: its digest, or one
\* error message; a rollup posted none.
OneReplyPerCommand ==
    /\ \A c \in Commands :
           stage[c] = "done" =>
             /\ Len(replies[c]) = 1
             /\ replies[c][1] = Error <=> outcome[c] = "error"
    /\ \A r \in Rollups : replies[r] = <<>>

\* When a command reports a commit, the entry in the log is the digest that
\* the channel was shown.
CommittedIsWhatWasShown ==
    \A c \in Commands :
        outcome[c] = "committed" =>
          \E i \in DOMAIN log :
              log[i].key = work[c].key /\ <<log[i].content>> = replies[c]

\* A rollup is taken for a duplicate only of a rollup of its own period: no
\* digest of the same messages and no earlier period stands in for it.
PeriodsAreIndependent ==
    \A r \in Rollups :
        outcome[r] = "skipped" =>
          \E p \in processed : /\ p.key = work[r].key
                               /\ p.by \in Rollups \ {r}
                               /\ p.key.period > 0

\* The digests a request may show and record: of an empty thread, the empty
\* one; of any other, what the model made of it in a usable answer.
Founded(r) == IF work[r].window = {} THEN {Empty} ELSE work[r].answers

\* An unusable or missing answer never becomes a digest that is posted or
\* recorded, the empty one least of all, whatever is retried: "nothing was
\* decided" is said of an empty thread, or because the model said so.
NoDigestWithoutAnswer ==
    /\ \A i \in DOMAIN log : log[i].content \in Founded(log[i].by)
    /\ \A r \in Requests : \A i \in DOMAIN replies[r] :
           replies[r][i] \in Founded(r) \cup {Error}

\* A digest is posted before it is appended, and the append may skip it.  A
\* command that ends without an error has its messages on record all the
\* same: the key is that of a command over exactly these messages, never of a
\* rollup or of another window, and its entry is in the log unless the append
\* that recorded the key raised.
PostedIsOnRecord ==
    \A c \in Commands :
        outcome[c] \in {"committed", "skipped"} =>
          \E p \in processed :
              /\ p.by \in Commands
              /\ work[p.by].window = work[c].window
              /\ stage[p.by] = "raised" \/ \E i \in DOMAIN log : log[i].by = p.by

----------------------------------------------------------------------------
(* Refinement *)

\* What became of the append of a request: not there yet or over without a
\* commit, under way, or committed.
AppendCall(r) ==
    [state |-> CASE stage[r] = "append" -> "called"
                 [] outcome[r] = "committed" -> "committed"
                 [] OTHER -> "idle",
     key |-> IF stage[r] = "append" \/ outcome[r] = "committed" THEN work[r].key
             ELSE Blank.key]

Store == INSTANCE AtomicAppend WITH
    Callers <- Requests,
    Files <- {"log"},
    FileOf <- [k \in Keys |-> "log"],
    NoKey <- Blank.key,
    trail <- [f \in {"log"} |-> [i \in DOMAIN log |-> log[i].key]],
    marked <- [f \in {"log"} |-> {p.key : p \in processed}],
    calls <- [r \in Requests |-> AppendCall(r)]

\* The requests use the store as an atomic append, which DecisionStore shows
\* it to be: the service rests on nothing else of it.
UsesAtomicAppend == Store!Spec
=============================================================================
