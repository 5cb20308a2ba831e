------------------------ MODULE DigestService_proofs ------------------------
(***************************************************************************)
(* What holds of DigestService for any number of commands, rollups,        *)
(* messages and periods.                                                   *)
(***************************************************************************)
EXTENDS DigestService, TLAPS

Before == {"idle", "fetch", "ask", "post", "failed"}
Over == {"done", "raised"}

\* The model was not asked before its stage, and at most once at it.
AsksInv ==
    \A r \in Requests :
        /\ stage[r] \in {"idle", "fetch"} => work[r].asks = 0
        /\ stage[r] = "ask" => work[r].asks <= 1

\* Keys of commands and of rollups are apart, and that of a command is its
\* set of messages.
KindInv ==
    \A r \in Requests :
        IF r \in Commands THEN work[r].key = DigestKey(work[r].window)
        ELSE stage[r] # "idle" => work[r].key.period > 0

\* A key is recorded by a request that is over, under the key it still has.
ProcessedInv ==
    /\ \A p \in processed : stage[p.by] \in Over /\ p.key = work[p.by].key
    /\ \A p, q \in processed : p.key = q.key => p = q

\* A key without its entry was recorded by an append that raised.
EntryInv ==
    \A p \in processed : stage[p.by] = "raised" \/ \E i \in DOMAIN log : log[i].by = p.by

\* An entry has its key in the sidecar, and no other entry has it.
LogInv ==
    /\ \A i \in DOMAIN log : [key |-> log[i].key, by |-> log[i].by] \in processed
    /\ \A i, j \in DOMAIN log : log[i].key = log[j].key => i = j

\* A request that committed recorded its key; one that was skipped found it
\* recorded by another.
OutcomeInv ==
    \A r \in Requests :
        /\ stage[r] \notin Over => outcome[r] = "none"
        /\ outcome[r] = "committed" => [key |-> work[r].key, by |-> r] \in processed
        /\ outcome[r] = "skipped" => \E p \in processed : p.key = work[r].key /\ p.by # r

\* Nothing is posted before the digest is, and then it is that digest.
ReplyInv ==
    /\ \A c \in Commands :
           /\ stage[c] \in Before => replies[c] = <<>>
           /\ stage[c] = "append" => replies[c] = <<work[c].content>>
    /\ \A r \in Rollups : replies[r] = <<>> /\ stage[r] \notin {"post", "failed"}

\* What is about to be posted or recorded is founded on an answer.
FoundedInv ==
    \A r \in Requests :
        /\ stage[r] \in {"idle", "fetch"} => work[r].content = Empty
        /\ stage[r] = "ask" => work[r].window # {}
        /\ stage[r] \in {"post", "append"} => work[r].content \in Founded(r)

\* The inductive invariant of what is recorded, and under which key.
KeysInv ==
    TypeOK /\ AsksInv /\ KindInv /\ ProcessedInv /\ EntryInv /\ LogInv /\ OutcomeInv

\* Together with what is shown.
ServiceInv ==
    /\ KeysInv
    /\ ReplyInv
    /\ FoundedInv
    /\ OneReplyPerCommand
    /\ CommittedIsWhatWasShown
    /\ NoDigestWithoutAnswer

----------------------------------------------------------------------------
LEMMA KeysInit == Init => KeysInv
<1> SUFFICES ASSUME Init PROVE KeysInv
  OBVIOUS
<1>1. Blank \in Work
  BY BoundsAssumption DEF Blank, Work, Keys, Digests, DigestKey
<1>2. TypeOK
  BY <1>1, BoundsAssumption DEF Init, TypeOK, Stages
<1>3. AsksInv /\ KindInv
  BY DEF Init, AsksInv, KindInv, Blank, DigestKey
<1>4. ProcessedInv /\ EntryInv /\ LogInv /\ OutcomeInv
  BY DEF Init, ProcessedInv, EntryInv, LogInv, OutcomeInv
<1> QED BY <1>2, <1>3, <1>4 DEF KeysInv

LEMMA ServiceInit == Init => ServiceInv
<1> SUFFICES ASSUME Init PROVE ServiceInv
  OBVIOUS
<1>1. ReplyInv /\ FoundedInv
  BY DEF Init, ReplyInv, FoundedInv, Requests, Before, Blank
<1>2. OneReplyPerCommand /\ CommittedIsWhatWasShown /\ NoDigestWithoutAnswer
  BY DEF Init, OneReplyPerCommand, CommittedIsWhatWasShown, NoDigestWithoutAnswer, Requests
<1> QED BY <1>1, <1>2, KeysInit DEF ServiceInv

\* Windows, digest keys and rollup keys are of their types.
LEMMA KeyTypes ==
    ASSUME TypeOK, NEW first \in 1..(messages + 1)
    PROVE  /\ first..messages \in SUBSET (1..MaxMessages)
           /\ DigestKey(first..messages) \in Keys
           /\ RollupKey(period) \in Keys
<1>1. first..messages \in SUBSET (1..MaxMessages)
  BY BoundsAssumption DEF TypeOK
<1>2. 0 \in 0..MaxPeriods /\ period \in 0..MaxPeriods /\ {} \in SUBSET (1..MaxMessages)
  BY BoundsAssumption DEF TypeOK
<1> QED BY <1>1, <1>2 DEF DigestKey, RollupKey, Keys

\* A step of one request leaves the others alone.
LEMMA Frame ==
    ASSUME TypeOK, NEW r \in Requests, Invoke(r) \/ Step(r), NEW s \in Requests, s # r
    PROVE  /\ stage'[s] = stage[s]
           /\ work'[s] = work[s]
           /\ replies'[s] = replies[s]
           /\ outcome'[s] = outcome[s]
<1> USE DEF TypeOK, Goto, Finish
<1>1. CASE Invoke(r)
  BY <1>1 DEF Invoke
<1>2. CASE Fetch(r)
  BY <1>2 DEF Fetch
<1>3. CASE FetchFails(r) \/ Answered(r) \/ Misanswered(r) \/ PostReply(r)
  BY <1>3 DEF FetchFails, Answered, Misanswered, PostReply
<1>4. CASE AppendSkips(r) \/ AppendCommits(r) \/ AppendRaises(r)
  BY <1>4 DEF AppendSkips, AppendCommits, AppendRaises
<1>5. CASE ReportError(r) \/ ReportRaises(r) \/ Escapes(r)
  BY <1>5 DEF ReportError, ReportRaises, Escapes
<1> QED BY <1>1, <1>2, <1>3, <1>4, <1>5 DEF Step

----------------------------------------------------------------------------
LEMMA TypeStep == TypeOK /\ AsksInv /\ [Next]_vars => TypeOK' /\ AsksInv'
<1> SUFFICES ASSUME TypeOK, AsksInv, [Next]_vars PROVE TypeOK' /\ AsksInv'
  OBVIOUS
<1>0. \A r \in Requests : Digested(r) \in Stages /\ Failed(r) \in Stages
  BY DEF Digested, Failed, Stages
<1>1. ASSUME NEW r \in Requests, Invoke(r) PROVE TypeOK' /\ AsksInv'
  <2>1. RollupKey(period) \in Keys
    BY BoundsAssumption DEF TypeOK, RollupKey, Keys
  <2>2. work' \in [Requests -> Work]
    <3>1. work \in [Requests -> Work] /\ work[r] \in Work
      BY DEF TypeOK
    <3>2. \A k \in Keys : [work[r] EXCEPT !.key = k] \in Work
      BY <3>1 DEF Work
    <3>3. work[r].key \in Keys
      BY <3>1 DEF Work
    <3> QED BY <1>1, <2>1, <3>1, <3>2, <3>3 DEF Invoke
  <2>3. stage' \in [Requests -> Stages]
    BY <1>1 DEF Invoke, Goto, TypeOK, Stages
  <2>4. AsksInv'
    BY <1>1 DEF Invoke, Goto, TypeOK, Work, AsksInv
  <2> QED BY <1>1, <2>2, <2>3, <2>4 DEF Invoke, TypeOK, world, store
<1>2. ASSUME NEW r \in Requests, Fetch(r) PROVE TypeOK' /\ AsksInv'
  <2> PICK first \in 1..(messages + 1) :
          /\ Goto(r, "fetch", IF first..messages = {} THEN Digested(r) ELSE "ask")
          /\ work' = [work EXCEPT ![r].window = first..messages,
                         ![r].key = IF r \in Commands THEN DigestKey(first..messages) ELSE @]
          /\ UNCHANGED <<world, replies, store, outcome>>
    BY <1>2 DEF Fetch
  <2>1. first..messages \in SUBSET (1..MaxMessages) /\ DigestKey(first..messages) \in Keys
    BY KeyTypes
  <2>2. work' \in [Requests -> Work]
    <3>1. work \in [Requests -> Work] /\ work[r] \in Work
      BY DEF TypeOK
    <3>2. \A k \in Keys : [work[r] EXCEPT !.window = first..messages, !.key = k] \in Work
      BY <2>1, <3>1 DEF Work
    <3>3. work[r].key \in Keys
      BY <3>1 DEF Work
    <3> QED BY <2>1, <3>1, <3>2, <3>3
  <2>3. stage' \in [Requests -> Stages]
    BY <1>0 DEF Goto, TypeOK, Stages
  <2>4. work'[r].asks = work[r].asks /\ work[r].asks = 0
    BY DEF Goto, TypeOK, Work, AsksInv
  <2>5. AsksInv'
    BY <2>4, <1>2, Frame DEF Goto, TypeOK, AsksInv, Step
  <2> QED BY <2>2, <2>3, <2>5 DEF TypeOK, world, store
<1>3. ASSUME NEW r \in Requests, Answered(r) \/ Misanswered(r) PROVE TypeOK' /\ AsksInv'
  <2>1. work[r].asks \in 0..1 /\ work[r] \in Work
    <3>1. work[r] \in Work /\ stage[r] = "ask"
      BY <1>3 DEF Answered, Misanswered, Goto, TypeOK
    <3>2. work[r].asks \in 0..2
      BY <3>1 DEF Work
    <3> QED BY <3>1, <3>2 DEF AsksInv
  <2>2. work' \in [Requests -> Work]
    <3>1. CASE Misanswered(r)
      <4>1. [work[r] EXCEPT !.asks = work[r].asks + 1] \in Work
        BY <2>1 DEF Work
      <4> QED BY <3>1, <4>1 DEF Misanswered, TypeOK
    <3>2. CASE Answered(r)
      <4> PICK c \in Digests :
              work' = [work EXCEPT ![r].asks = @ + 1, ![r].answers = @ \cup {c}, ![r].content = c]
        BY <3>2 DEF Answered
      <4>1. [work[r] EXCEPT !.asks = work[r].asks + 1, !.answers = work[r].answers \cup {c},
                            !.content = c] \in Work
        <5>1. work[r].asks + 1 \in 0..2 /\ work[r].answers \cup {c} \in SUBSET Digests
          BY <2>1 DEF Work
        <5> QED BY <2>1, <5>1 DEF Work
      <4> QED BY <4>1 DEF TypeOK
    <3> QED BY <1>3, <3>1, <3>2
  <2>3. stage' \in [Requests -> Stages]
    BY <1>0, <1>3 DEF Answered, Misanswered, Goto, TypeOK, Stages
  <2>4. stage'[r] = "ask" => work'[r].asks = 1
    <3>1. CASE Misanswered(r)
      BY <3>1, <2>1 DEF Misanswered, Goto, TypeOK, Failed, Work
    <3>2. CASE Answered(r)
      BY <3>2 DEF Answered, Goto, TypeOK, Digested
    <3> QED BY <1>3, <3>1, <3>2
  <2>5. stage'[r] \notin {"idle", "fetch"}
    BY <1>3 DEF Answered, Misanswered, Goto, TypeOK, Digested, Failed
  <2>6. AsksInv'
    BY <2>4, <2>5, <1>3, Frame DEF AsksInv, Step
  <2> QED BY <1>3, <2>2, <2>3, <2>6 DEF Answered, Misanswered, TypeOK, world, store
<1>4. ASSUME NEW r \in Requests, PostReply(r) PROVE TypeOK' /\ AsksInv'
  <2>1. replies' \in [Requests -> Seq(Digests \cup {Error})]
    BY <1>4 DEF PostReply, TypeOK, Work
  <2> QED BY <1>4, <2>1 DEF PostReply, Goto, TypeOK, Stages, AsksInv, world, store
<1>5. ASSUME NEW r \in Requests, ReportError(r) \/ ReportRaises(r) PROVE TypeOK' /\ AsksInv'
  <2>1. replies' \in [Requests -> Seq(Digests \cup {Error})]
    <3>1. Append(replies[r], Error) \in Seq(Digests \cup {Error})
      BY DEF TypeOK
    <3> QED BY <1>5, <3>1 DEF ReportError, ReportRaises, TypeOK
  <2> QED BY <1>5, <2>1
          DEF ReportError, ReportRaises, Goto, TypeOK, Stages, AsksInv, world, store
<1>6. ASSUME NEW r \in Requests, FetchFails(r) \/ Escapes(r) PROVE TypeOK' /\ AsksInv'
  BY <1>6 DEF FetchFails, Escapes, Failed, Goto, TypeOK, Stages, AsksInv, world, store
<1>7. ASSUME NEW r \in Requests, AppendSkips(r) PROVE TypeOK' /\ AsksInv'
  BY <1>7 DEF AppendSkips, Finish, Goto, TypeOK, Stages, AsksInv, world, store
<1>8. ASSUME NEW r \in Requests, AppendCommits(r) \/ AppendRaises(r) PROVE TypeOK' /\ AsksInv'
  <2>1. [key |-> work[r].key, by |-> r] \in [key : Keys, by : Requests]
    BY DEF TypeOK, Work
  <2>2. [key |-> work[r].key, content |-> work[r].content, by |-> r]
           \in [key : Keys, content : Digests, by : Requests]
    BY DEF TypeOK, Work
  <2>3. processed' \subseteq [key : Keys, by : Requests]
    BY <1>8, <2>1 DEF AppendCommits, AppendRaises, Record, TypeOK, store
  <2>4. log' \in Seq([key : Keys, content : Digests, by : Requests])
    <3>1. Append(log, [key |-> work[r].key, content |-> work[r].content, by |-> r])
             \in Seq([key : Keys, content : Digests, by : Requests])
      BY <2>2 DEF TypeOK
    <3> QED BY <1>8, <3>1 DEF AppendCommits, AppendRaises, Record, TypeOK, store
  <2> QED BY <1>8, <2>3, <2>4
          DEF AppendCommits, AppendRaises, Finish, Goto, TypeOK, Stages, AsksInv, world
<1>9. CASE MessageArrives
  BY <1>9, BoundsAssumption DEF MessageArrives, TypeOK, AsksInv, store
<1>10. CASE PeriodEnds
  BY <1>10, BoundsAssumption DEF PeriodEnds, TypeOK, AsksInv, store
<1>11. CASE UNCHANGED vars
  BY <1>11 DEF vars, world, store, TypeOK, AsksInv
<1> QED BY <1>1, <1>2, <1>3, <1>4, <1>5, <1>6, <1>7, <1>8, <1>9, <1>10, <1>11 DEF Next, Step

\* What an append records: nothing, a key that was not there, or a key that
\* was not there with its entry; in the last two cases the request is over.
Records(r) ==
    LET p == [key |-> work[r].key, by |-> r] IN
    \/ UNCHANGED store
    \/ /\ ~IsProcessed(work[r].key)
       /\ stage[r] = "append" /\ stage'[r] \in Over
       /\ processed' = processed \cup {p}
       /\ \/ log' = log /\ stage'[r] = "raised"
          \/ \E c \in Digests : log' = Append(log, [key |-> work[r].key, content |-> c, by |-> r])

\* A request that has recorded anything never works again, and none changes
\* its key once it appends.
LEMMA Effects ==
    ASSUME TypeOK, NEW r \in Requests, Invoke(r) \/ Step(r)
    PROVE  /\ stage[r] \notin Over
           /\ stage[r] = "append" => work' = work
           /\ Records(r)
<1> USE DEF TypeOK, Goto, Finish, Over, Records
<1>1. CASE Invoke(r)
  BY <1>1 DEF Invoke
<1>2. CASE Fetch(r)
  BY <1>2 DEF Fetch
<1>3. CASE FetchFails(r) \/ Answered(r) \/ Misanswered(r) \/ PostReply(r)
  BY <1>3 DEF FetchFails, Answered, Misanswered, PostReply
<1>4. CASE AppendSkips(r)
  BY <1>4 DEF AppendSkips
<1>5. CASE AppendCommits(r) \/ AppendRaises(r)
  <2>1. work[r].content \in Digests
    BY DEF Work
  <2> QED BY <1>5, <2>1 DEF AppendCommits, AppendRaises, Record, store
<1>6. CASE ReportError(r) \/ ReportRaises(r) \/ Escapes(r)
  BY <1>6 DEF ReportError, ReportRaises, Escapes
<1> QED BY <1>1, <1>2, <1>3, <1>4, <1>5, <1>6 DEF Step

LEMMA KindStep ==
    ASSUME TypeOK, KindInv, NEW r \in Requests, Invoke(r) \/ Step(r)
    PROVE  KindInv'
<1>0. work \in [Requests -> Work]
  BY DEF TypeOK
<1> DEFINE Kind(w) == IF r \in Commands THEN w.key = DigestKey(w.window) ELSE w.key.period > 0
<1>1. ASSUME Invoke(r) PROVE Kind(work'[r])
  <2>1. work'[r] = [work[r] EXCEPT !.key = IF r \in Rollups THEN RollupKey(period) ELSE @]
    BY <1>0, <1>1 DEF Invoke
  <2>2. work[r] \in Work
    BY <1>0
  <2>3. CASE r \in Commands
    <3>1. r \notin Rollups /\ work[r].key = DigestKey(work[r].window)
      BY <2>3, KindsAssumption DEF KindInv
    <3> QED BY <2>1, <2>2, <2>3, <3>1 DEF Work
  <2>4. CASE r \notin Commands
    <3>1. r \in Rollups /\ RollupKey(period).period > 0
      BY <2>4 DEF Requests, RollupKey, TypeOK
    <3> QED BY <2>1, <2>2, <2>4, <3>1 DEF Work
  <2> QED BY <2>3, <2>4
<1>2. ASSUME Fetch(r) PROVE Kind(work'[r])
  <2>1. PICK window :
          work'[r] = [work[r] EXCEPT !.window = window,
                                     !.key = IF r \in Commands THEN DigestKey(window) ELSE @]
    BY <1>0, <1>2 DEF Fetch
  <2>2. work[r] \in Work /\ (r \notin Commands => work[r].key.period > 0)
    BY <1>0, <1>2 DEF Fetch, Goto, KindInv
  <2> QED BY <2>1, <2>2 DEF Work
<1>3. ASSUME Step(r), ~Fetch(r)
      PROVE  work'[r].key = work[r].key /\ work'[r].window = work[r].window /\ stage[r] # "idle"
  <2>1. CASE Answered(r) \/ Misanswered(r)
    <3>1. work[r] \in Work /\ stage[r] = "ask"
      BY <1>0, <2>1 DEF Answered, Misanswered, Goto
    <3>2. \/ work'[r] = [work[r] EXCEPT !.asks = @ + 1]
          \/ \E c : work'[r] = [work[r] EXCEPT !.asks = @ + 1, !.answers = @ \cup {c},
                                               !.content = c]
      BY <1>0, <2>1 DEF Answered, Misanswered
    <3> QED BY <3>1, <3>2 DEF Work
  <2>2. CASE FetchFails(r) \/ PostReply(r) \/ ReportError(r) \/ ReportRaises(r) \/ Escapes(r)
    BY <2>2 DEF FetchFails, PostReply, ReportError, ReportRaises, Escapes, Goto
  <2>3. CASE AppendSkips(r) \/ AppendCommits(r) \/ AppendRaises(r)
    BY <2>3 DEF AppendSkips, AppendCommits, AppendRaises, Finish, Goto
  <2> QED BY <1>3, <2>1, <2>2, <2>3 DEF Step
<1>4. ASSUME NEW q \in Requests, q # r
      PROVE  work'[q] = work[q] /\ stage'[q] = stage[q]
  BY <1>4, Frame
<1>5. stage[r] # "idle" /\ work'[r].key = work[r].key /\ work'[r].window = work[r].window
        => Kind(work'[r])
  BY DEF KindInv
<1>6. Kind(work'[r])
  BY <1>1, <1>2, <1>3, <1>5
<1> QED BY <1>4, <1>6 DEF KindInv

LEMMA RecordStep ==
    ASSUME TypeOK, ProcessedInv, LogInv, OutcomeInv, NEW r \in Requests, Invoke(r) \/ Step(r)
    PROVE  ProcessedInv' /\ LogInv'
<1> DEFINE new == [key |-> work[r].key, by |-> r]
<1>1. \A p \in processed : p.by \in Requests /\ p.by # r
  BY Effects DEF ProcessedInv, TypeOK
<1>2. \A p \in processed : stage'[p.by] \in Over /\ p.key = work'[p.by].key
  BY <1>1, Frame DEF ProcessedInv
<1>3. CASE UNCHANGED store
  BY <1>2, <1>3 DEF ProcessedInv, LogInv, store
<1>4. CASE /\ ~IsProcessed(work[r].key)
           /\ stage[r] = "append" /\ stage'[r] \in Over
           /\ processed' = processed \cup {new}
  <2>1. work' = work
    BY <1>4, Effects
  <2>2. ProcessedInv'
    <3>1. new.key = work'[r].key /\ new.by = r /\ \A p \in processed : p.key # new.key
      BY <1>4, <2>1 DEF IsProcessed
    <3> HIDE DEF new
    <3>2. \A p \in processed' : stage'[p.by] \in Over /\ p.key = work'[p.by].key
      BY <1>2, <1>4, <3>1
    <3>3. \A p, q \in processed' : p.key = q.key => p = q
      BY <1>4, <3>1 DEF ProcessedInv
    <3> QED BY <3>2, <3>3 DEF ProcessedInv
  <2>3. CASE log' = log
    BY <1>4, <2>2, <2>3 DEF LogInv
  <2>4. ASSUME NEW c \in Digests,
               log' = Append(log, [key |-> work[r].key, content |-> c, by |-> r])
        PROVE  LogInv'
    <3>1. /\ Len(log) \in Nat /\ DOMAIN log = 1..Len(log) /\ DOMAIN log' = 1..(Len(log) + 1)
          /\ \A i \in DOMAIN log : log'[i] = log[i]
          /\ log'[Len(log) + 1] = [key |-> work[r].key, content |-> c, by |-> r]
      BY <2>4 DEF TypeOK
    <3>2. \A i \in DOMAIN log : log[i].key # work[r].key
      BY <1>4 DEF LogInv, IsProcessed
    <3>3. \A i \in DOMAIN log' : i \in DOMAIN log \/ i = Len(log) + 1
      BY <3>1
    <3>4. \A i \in DOMAIN log' : [key |-> log'[i].key, by |-> log'[i].by] \in processed'
      BY <1>4, <3>1, <3>3 DEF LogInv
    <3>5. \A i, j \in DOMAIN log' : log'[i].key = log'[j].key => i = j
      BY <3>1, <3>2, <3>3 DEF LogInv
    <3> QED BY <3>4, <3>5 DEF LogInv
  <2> QED BY <1>4, <2>2, <2>3, <2>4, Effects, <1>3 DEF Records
<1> QED BY <1>3, <1>4, Effects DEF Records

\* What a step does to the log: nothing, or it adds the digest of the
\* request, which is over by then and keeps its work.
LEMMA LogGrows ==
    ASSUME TypeOK, NEW r \in Requests, Invoke(r) \/ Step(r)
    PROVE  \/ log' = log /\ ~AppendCommits(r)
           \/ /\ stage[r] = "append" /\ work' = work /\ replies' = replies
              /\ log' = Append(log, [key |-> work[r].key, content |-> work[r].content, by |-> r])
BY DEF Step, Invoke, Fetch, FetchFails, Answered, Misanswered, PostReply, AppendSkips,
       AppendCommits, AppendRaises, ReportError, ReportRaises, Escapes, Record, Finish, Goto, store

LEMMA EntryStep ==
    ASSUME TypeOK, ProcessedInv, EntryInv, NEW r \in Requests, Invoke(r) \/ Step(r)
    PROVE  EntryInv'
<1>1. ASSUME NEW p \in processed
      PROVE  stage'[p.by] = "raised" \/ \E i \in DOMAIN log : log[i].by = p.by
  <2>1. p.by \in Requests /\ p.by # r
    BY Effects DEF ProcessedInv, TypeOK
  <2> QED BY <2>1, Frame DEF EntryInv
<1>2. \A i \in DOMAIN log : i \in DOMAIN log' /\ log'[i] = log[i]
  <2>1. log \in Seq([key : Keys, content : Digests, by : Requests])
    BY DEF TypeOK
  <2>2. log' = log \/ \E new : log' = Append(log, new)
    BY LogGrows
  <2> QED BY <2>1, <2>2
<1>3. ASSUME NEW p \in processed', p \notin processed
      PROVE  stage'[p.by] = "raised" \/ \E i \in DOMAIN log' : log'[i].by = p.by
  <2>1. p = [key |-> work[r].key, by |-> r]
    BY <1>3, Effects DEF Records, store
  <2>2. CASE stage'[r] = "raised"
    BY <2>1, <2>2
  <2>3. ASSUME NEW c \in Digests,
               log' = Append(log, [key |-> work[r].key, content |-> c, by |-> r])
        PROVE  \E i \in DOMAIN log' : log'[i].by = r
    <3>1. /\ Len(log) + 1 \in DOMAIN log'
          /\ log'[Len(log) + 1] = [key |-> work[r].key, content |-> c, by |-> r]
      BY <2>3 DEF TypeOK
    <3> QED BY <3>1
  <2> QED BY <1>3, <2>1, <2>2, <2>3, Effects DEF Records, store
<1> QED BY <1>1, <1>2, <1>3 DEF EntryInv

LEMMA OutcomeStep ==
    ASSUME TypeOK, ProcessedInv, OutcomeInv, NEW r \in Requests, Invoke(r) \/ Step(r)
    PROVE  OutcomeInv'
<1>1. processed \subseteq processed'
  BY Effects DEF Records, store
<1>2. ASSUME NEW s \in Requests, s # r
      PROVE  /\ stage'[s] \notin Over => outcome'[s] = "none"
             /\ outcome'[s] = "committed" => [key |-> work'[s].key, by |-> s] \in processed'
             /\ outcome'[s] = "skipped" =>
                  \E p \in processed' : p.key = work'[s].key /\ p.by # s
  BY <1>1, <1>2, Frame DEF OutcomeInv
<1>3. outcome[r] = "none"
  BY Effects DEF OutcomeInv
<1>4. \/ AppendCommits(r) \/ AppendSkips(r) \/ ReportError(r) \/ ReportRaises(r)
      \/ outcome' = outcome
  BY DEF Step, Invoke, Fetch, FetchFails, Answered, Misanswered, PostReply, AppendRaises, Escapes
<1>5. /\ stage'[r] \notin Over => outcome'[r] = "none"
      /\ outcome'[r] = "committed" => [key |-> work'[r].key, by |-> r] \in processed'
      /\ outcome'[r] = "skipped" =>
           \E p \in processed' : p.key = work'[r].key /\ p.by # r
  <2>1. CASE outcome' = outcome
    BY <1>3, <2>1
  <2>2. CASE AppendCommits(r)
    BY <2>2 DEF AppendCommits, Record, Finish, Goto, TypeOK, Over
  <2>3. CASE AppendSkips(r)
    <3>1. PICK p \in processed : p.key = work[r].key
      BY <2>3 DEF AppendSkips, IsProcessed
    <3>2. p.by # r
      BY Effects DEF ProcessedInv
    <3> QED BY <2>3, <3>1, <3>2, <1>1 DEF AppendSkips, Finish, Goto, TypeOK, Over
  <2>4. CASE ReportError(r) \/ ReportRaises(r)
    BY <2>4 DEF ReportError, ReportRaises, Goto, TypeOK, Over
  <2> QED BY <1>4, <2>1, <2>2, <2>3, <2>4
<1> QED BY <1>2, <1>5 DEF OutcomeInv

LEMMA KeysStep == KeysInv /\ [Next]_vars => KeysInv'
<1> SUFFICES ASSUME KeysInv, [Next]_vars PROVE KeysInv'
  OBVIOUS
<1> USE DEF KeysInv
<1>1. TypeOK' /\ AsksInv'
  BY TypeStep
<1>2. ASSUME NEW r \in Requests, Invoke(r) \/ Step(r) PROVE KeysInv'
  BY <1>1, <1>2, KindStep, RecordStep, EntryStep, OutcomeStep
<1>3. CASE UNCHANGED <<stage, work, store, outcome>>
  <2>1. KindInv'
    BY <1>3 DEF KindInv
  <2>2. ProcessedInv' /\ EntryInv' /\ LogInv' /\ OutcomeInv'
    BY <1>3 DEF ProcessedInv, EntryInv, LogInv, OutcomeInv, store
  <2> QED BY <1>1, <2>1, <2>2
<1>4. \/ \E r \in Requests : Invoke(r) \/ Step(r)
      \/ UNCHANGED <<stage, work, store, outcome>>
  BY DEF Next, MessageArrives, PeriodEnds, vars
<1> QED BY <1>2, <1>3, <1>4

LEMMA ReplyStep ==
    ASSUME TypeOK, ReplyInv, OutcomeInv, OneReplyPerCommand,
           NEW r \in Requests, Invoke(r) \/ Step(r)
    PROVE  ReplyInv' /\ OneReplyPerCommand'
<1> USE DEF TypeOK, Goto, Before
<1>1. ASSUME r \in Rollups
      PROVE  replies' = replies /\ stage'[r] \notin {"post", "failed"}
  <2>1. r \notin Commands /\ stage[r] \notin {"post", "failed"}
    BY <1>1, KindsAssumption DEF ReplyInv
  <2>2. CASE Invoke(r)
    BY <2>2 DEF Invoke
  <2>3. CASE Fetch(r) \/ FetchFails(r) \/ Answered(r) \/ Misanswered(r)
    BY <2>1, <2>3 DEF Fetch, FetchFails, Answered, Misanswered, Digested, Failed
  <2>4. CASE AppendSkips(r) \/ AppendCommits(r) \/ AppendRaises(r) \/ Escapes(r)
    BY <2>4 DEF AppendSkips, AppendCommits, AppendRaises, Escapes, Finish
  <2>5. CASE PostReply(r) \/ ReportError(r) \/ ReportRaises(r)
    BY <2>1, <2>5 DEF PostReply, ReportError, ReportRaises
  <2> QED BY <2>2, <2>3, <2>4, <2>5 DEF Step
<1>2. ASSUME r \in Commands
      PROVE  /\ stage'[r] \in Before => replies'[r] = <<>>
             /\ stage'[r] = "append" => replies'[r] = <<work'[r].content>>
  <2>1. CASE Invoke(r) \/ Fetch(r) \/ FetchFails(r) \/ Answered(r) \/ Misanswered(r)
    BY <1>2, <2>1 DEF Invoke, Fetch, FetchFails, Answered, Misanswered, Digested, Failed, ReplyInv
  <2>2. CASE PostReply(r)
    <3>1. replies[r] = <<>>
      BY <1>2, <2>2 DEF PostReply, ReplyInv
    <3>2. Append(replies[r], work[r].content) = <<work[r].content>>
      BY <3>1
    <3> QED BY <2>2, <3>2 DEF PostReply
  <2>3. CASE ReportError(r) \/ ReportRaises(r) \/ Escapes(r)
    BY <2>3 DEF ReportError, ReportRaises, Escapes
  <2>4. CASE AppendSkips(r) \/ AppendCommits(r) \/ AppendRaises(r)
    BY <2>4 DEF AppendSkips, AppendCommits, AppendRaises, Finish
  <2> QED BY <2>1, <2>2, <2>3, <2>4 DEF Step
<1>3. ASSUME r \in Commands, stage'[r] = "done"
      PROVE  /\ Len(replies'[r]) = 1
             /\ replies'[r][1] = Error <=> outcome'[r] = "error"
  <2>1. CASE AppendSkips(r) \/ AppendCommits(r)
    <3>1. replies'[r] = <<work[r].content>> /\ outcome'[r] # "error"
      BY <1>3, <2>1 DEF AppendSkips, AppendCommits, Finish, ReplyInv
    <3>2. work[r].content # Error
      BY ContentsAssumption DEF Work, Digests
    <3>3. Len(<<work[r].content>>) = 1 /\ <<work[r].content>>[1] = work[r].content
      OBVIOUS
    <3> QED BY <3>1, <3>2, <3>3
  <2>2. CASE ReportError(r)
    <3>1. replies[r] = <<>>
      BY <1>3, <2>2 DEF ReportError, ReplyInv
    <3>2. replies'[r] = Append(replies[r], Error) /\ outcome'[r] = "error"
      BY <2>2 DEF ReportError
    <3>3. replies'[r] = <<Error>>
      BY <3>1, <3>2
    <3>4. Len(<<Error>>) = 1 /\ <<Error>>[1] = Error
      OBVIOUS
    <3> QED BY <3>2, <3>3, <3>4
  <2>3. AppendSkips(r) \/ AppendCommits(r) \/ ReportError(r)
    BY <1>3 DEF Invoke, Step, Fetch, FetchFails, Answered, Misanswered, PostReply,
                AppendRaises, ReportRaises, Escapes, Digested, Failed
  <2> QED BY <2>1, <2>2, <2>3
<1>4. Requests = Commands \cup Rollups /\ Commands \cap Rollups = {}
  BY KindsAssumption DEF Requests
<1>5. ReplyInv'
  <2>1. ASSUME NEW c \in Commands
        PROVE  /\ stage'[c] \in Before => replies'[c] = <<>>
               /\ stage'[c] = "append" => replies'[c] = <<work'[c].content>>
    <3>1. CASE c = r
      BY <1>2, <3>1
    <3>2. CASE c # r
      <4>1. stage'[c] = stage[c] /\ replies'[c] = replies[c] /\ work'[c] = work[c]
        BY <1>4, <3>2, Frame
      <4> QED BY <4>1 DEF ReplyInv
    <3> QED BY <3>1, <3>2
  <2>2. ASSUME NEW s \in Rollups
        PROVE  replies'[s] = <<>> /\ stage'[s] \notin {"post", "failed"}
    <3>1. CASE s = r
      BY <1>1, <3>1 DEF ReplyInv
    <3>2. CASE s # r
      <4>1. stage'[s] = stage[s] /\ replies'[s] = replies[s]
        BY <1>4, <3>2, Frame
      <4> QED BY <4>1 DEF ReplyInv
    <3> QED BY <3>1, <3>2
  <2> QED BY <2>1, <2>2 DEF ReplyInv
<1>6. OneReplyPerCommand'
  <2>1. \A s \in Rollups : replies'[s] = <<>>
    BY <1>5 DEF ReplyInv
  <2>2. ASSUME NEW c \in Commands, stage'[c] = "done"
        PROVE  /\ Len(replies'[c]) = 1
               /\ replies'[c][1] = Error <=> outcome'[c] = "error"
    <3>1. CASE c = r
      BY <1>3, <2>2, <3>1
    <3>2. CASE c # r
      <4>1. stage[c] = "done" /\ replies'[c] = replies[c] /\ outcome'[c] = outcome[c]
        BY <1>4, <2>2, <3>2, Frame
      <4> QED BY <4>1 DEF OneReplyPerCommand
    <3> QED BY <3>1, <3>2
  <2> QED BY <2>1, <2>2 DEF OneReplyPerCommand
<1> QED BY <1>5, <1>6

LEMMA FoundedStep ==
    ASSUME TypeOK, FoundedInv, NEW r \in Requests, Invoke(r) \/ Step(r)
    PROVE  FoundedInv'
<1> USE DEF TypeOK, Goto, Work
<1>1. /\ stage'[r] \in {"idle", "fetch"} => work'[r].content = Empty
      /\ stage'[r] = "ask" => work'[r].window # {}
      /\ stage'[r] \in {"post", "append"} => work'[r].content \in Founded(r)'
  <2> USE DEF Founded
  <2>1. CASE Invoke(r)
    BY <2>1 DEF Invoke, FoundedInv
  <2>2. CASE Fetch(r)
    BY <2>2 DEF Fetch, Digested, FoundedInv
  <2>3. CASE Answered(r)
    BY <2>3 DEF Answered, Digested, FoundedInv
  <2>4. CASE Misanswered(r)
    BY <2>4 DEF Misanswered, Failed, FoundedInv
  <2>5. CASE FetchFails(r) \/ PostReply(r) \/ ReportError(r) \/ ReportRaises(r) \/ Escapes(r)
    BY <2>5 DEF FetchFails, Failed, PostReply, ReportError, ReportRaises, Escapes, FoundedInv
  <2>6. CASE AppendSkips(r) \/ AppendCommits(r) \/ AppendRaises(r)
    BY <2>6 DEF AppendSkips, AppendCommits, AppendRaises, Finish
  <2> QED BY <2>1, <2>2, <2>3, <2>4, <2>5, <2>6 DEF Step
<1> QED BY <1>1, Frame DEF FoundedInv, Founded

LEMMA SeqFacts ==
    ASSUME NEW S, NEW s \in Seq(S)
    PROVE  Len(s) \in Nat /\ DOMAIN s = 1..Len(s) /\ \A i \in DOMAIN s : s[i] \in S
OBVIOUS

\* What a request has posted stays founded: a digest is only posted once its
\* thread and its answers are settled.
LEMMA ReplyFounded ==
    ASSUME TypeOK, ReplyInv, FoundedInv, NoDigestWithoutAnswer,
           NEW r \in Requests, Invoke(r) \/ Step(r), NEW i \in DOMAIN replies'[r]
    PROVE  replies'[r][i] \in Founded(r)' \cup {Error}
<1> USE DEF TypeOK, Goto
<1>1. stage[r] \in Before => replies[r] = <<>>
  BY KindsAssumption DEF ReplyInv, Requests
<1>2. CASE Invoke(r) \/ Fetch(r) \/ FetchFails(r) \/ Answered(r) \/ Misanswered(r)
  <2>1. stage[r] \in Before /\ replies' = replies
    BY <1>2 DEF Invoke, Fetch, FetchFails, Answered, Misanswered, Before
  <2> QED BY <1>1, <2>1
<1>3. CASE PostReply(r)
  <2>1. stage[r] = "post" /\ work' = work /\ replies'[r] = Append(replies[r], work[r].content)
    BY <1>3 DEF PostReply
  <2>2. replies'[r] = <<work[r].content>>
    BY <1>1, <2>1 DEF Before
  <2>3. work[r].content \in Founded(r)'
    BY <2>1 DEF FoundedInv, Founded
  <2> QED BY <2>2, <2>3
<1>4. CASE ReportError(r)
  <2>1. stage[r] = "failed" /\ replies'[r] = Append(replies[r], Error)
    BY <1>4 DEF ReportError
  <2>2. replies'[r] = <<Error>>
    BY <1>1, <2>1 DEF Before
  <2> QED BY <2>2
<1>5. CASE \/ AppendSkips(r) \/ AppendCommits(r) \/ AppendRaises(r) \/ ReportRaises(r)
           \/ Escapes(r)
  <2>1. work' = work /\ replies' = replies
    BY <1>5 DEF AppendSkips, AppendCommits, AppendRaises, ReportRaises, Escapes, Finish
  <2> QED BY <2>1 DEF NoDigestWithoutAnswer, Founded
<1> QED BY <1>2, <1>3, <1>4, <1>5 DEF Step

LEMMA LogStep ==
    ASSUME TypeOK, ProcessedInv, LogInv, OutcomeInv, ReplyInv, FoundedInv,
           CommittedIsWhatWasShown, NoDigestWithoutAnswer,
           NEW r \in Requests, Invoke(r) \/ Step(r)
    PROVE  CommittedIsWhatWasShown' /\ NoDigestWithoutAnswer'
<1> DEFINE new == [key |-> work[r].key, content |-> work[r].content, by |-> r]
<1>1. /\ Len(log) \in Nat /\ DOMAIN log = 1..Len(log)
      /\ \A i \in DOMAIN log : log[i].by \in Requests /\ log[i].by # r
  <2>1. \A i \in DOMAIN log : [key |-> log[i].key, by |-> log[i].by] \in processed
    BY DEF LogInv
  <2>2. \A i \in DOMAIN log : stage[log[i].by] \in Over
    BY <2>1 DEF ProcessedInv
  <2>3. /\ Len(log) \in Nat /\ DOMAIN log = 1..Len(log)
        /\ \A i \in DOMAIN log : log[i] \in [key : Keys, content : Digests, by : Requests]
    BY SeqFacts DEF TypeOK
  <2>4. stage[r] \notin Over
    BY Effects
  <2>5. \A i \in DOMAIN log : log[i].by \in Requests
    BY <2>3
  <2> QED BY <2>2, <2>3, <2>4, <2>5
<1>2. \/ log' = log /\ ~AppendCommits(r)
      \/ /\ stage[r] = "append" /\ work' = work /\ replies' = replies
         /\ DOMAIN log' = 1..(Len(log) + 1) /\ log'[Len(log) + 1] = new
         /\ \A i \in DOMAIN log : log'[i] = log[i]
  BY <1>1, LogGrows DEF TypeOK
<1>3. \A i \in DOMAIN log : i \in DOMAIN log' /\ log'[i] = log[i]
  BY <1>1, <1>2
<1>4. ASSUME NEW i \in DOMAIN log', NEW q, q = log'[i].by
      PROVE  log'[i].content \in Founded(q)'
  <2>1. CASE i \in DOMAIN log
    <3>1. q = log[i].by /\ log'[i] = log[i]
      BY <1>3, <1>4, <2>1
    <3>2. log[i].content \in Founded(q)
      BY <2>1, <3>1 DEF NoDigestWithoutAnswer
    <3>3. work'[q] = work[q]
      BY <1>1, <2>1, <3>1, Frame
    <3> QED BY <3>1, <3>2, <3>3 DEF Founded
  <2>2. CASE i \notin DOMAIN log
    <3>1. log'[i] = new /\ stage[r] = "append" /\ work' = work
      BY <1>1, <1>2, <2>2
    <3>2. q = r /\ log'[i].content = work[r].content
      BY <1>4, <3>1
    <3> QED BY <3>1, <3>2 DEF FoundedInv, Founded
  <2> QED BY <2>1, <2>2
<1>5. ASSUME NEW c \in Commands, outcome'[c] = "committed"
      PROVE  \E i \in DOMAIN log' : log'[i].key = work'[c].key /\ <<log'[i].content>> = replies'[c]
  <2>0. c \in Requests
    BY DEF Requests
  <2>1. CASE c = r
    <3>1. outcome[r] = "none"
      BY Effects DEF OutcomeInv
    <3>2. AppendCommits(r)
      BY <1>5, <2>1, <3>1 DEF Step, Invoke, Fetch, FetchFails, Answered, Misanswered, PostReply,
         AppendSkips, AppendRaises, ReportError, ReportRaises, Escapes, Finish, TypeOK
    <3>3. /\ stage[r] = "append" /\ work' = work /\ replies' = replies
          /\ Len(log) + 1 \in DOMAIN log' /\ log'[Len(log) + 1] = new
      BY <1>1, <1>2, <3>2
    <3>4. replies[r] = <<work[r].content>>
      BY <2>1, <3>3 DEF ReplyInv
    <3> QED BY <2>1, <3>3, <3>4
  <2>2. CASE c # r
    <3>1. outcome[c] = "committed" /\ work'[c] = work[c] /\ replies'[c] = replies[c]
      BY <1>5, <2>0, <2>2, Frame
    <3>2. PICK i \in DOMAIN log : log[i].key = work[c].key /\ <<log[i].content>> = replies[c]
      BY <3>1 DEF CommittedIsWhatWasShown
    <3> QED BY <1>3, <3>1, <3>2
  <2> QED BY <2>1, <2>2
<1>6. ASSUME NEW q \in Requests, NEW i \in DOMAIN replies'[q]
      PROVE  replies'[q][i] \in Founded(q)' \cup {Error}
  <2>1. CASE q # r
    <3>1. replies'[q] = replies[q] /\ Founded(q)' = Founded(q)
      BY <2>1, Frame DEF Founded
    <3> QED BY <1>6, <3>1 DEF NoDigestWithoutAnswer
  <2>2. CASE q = r
    <3>1. \A j \in DOMAIN replies'[r] : replies'[r][j] \in Founded(r)' \cup {Error}
      BY ReplyFounded
    <3> QED BY <1>6, <2>2, <3>1
  <2> QED BY <2>1, <2>2
<1> QED BY <1>4, <1>5, <1>6 DEF CommittedIsWhatWasShown, NoDigestWithoutAnswer

LEMMA ServiceStep == ServiceInv /\ [Next]_vars => ServiceInv'
<1> SUFFICES ASSUME ServiceInv, [Next]_vars PROVE ServiceInv'
  OBVIOUS
<1>1. KeysInv'
  BY KeysStep DEF ServiceInv
<1>2. ASSUME NEW r \in Requests, Invoke(r) \/ Step(r) PROVE ServiceInv'
  BY <1>1, <1>2, ReplyStep, FoundedStep, LogStep DEF ServiceInv, KeysInv
<1>3. CASE UNCHANGED <<stage, work, replies, store, outcome>>
  <2>1. ReplyInv' /\ FoundedInv' /\ OneReplyPerCommand'
    BY <1>3 DEF ServiceInv, ReplyInv, FoundedInv, Founded, OneReplyPerCommand
  <2>2. CommittedIsWhatWasShown' /\ NoDigestWithoutAnswer'
    BY <1>3 DEF ServiceInv, CommittedIsWhatWasShown, NoDigestWithoutAnswer, Founded, store
  <2> QED BY <1>1, <2>1, <2>2 DEF ServiceInv
<1>4. \/ \E r \in Requests : Invoke(r) \/ Step(r)
      \/ UNCHANGED <<stage, work, replies, store, outcome>>
  BY DEF Next, MessageArrives, PeriodEnds, vars
<1> QED BY <1>2, <1>3, <1>4

----------------------------------------------------------------------------
THEOREM KeysInvariant == Spec => []KeysInv
BY KeysInit, KeysStep, PTL DEF Spec

\* DigestService never leaves its type; in particular the model is never
\* asked more than twice.
THEOREM TypeCorrect == Spec => []TypeOK
<1>1. KeysInv => TypeOK
  BY DEF KeysInv
<1> QED BY <1>1, KeysInvariant, PTL

\* A key is committed by one request, and recorded once in the log, however
\* many commands and rollups race for it.
THEOREM OneCommit == Spec => []OneCommitPerKey
<1>1. KeysInv => OneCommitPerKey
  <2> SUFFICES ASSUME KeysInv PROVE OneCommitPerKey
    OBVIOUS
  <2>1. ASSUME NEW r \in Requests, NEW s \in Requests, outcome[r] = "committed",
               outcome[s] = "committed", work[r].key = work[s].key
        PROVE  r = s
    <3> DEFINE p == [key |-> work[r].key, by |-> r]
               q == [key |-> work[s].key, by |-> s]
    <3>1. p \in processed /\ q \in processed
      BY <2>1 DEF KeysInv, OutcomeInv
    <3>2. p = q
      BY <2>1, <3>1 DEF KeysInv, ProcessedInv
    <3>3. p.by = q.by
      BY <3>2
    <3> QED BY <3>3
  <2> QED BY <2>1 DEF OneCommitPerKey, KeysInv, LogInv
<1> QED BY <1>1, KeysInvariant, PTL

\* A rollup is skipped only for another rollup of its period.
THEOREM Independent == Spec => []PeriodsAreIndependent
<1>1. KeysInv => PeriodsAreIndependent
  <2> SUFFICES ASSUME KeysInv, NEW r \in Rollups, outcome[r] = "skipped"
               PROVE  \E p \in processed : /\ p.key = work[r].key
                                           /\ p.by \in Rollups \ {r}
                                           /\ p.key.period > 0
    BY DEF PeriodsAreIndependent
  <2>1. PICK p \in processed : p.key = work[r].key /\ p.by # r
    BY DEF KeysInv, OutcomeInv, Requests
  <2>2. r \in Requests /\ r \notin Commands /\ stage[r] # "idle"
    BY KindsAssumption DEF KeysInv, OutcomeInv, Requests, Over
  <2>3. work[r].key.period > 0
    BY <2>2 DEF KeysInv, KindInv
  <2>4. p.by \in Requests /\ p.key = work[p.by].key
    BY DEF KeysInv, ProcessedInv, TypeOK
  <2>5. p.by \notin Commands
    <3>1. \A window : DigestKey(window).period = 0
      BY DEF DigestKey
    <3> QED BY <2>1, <2>3, <2>4, <3>1 DEF KeysInv, KindInv
  <2> QED BY <2>1, <2>3, <2>4, <2>5 DEF Requests
<1> QED BY <1>1, KeysInvariant, PTL

\* What a command has posted is on record when it ends without an error,
\* also if its append was skipped: under the key of a command over the same
\* messages, with an entry unless that one's append raised.
THEOREM OnRecordWhenPosted == Spec => []PostedIsOnRecord
<1>1. KeysInv => PostedIsOnRecord
  <2> SUFFICES ASSUME KeysInv, NEW c \in Commands, outcome[c] \in {"committed", "skipped"}
               PROVE  \E p \in processed :
                        /\ p.by \in Commands
                        /\ work[p.by].window = work[c].window
                        /\ stage[p.by] = "raised" \/ \E i \in DOMAIN log : log[i].by = p.by
    BY DEF PostedIsOnRecord
  <2>0. c \in Requests
    BY DEF Requests
  <2>1. PICK p \in processed : p.key = work[c].key
    <3> DEFINE own == [key |-> work[c].key, by |-> c]
    <3>1. CASE outcome[c] = "committed"
      <4>1. own \in processed /\ own.key = work[c].key
        BY <2>0, <3>1 DEF KeysInv, OutcomeInv
      <4> QED BY <4>1
    <3>2. CASE outcome[c] = "skipped"
      BY <2>0, <3>2 DEF KeysInv, OutcomeInv
    <3> QED BY <3>1, <3>2
  <2>2. p.by \in Requests /\ p.key = work[p.by].key /\ stage[p.by] # "idle"
    BY DEF KeysInv, ProcessedInv, TypeOK, Over
  <2>3. work[c].key = DigestKey(work[c].window)
    BY <2>0 DEF KeysInv, KindInv
  <2>4. p.by \in Commands
    <3>1. work[p.by].key = DigestKey(work[c].window)
      BY <2>1, <2>2, <2>3
    <3>2. \A window : DigestKey(window).period = 0
      BY DEF DigestKey
    <3> QED BY <2>2, <3>1, <3>2 DEF KeysInv, KindInv
  <2>5. work[p.by].key = DigestKey(work[p.by].window)
    BY <2>2, <2>4 DEF KeysInv, KindInv
  <2>6. work[p.by].window = work[c].window
    <3>1. DigestKey(work[p.by].window).window = work[p.by].window
      BY DEF DigestKey
    <3>2. DigestKey(work[c].window).window = work[c].window
      BY DEF DigestKey
    <3> QED BY <2>1, <2>2, <2>3, <2>5, <3>1, <3>2
  <2> QED BY <2>4, <2>6 DEF KeysInv, EntryInv
<1> QED BY <1>1, KeysInvariant, PTL

THEOREM ServiceInvariant == Spec => []ServiceInv
BY ServiceInit, ServiceStep, PTL DEF Spec

\* A command that returns has posted one reply, a rollup none.
THEOREM OneReply == Spec => []OneReplyPerCommand
<1>1. ServiceInv => OneReplyPerCommand
  BY DEF ServiceInv
<1> QED BY <1>1, ServiceInvariant, PTL

\* What a command committed is what it had posted.
THEOREM ShownWhenCommitted == Spec => []CommittedIsWhatWasShown
<1>1. ServiceInv => CommittedIsWhatWasShown
  BY DEF ServiceInv
<1> QED BY <1>1, ServiceInvariant, PTL

\* Whatever is retried and however requests interleave: what is posted and
\* what is recorded of a thread with messages is what the model made of it in
\* a usable answer, and of an empty thread it is the empty digest.
THEOREM AnsweredWhenShown == Spec => []NoDigestWithoutAnswer
<1>1. ServiceInv => NoDigestWithoutAnswer
  BY DEF ServiceInv
<1> QED BY <1>1, ServiceInvariant, PTL

----------------------------------------------------------------------------
(* The service uses the store as an atomic append *)

Trail == [i \in DOMAIN log |-> log[i].key]
Marked == {p.key : p \in processed}

\* The keys of a log are a sequence, and an entry at its end adds one.
LEMMA KeysOf ==
    ASSUME NEW l \in Seq([key : Keys, content : Digests, by : Requests]),
           NEW e \in [key : Keys, content : Digests, by : Requests]
    PROVE  /\ [i \in DOMAIN l |-> l[i].key] \in Seq(Keys)
           /\ [i \in DOMAIN Append(l, e) |-> Append(l, e)[i].key]
                = Append([i \in DOMAIN l |-> l[i].key], e.key)
<1> DEFINE keys == [i \in 1..Len(l) |-> l[i].key]
<1>1. Len(l) \in Nat /\ DOMAIN l = 1..Len(l)
  OBVIOUS
<1>2. ASSUME NEW i \in 1..Len(l) PROVE l[i].key \in Keys
  <2>1. l[i] \in [key : Keys, content : Digests, by : Requests]
    BY <1>1, SeqFacts
  <2> QED BY <2>1
<1>3. keys \in Seq(Keys) /\ Len(keys) = Len(l)
  BY <1>1, <1>2
<1>4. /\ DOMAIN Append(l, e) = 1..(Len(l) + 1) /\ Append(l, e)[Len(l) + 1] = e
      /\ \A i \in 1..Len(l) : Append(l, e)[i] = l[i]
  BY <1>1
<1>5. [i \in DOMAIN Append(l, e) |-> Append(l, e)[i].key]
        = [i \in 1..(Len(l) + 1) |-> IF i = Len(l) + 1 THEN e.key ELSE l[i].key]
  BY <1>1, <1>4
<1>6. Append(keys, e.key) = [i \in 1..(Len(l) + 1) |-> IF i = Len(l) + 1 THEN e.key ELSE l[i].key]
  <2>1. e.key \in Keys
    OBVIOUS
  <2>2. /\ Append(keys, e.key) \in Seq(Keys) /\ Len(Append(keys, e.key)) = Len(l) + 1
        /\ Append(keys, e.key)[Len(l) + 1] = e.key
        /\ \A i \in 1..Len(l) : Append(keys, e.key)[i] = l[i].key
    BY <1>1, <1>3, <2>1
  <2> HIDE DEF keys
  <2> QED BY <1>1, <2>2
<1> QED BY <1>1, <1>3, <1>5, <1>6

\* A key is recorded exactly if it is marked.
LEMMA MarkedIsProcessed ==
    ASSUME TypeOK, NEW k
    PROVE  (k \in Marked <=> IsProcessed(k)) /\ Marked \subseteq Keys
BY DEF TypeOK, Marked, IsProcessed

\* Only the request that takes a step has another append afterwards.
LEMMA OtherCalls ==
    ASSUME TypeOK, NEW r \in Requests, Invoke(r) \/ Step(r), NEW s \in Requests, s # r
    PROVE  AppendCall(s)' = AppendCall(s)
BY Frame DEF AppendCall

\* The steps before the append: one of them calls it.
LEMMA CallStep ==
    ASSUME KeysInv, KeysInv', NEW r \in Requests,
           \/ Invoke(r) \/ Fetch(r) \/ FetchFails(r) \/ Answered(r) \/ Misanswered(r)
           \/ PostReply(r) \/ ReportError(r) \/ ReportRaises(r) \/ Escapes(r)
    PROVE  \/ Store!Call(r, work'[r].key)
           \/ UNCHANGED Store!vars
<1> DEFINE calls == [s \in Requests |-> AppendCall(s)]
<1>1. UNCHANGED store /\ stage[r] # "append" /\ outcome[r] = "none" /\ outcome'[r] \in {"none", "error"}
  <2>1. stage[r] \notin {"append"} \cup Over
    BY DEF KeysInv, TypeOK, Goto, Over, Invoke, Fetch, FetchFails, Answered, Misanswered,
           PostReply, ReportError, ReportRaises, Escapes
  <2>2. outcome[r] = "none"
    BY <2>1 DEF KeysInv, OutcomeInv, Over
  <2>3. UNCHANGED store /\ (outcome' = outcome \/ outcome' = [outcome EXCEPT ![r] = "error"])
    BY DEF Invoke, Fetch, FetchFails, Answered, Misanswered,
           PostReply, ReportError, ReportRaises, Escapes
  <2> QED BY <2>1, <2>2, <2>3 DEF KeysInv, TypeOK
<1>2. Invoke(r) \/ Step(r)
  BY DEF Step
<1>3. /\ AppendCall(r) = Store!Idle
      /\ AppendCall(r)' = IF stage'[r] = "append"
                          THEN [state |-> "called", key |-> work'[r].key] ELSE Store!Idle
  BY <1>1 DEF AppendCall, Store!Idle
<1>4. \A s \in Requests \ {r} : AppendCall(s)' = AppendCall(s)
  BY <1>2, OtherCalls DEF KeysInv
<1>5. Trail' = Trail /\ Marked' = Marked
  BY <1>1 DEF Trail, Marked, store
<1>6. CASE stage'[r] = "append"
  <2>1. calls' = [calls EXCEPT ![r] = [state |-> "called", key |-> work'[r].key]]
    BY <1>3, <1>4, <1>6
  <2>2. calls[r] = Store!Idle
    BY <1>3
  <2> QED BY <2>1, <2>2, <1>5 DEF Store!Call, Trail, Marked
<1>7. CASE stage'[r] # "append"
  <2>1. calls' = calls
    BY <1>3, <1>4, <1>7
  <2> QED BY <2>1, <1>5 DEF Store!vars, Trail, Marked
<1> QED BY <1>6, <1>7

\* The steps that end an append.
LEMMA EndStep ==
    ASSUME KeysInv, KeysInv', NEW r \in Requests,
           AppendSkips(r) \/ AppendCommits(r) \/ AppendRaises(r)
    PROVE  Store!Commit(r) \/ Store!End({r})
<1> DEFINE key == work[r].key
           trail == [f \in {"log"} |-> Trail]
           marked == [f \in {"log"} |-> Marked]
           calls == [s \in Requests |-> AppendCall(s)]
<1> USE DEF KeysInv
<1>1. /\ stage[r] = "append" /\ stage'[r] \in Over /\ work' = work
      /\ outcome[r] = "none" /\ key \in Keys
  <2>1. stage[r] = "append" /\ stage'[r] \in Over /\ work' = work
    BY DEF AppendSkips, AppendCommits, AppendRaises, Finish, Goto, TypeOK, Over
  <2> QED BY <2>1 DEF OutcomeInv, Over, TypeOK, Work
<1>2. AppendCall(r) = [state |-> "called", key |-> key]
  BY <1>1 DEF AppendCall
<1>3. Invoke(r) \/ Step(r)
  BY DEF Step
<1>4. \A s \in Requests \ {r} : AppendCall(s)' = AppendCall(s)
  BY <1>3, OtherCalls
<1>5. Trail \in Seq(Keys) /\ Trail' \in Seq(Keys) /\ Marked \subseteq Keys /\ Marked' \subseteq Keys
  <2>1. [key |-> key, content |-> work[r].content, by |-> r]
          \in [key : Keys, content : Digests, by : Requests]
    BY DEF TypeOK, Work
  <2>2. Trail \in Seq(Keys) /\ Trail' \in Seq(Keys)
    BY <2>1, KeysOf DEF TypeOK, Trail
  <2>3. Marked \subseteq Keys /\ Marked' \subseteq Keys
    BY DEF TypeOK, Marked
  <2> QED BY <2>2, <2>3
<1>6. \/ UNCHANGED store
      \/ ~IsProcessed(key) /\ processed' = processed \cup {[key |-> key, by |-> r]} /\ log' = log
      \/ ~IsProcessed(key) /\ Record(r, work[r].content)
  BY DEF AppendSkips, AppendCommits, AppendRaises, store
<1>7. ~IsProcessed(key) => key \notin Marked
  BY MarkedIsProcessed
<1>8. processed' = processed \cup {[key |-> key, by |-> r]} => Marked' = Marked \cup {key}
  <2> SUFFICES ASSUME processed' = processed \cup {[key |-> key, by |-> r]}
               PROVE  \A k : k \in Marked' <=> k \in Marked \cup {key}
    OBVIOUS
  <2>1. \A k : k \in Marked' <=> \E p \in processed \cup {[key |-> key, by |-> r]} : p.key = k
    BY DEF Marked
  <2>2. \A k : k \in Marked <=> \E p \in processed : p.key = k
    BY DEF Marked
  <2>3. [key |-> key, by |-> r].key = key
    OBVIOUS
  <2> QED BY <2>1, <2>2, <2>3
<1>9. Record(r, work[r].content) => Trail' = Append(Trail, key)
  <2>1. [key |-> key, content |-> work[r].content, by |-> r]
          \in [key : Keys, content : Digests, by : Requests]
    BY DEF TypeOK, Work
  <2> QED BY <2>1, KeysOf DEF Record, TypeOK, Trail
<1>10. CASE AppendCommits(r)
  <2>1. ~IsProcessed(key) /\ Record(r, work[r].content) /\ outcome'[r] = "committed"
    BY <1>10 DEF AppendCommits, Finish, TypeOK
  <2>2. AppendCall(r)' = [state |-> "committed", key |-> key]
    BY <1>1, <2>1 DEF AppendCall, Over
  <2>3. calls' = [calls EXCEPT ![r].state = "committed"]
    <3>1. calls[r] = [state |-> "called", key |-> key]
      BY <1>2
    <3>2. [calls[r] EXCEPT !.state = "committed"] = [state |-> "committed", key |-> key]
      BY <3>1
    <3>3. calls' = [calls EXCEPT ![r] = [state |-> "committed", key |-> key]]
      BY <1>4, <2>2
    <3> QED BY <3>2, <3>3
  <2>4. key \notin Marked /\ Marked' = Marked \cup {key} /\ Trail' = Append(Trail, key)
    BY <1>7, <1>8, <1>9, <2>1 DEF Record
  <2>5. marked' = [marked EXCEPT !["log"] = @ \cup {key}] /\ trail' = [trail EXCEPT !["log"] = Append(@, key)]
    BY <2>4
  <2>6. calls[r].state = "called" /\ calls[r].key = key /\ [k \in Keys |-> "log"][key] = "log"
    BY <1>1, <1>2
  <2>7. Store!Records(r, "log")
    BY <2>4, <2>5, <2>6 DEF Store!Records, Trail, Marked
  <2> QED BY <2>3, <2>7 DEF Store!Commit
<1>11. CASE AppendSkips(r) \/ AppendRaises(r)
  <2>1. outcome'[r] # "committed"
    BY <1>1, <1>11 DEF AppendSkips, AppendRaises, Finish, TypeOK
  <2>2. AppendCall(r)' = Store!Idle /\ AppendCall(r) # Store!Idle
    BY <1>1, <1>2, <2>1 DEF AppendCall, Store!Idle, Over
  <2>3. /\ \A s \in {r} : calls[s] # Store!Idle
        /\ calls' = [s \in Requests |-> IF s \in {r} THEN Store!Idle ELSE calls[s]]
    BY <1>4, <2>2
  <2>4. trail' \in [{"log"} -> Seq(Keys)] /\ marked' \in [{"log"} -> SUBSET Keys]
    BY <1>5
  <2>5. \/ trail'["log"] = trail["log"] /\ marked'["log"] = marked["log"]
        \/ Store!Leaves(r, "log")
    <3>1. CASE UNCHANGED store
      BY <3>1 DEF store, Trail, Marked
    <3>2. CASE /\ key \notin Marked /\ Marked' = Marked \cup {key}
               /\ Trail' \in {Trail, Append(Trail, key)}
      <4>1. calls[r].state = "called" /\ calls[r].key = key /\ [k \in Keys |-> "log"][key] = "log"
        BY <1>1, <1>2
      <4>2. /\ key \notin marked["log"] /\ marked'["log"] = marked["log"] \cup {key}
            /\ trail'["log"] \in {trail["log"], Append(trail["log"], key)}
        BY <3>2
      <4> QED BY <4>1, <4>2 DEF Store!Leaves, Trail, Marked
    <3>3. log' = log => Trail' = Trail
      BY DEF Trail
    <3> QED BY <1>6, <1>7, <1>8, <1>9, <3>1, <3>2, <3>3 DEF Record
  <2> QED BY <2>3, <2>4, <2>5 DEF Store!End, Trail, Marked
<1> QED BY <1>10, <1>11

\* Every request uses the store as an atomic append, for any number of
\* commands, rollups, messages and periods: of an append the service sees
\* what AppendsAreAtomic of DecisionStore_proofs says there is to see.
THEOREM StoreIsUsedAtomically == Spec => UsesAtomicAppend
<1>1. Init => Store!Init
  <2> SUFFICES ASSUME Init PROVE Store!Init
    OBVIOUS
  <2>1. Trail = <<>> /\ Marked = {}
    BY DEF Init, Trail, Marked
  <2>2. \A r \in Requests : AppendCall(r) = Store!Idle
    BY DEF Init, AppendCall, Store!Idle
  <2> QED BY <2>1, <2>2 DEF Store!Init, Trail, Marked
<1>2. KeysInv /\ KeysInv' /\ [Next]_vars => [Store!Next]_(Store!vars)
  <2> SUFFICES ASSUME KeysInv, KeysInv', [Next]_vars PROVE [Store!Next]_(Store!vars)
    OBVIOUS
  <2>1. ASSUME NEW r \in Requests,
               AppendSkips(r) \/ AppendCommits(r) \/ AppendRaises(r)
        PROVE  Store!Next
    <3>1. {r} \in SUBSET Requests
      OBVIOUS
    <3> QED BY <2>1, <3>1, EndStep DEF Store!Next
  <2>2. ASSUME NEW r \in Requests, Invoke(r) \/ Step(r),
               ~(AppendSkips(r) \/ AppendCommits(r) \/ AppendRaises(r))
        PROVE  [Store!Next]_(Store!vars)
    <3>1. work'[r].key \in Keys
      BY DEF KeysInv, TypeOK, Work
    <3> QED BY <2>2, <3>1, CallStep DEF Store!Next, Step
  <2>3. CASE UNCHANGED <<stage, work, store, outcome>>
    <3>1. UNCHANGED Store!vars
      BY <2>3 DEF Store!vars, AppendCall, store
    <3> QED BY <3>1
  <2>4. \/ \E r \in Requests : Invoke(r) \/ Step(r)
        \/ UNCHANGED <<stage, work, store, outcome>>
    BY DEF Next, MessageArrives, PeriodEnds, vars
  <2> QED BY <2>1, <2>2, <2>3, <2>4
<1> QED BY <1>1, <1>2, KeysInvariant, PTL DEF Spec, UsesAtomicAppend, Store!Spec
=============================================================================
