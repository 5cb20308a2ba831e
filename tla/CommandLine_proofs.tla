------------------------- MODULE CommandLine_proofs -------------------------
(***************************************************************************)
(* What holds of CommandLine for any number of calls, threads, configs,    *)
(* edits and failing appends.                                              *)
(***************************************************************************)
EXTENDS CommandLine, TLAPS

Place(p) == IF opts[p].commit THEN "commit" ELSE IF opts[p].out THEN "out" ELSE "stdout"

\* What a call has done by the stage it is at.
CallInv(p) ==
    /\ proc[p].stage \in {"start", "build"} => proc[p].calls = 0
    /\ proc[p].stage = "ask" => proc[p].calls <= 1
    /\ proc[p].stage # "exited" => proc[p].exit = "running"
    /\ proc[p].stage \in {"start", "build", "ask", "emit", "append"} => proc[p].outputs = {}
    /\ proc[p].stage = "append" => opts[p].commit
    /\ proc[p].stage = "gate" => proc[p].outputs = {Place(p)}
    /\ Finished(p, "0") /\ opts[p].command = "digest-file" =>
         proc[p].outputs = {Place(p)} /\ (opts[p].fail_on_drop => proc[p].clean)
    /\ Finished(p, "2") => proc[p].calls = 0 /\ proc[p].outputs = {}

CallsInv == \A p \in Invocations : CallInv(p)

Settled(p) == proc[p].stage \in {"gate", "exited"}

\* What the store has of the calls: at most one key per thread, entries with
\* their keys, keys of calls that are past their append.
KeyInv(d, k) ==
    /\ Settled(k.by)
    /\ opts[k.by].command = "digest-file"
    /\ k \in log[d] \/ (Finished(k.by, "1") /\ proc[k.by].outputs = {})

StoreInv ==
    /\ \A d \in Dirs : log[d] \subseteq keys[d]
    /\ \A d \in Dirs : \A j, k \in keys[d] : j.thread = k.thread => j = k
    /\ \A d \in Dirs : \A k \in keys[d] : KeyInv(d, k)

\* A call that said it committed finds a key of its thread.
CommitInv(p) ==
    "commit" \in proc[p].outputs =>
      Settled(p) /\ \E k \in keys[proc[p].dir] : k.thread = proc[p].thread

CommitsInv == \A p \in Invocations : CommitInv(p)

\* The inductive invariant.
CommandInv == TypeOK /\ CallsInv /\ StoreInv /\ CommitsInv

----------------------------------------------------------------------------
\* A step of one call that leaves the store alone.
Quiet(p) ==
    \/ BadFormat(p) \/ LoadThread(p) \/ BuildLlm(p)
    \/ Answered(p) \/ Misanswered(p) \/ RetryMisanswered(p) \/ FetchRaises(p)
    \/ PrintDigest(p) \/ WriteOut(p) \/ EmitFails(p)
    \/ OpenStore(p) \/ Gate(p) \/ Search(p) \/ Rollup(p) \/ Run(p)

\* What such a step keeps of the call.
Kept(p) ==
    /\ Settled(p) =>
         /\ proc[p].stage = "gate" /\ proc'[p].stage = "exited"
         /\ proc'[p].thread = proc[p].thread /\ proc'[p].dir = proc[p].dir
         /\ proc'[p].outputs = proc[p].outputs
    /\ "commit" \in proc'[p].outputs => Settled(p)

LEMMA QuietStep ==
    ASSUME TypeOK, CallsInv, NEW p \in Invocations, Quiet(p)
    PROVE  /\ UNCHANGED <<files, opts, store>>
           /\ \A q \in Invocations : q # p => proc'[q] = proc[q]
           /\ proc'[p] \in Processes
           /\ CallInv(p)'
           /\ Kept(p)
<1> DEFINE Goal == /\ UNCHANGED <<files, opts, store>>
                   /\ \A q \in Invocations : q # p => proc'[q] = proc[q]
                   /\ proc'[p] \in Processes
                   /\ CallInv(p)'
                   /\ Kept(p)
<1> SUFFICES Goal
  OBVIOUS
<1>0. /\ proc \in [Invocations -> Processes] /\ proc[p] \in Processes /\ CallInv(p)
      /\ {opts[p].config, opts[p].commit, opts[p].out, opts[p].fail_on_drop} \subseteq BOOLEAN
  BY OptionsAssumption DEF TypeOK, CallsInv
<1> USE <1>0 DEF Processes, CallInv, Kept, Settled, Finished, Place, At, Exit, UsageError,
                 Traceback, files, store
<1>1. CASE BadFormat(p)
  BY <1>1 DEF BadFormat
<1>2. CASE LoadThread(p)
  BY <1>2 DEF LoadThread, TypeOK
<1>3. CASE BuildLlm(p)
  BY <1>3 DEF BuildLlm
<1>4. CASE Answered(p)
  BY <1>4 DEF Answered, CleanReports
<1>5. CASE Misanswered(p)
  BY <1>5 DEF Misanswered
<1>15. CASE RetryMisanswered(p)
  BY <1>15 DEF RetryMisanswered
<1>6. CASE FetchRaises(p)
  BY <1>6 DEF FetchRaises
<1>7. CASE PrintDigest(p)
  BY <1>7 DEF PrintDigest, Emit
<1>8. CASE WriteOut(p)
  BY <1>8 DEF WriteOut, Emit
<1>9. CASE EmitFails(p)
  BY <1>9 DEF EmitFails
<1>10. CASE OpenStore(p)
  BY <1>10 DEF OpenStore, Dirs, ConfigBroken
<1>11. CASE Gate(p)
  BY <1>11 DEF Gate
<1>12. CASE Search(p)
  BY <1>12 DEF Search
<1>13. CASE Rollup(p)
  BY <1>13 DEF Rollup
<1>14. CASE Run(p)
  BY <1>14 DEF Run
<1> QED BY <1>1, <1>2, <1>3, <1>4, <1>5, <1>6, <1>7, <1>8, <1>9, <1>10, <1>11, <1>12,
           <1>13, <1>14, <1>15 DEF Quiet

LEMMA QuietProc ==
    ASSUME TypeOK, CallsInv, NEW p \in Invocations, Quiet(p)
    PROVE  proc' \in [Invocations -> Processes]
<1>1. proc'[p] \in Processes /\ \A q \in Invocations : q # p => proc'[q] = proc[q]
  BY QuietStep
<1>2. proc' = [q \in Invocations |-> proc'[q]]
  BY DEF TypeOK, Quiet, BadFormat, LoadThread, BuildLlm, Answered, Misanswered, RetryMisanswered,
         FetchRaises, PrintDigest, WriteOut, EmitFails, OpenStore, Gate, Search, Rollup, Run,
         Emit, UsageError, Traceback, Exit
<1> QED BY <1>1, <1>2 DEF TypeOK

\* Such a step keeps what the store has of the calls, and of whom.
LEMMA QuietStore ==
    ASSUME TypeOK, CallsInv, StoreInv, CommitsInv, NEW p \in Invocations, Quiet(p)
    PROVE  StoreInv' /\ CommitsInv'
<1>1. /\ opts' = opts /\ keys' = keys /\ log' = log
      /\ \A q \in Invocations : q # p => proc'[q] = proc[q]
      /\ Kept(p) /\ CallInv(p)
  BY QuietStep DEF files, store, CallsInv
<1>2. ASSUME NEW q \in Invocations, Settled(q)
      PROVE  /\ Settled(q)' /\ proc'[q].outputs = proc[q].outputs
             /\ proc'[q].thread = proc[q].thread /\ proc'[q].dir = proc[q].dir
             /\ Finished(q, "1") => Finished(q, "1")'
  <2>1. CASE q = p
    BY <1>1, <1>2, <2>1 DEF Kept, Settled, CallInv, Finished
  <2>2. CASE q # p
    BY <1>1, <1>2, <2>2 DEF Settled, Finished
  <2> QED BY <2>1, <2>2
<1>3. StoreInv'
  <2>1. ASSUME NEW d \in Dirs, NEW k \in keys[d] PROVE KeyInv(d, k)'
    <3>1. KeyInv(d, k) /\ k.by \in Invocations
      BY DEF StoreInv, TypeOK, Entries
    <3> QED BY <1>1, <1>2, <3>1 DEF KeyInv
  <2> QED BY <1>1, <2>1 DEF StoreInv
<1>4. ASSUME NEW q \in Invocations PROVE CommitInv(q)'
  <2>1. "commit" \in proc'[q].outputs => Settled(q)
    BY <1>1 DEF Kept, CommitsInv, CommitInv, Settled
  <2>2. CommitInv(q)
    BY DEF CommitsInv
  <2> QED BY <1>1, <1>2, <2>1, <2>2 DEF CommitInv
<1> QED BY <1>3, <1>4 DEF CommitsInv

\* What the two steps that append do: the call, which was not settled before,
\* says that it committed or has failed, and its key is new if there is one.
Appended(p) ==
    LET d == proc[p].dir
        e == Entry(p)
    IN  /\ \/ UNCHANGED <<keys, log>>
           \/ /\ ~IsProcessed(d, proc[p].thread)
              /\ keys' = [keys EXCEPT ![d] = @ \cup {e}]
              /\ log' \in {log, [log EXCEPT ![d] = @ \cup {e}]}
        /\ \/ /\ proc' = [proc EXCEPT ![p].stage = "gate", ![p].outputs = @ \cup {"commit"}]
              /\ \/ IsProcessed(d, proc[p].thread) /\ UNCHANGED <<keys, log>>
                 \/ /\ keys' = [keys EXCEPT ![d] = @ \cup {e}]
                    /\ log' = [log EXCEPT ![d] = @ \cup {e}]
           \/ proc' = [proc EXCEPT ![p].stage = "exited", ![p].exit = "1"]
        /\ UNCHANGED <<files, opts>>
        /\ At(p, "digest-file", "append")

LEMMA AppendSteps ==
    ASSUME NEW p \in Invocations, AppendEntry(p) \/ AppendRaises(p)
    PROVE  Appended(p)
<1>1. CASE AppendEntry(p)
  BY <1>1 DEF AppendEntry, Appended, Committed, RecordEntry, RecordKey
<1>2. CASE AppendRaises(p)
  BY <1>2 DEF AppendRaises, Appended, Exit, RecordEntry, RecordKey
<1> QED BY <1>1, <1>2

LEMMA AppendedCall ==
    ASSUME TypeOK, CallsInv, NEW p \in Invocations, Appended(p)
    PROVE  TypeOK' /\ CallsInv'
<1>0. /\ proc[p] \in Processes /\ CallInv(p) /\ proc[p].stage = "append"
      /\ Entry(p) \in Entries /\ proc[p].dir \in Dirs
  BY DEF TypeOK, CallsInv, Appended, At, Entry, Entries, Processes
<1>1. /\ proc'[p] \in Processes /\ CallInv(p)'
      /\ proc' \in [Invocations -> Processes]
      /\ \A q \in Invocations : q # p => proc'[q] = proc[q]
  BY <1>0 DEF TypeOK, Appended, Processes, CallInv, Finished, Place
<1>2. keys' \in [Dirs -> SUBSET Entries]
  <2>1. keys[proc[p].dir] \cup {Entry(p)} \in SUBSET Entries
    BY <1>0 DEF TypeOK
  <2> QED BY <1>0, <2>1 DEF TypeOK, Appended
<1>3. log' \in [Dirs -> SUBSET Entries]
  <2>1. log[proc[p].dir] \cup {Entry(p)} \in SUBSET Entries
    BY <1>0 DEF TypeOK
  <2> QED BY <1>0, <2>1 DEF TypeOK, Appended
<1>4. opts' = opts /\ threadFile' = threadFile /\ configFile' = configFile
  BY DEF Appended, files
<1>5. TypeOK'
  BY <1>1, <1>2, <1>3, <1>4 DEF TypeOK
<1>6. ASSUME NEW q \in Invocations, q # p PROVE CallInv(q)'
  BY <1>1, <1>4, <1>6 DEF CallsInv, CallInv, Finished, Place
<1> QED BY <1>1, <1>5, <1>6 DEF CallsInv

LEMMA AppendedStore ==
    ASSUME TypeOK, CallsInv, StoreInv, CommitsInv, NEW p \in Invocations, Appended(p)
    PROVE  StoreInv' /\ CommitsInv'
<1> DEFINE d == proc[p].dir
           e == Entry(p)
<1>0. /\ proc[p] \in Processes /\ CallInv(p) /\ proc[p].stage = "append" /\ ~Settled(p)
      /\ opts[p].command = "digest-file" /\ opts' = opts /\ d \in Dirs
      /\ proc[p].outputs = {}
  BY DEF TypeOK, CallsInv, CallInv, Appended, At, Processes, Settled
<1>1. /\ \A q \in Invocations : q # p => proc'[q] = proc[q]
      /\ Settled(p)'
      /\ proc'[p].thread = proc[p].thread /\ proc'[p].dir = d
      /\ \/ proc'[p].outputs = {"commit"}
         \/ proc'[p].outputs = {} /\ Finished(p, "1")'
  BY <1>0 DEF TypeOK, Appended, Processes, Settled, Finished
<1>2. ASSUME NEW c \in Dirs, NEW k \in keys[c]
      PROVE  /\ KeyInv(c, k) /\ k.by \in Invocations /\ k.by # p
             /\ opts'[k.by] = opts[k.by] /\ proc'[k.by] = proc[k.by]
  BY <1>0, <1>1 DEF StoreInv, KeyInv, TypeOK, Entries
<1>3. /\ e.by = p /\ e.thread = proc[p].thread
      /\ IsProcessed(d, proc[p].thread) <=> \E k \in keys[d] : k.thread = proc[p].thread
  BY DEF Entry, IsProcessed
<1> HIDE DEF d, e
<1>4. ASSUME UNCHANGED <<keys, log>> PROVE StoreInv'
  <2>1. ASSUME NEW c \in Dirs, NEW k \in keys'[c] PROVE KeyInv(c, k)'
    BY <1>2, <1>4, <2>1 DEF KeyInv, Settled, Finished
  <2>2. \A c \in Dirs : log'[c] \subseteq keys'[c]
    BY <1>4 DEF StoreInv
  <2>3. \A c \in Dirs : \A j, k \in keys'[c] : j.thread = k.thread => j = k
    BY <1>4 DEF StoreInv
  <2> QED BY <2>1, <2>2, <2>3 DEF StoreInv
<1>5. ASSUME /\ ~IsProcessed(d, proc[p].thread)
             /\ keys' = [keys EXCEPT ![d] = @ \cup {e}]
             /\ log' \in {log, [log EXCEPT ![d] = @ \cup {e}]}
      PROVE  StoreInv'
  <2>1. /\ \A c \in Dirs : keys'[c] = IF c = d THEN keys[c] \cup {e} ELSE keys[c]
        /\ \A c \in Dirs : log[c] \subseteq log'[c]
        /\ \A c \in Dirs : log'[c] \subseteq IF c = d THEN log[c] \cup {e} ELSE log[c]
    BY <1>0, <1>5 DEF TypeOK
  <2>2. \A c \in Dirs : log'[c] \subseteq keys'[c]
    BY <2>1 DEF StoreInv
  <2>3. ASSUME NEW c \in Dirs, NEW j \in keys'[c], NEW k \in keys'[c], j.thread = k.thread
        PROVE  j = k
    BY <1>3, <1>5, <2>1, <2>3 DEF StoreInv
  <2>4. ASSUME NEW c \in Dirs, NEW k \in keys'[c] PROVE KeyInv(c, k)'
    <3>1. CASE k \in keys[c]
      BY <1>2, <2>1, <3>1 DEF KeyInv, Settled, Finished
    <3>2. CASE k \notin keys[c]
      <4>1. c = d /\ k = e
        BY <2>1, <3>2
      <4>2. e \in log'[d] \/ (Finished(p, "1")' /\ proc'[p].outputs = {})
        <5>1. CASE proc' = [proc EXCEPT ![p].stage = "exited", ![p].exit = "1"]
          BY <1>0, <5>1 DEF TypeOK, Processes, Finished
        <5>2. CASE log' = [log EXCEPT ![d] = @ \cup {e}]
          BY <1>0, <5>2 DEF TypeOK
        <5> QED BY <1>5, <5>1, <5>2 DEF Appended, d, e
      <4> QED BY <1>0, <1>1, <1>3, <4>1, <4>2 DEF KeyInv, Finished
    <3> QED BY <3>1, <3>2
  <2> QED BY <2>2, <2>3, <2>4 DEF StoreInv
<1>6. ASSUME NEW q \in Invocations PROVE CommitInv(q)'
  <2>1. \A c \in Dirs : keys[c] \subseteq keys'[c]
    <3>1. CASE UNCHANGED keys
      BY <3>1
    <3>2. CASE keys' = [keys EXCEPT ![d] = @ \cup {e}]
      BY <1>0, <3>2 DEF TypeOK
    <3> QED BY <3>1, <3>2 DEF Appended, d, e
  <2>2. CASE q # p
    <3>1. CommitInv(q) /\ proc'[q] = proc[q]
      BY <1>1, <2>2 DEF CommitsInv
    <3>2. proc[q] \in Processes
      BY DEF TypeOK
    <3>3. proc[q].dir \in Dirs
      BY <3>2 DEF Processes
    <3> QED BY <2>1, <3>1, <3>3 DEF CommitInv, Settled
  <2>3. CASE q = p
    <3>1. ASSUME "commit" \in proc'[p].outputs
          PROVE  \E k \in keys'[d] : k.thread = proc[p].thread
      <4>1. \/ IsProcessed(d, proc[p].thread)
            \/ keys' = [keys EXCEPT ![d] = @ \cup {e}]
        BY <1>0, <3>1 DEF Appended, TypeOK, d, e, Processes
      <4> QED BY <1>0, <1>3, <2>1, <4>1 DEF TypeOK
    <3> QED BY <1>1, <2>3, <3>1 DEF CommitInv
  <2> QED BY <2>2, <2>3
<1> QED BY <1>4, <1>5, <1>6 DEF Appended, CommitsInv, d, e

----------------------------------------------------------------------------
LEMMA InitLemma ==
    ASSUME Init
    PROVE  CommandInv
<1>1. TypeOK
  BY ThreadsAssumption DEF Init, TypeOK, Processes, Started, Dirs
<1>2. CallsInv
  BY DEF Init, CallsInv, CallInv, Started, Finished
<1>3. StoreInv
  BY DEF Init, StoreInv
<1>4. CommitsInv
  BY DEF Init, CommitsInv, CommitInv, Started
<1> QED BY <1>1, <1>2, <1>3, <1>4 DEF CommandInv

LEMMA EditsLemma ==
    ASSUME CommandInv, EditThread \/ EditConfig \/ UNCHANGED vars
    PROVE  CommandInv'
<1>1. /\ UNCHANGED <<opts, proc, keys, log>>
      /\ threadFile' \in Threads \cup {"missing", "undecodable", "invalid"}
      /\ configFile' \in Configs \cup {"broken"}
  BY DEF EditThread, EditConfig, vars, files, store, CommandInv, TypeOK
<1>2. TypeOK'
  BY <1>1 DEF CommandInv, TypeOK
<1>3. CallsInv'
  BY <1>1 DEF CommandInv, CallsInv, CallInv, Finished, Place
<1>4. StoreInv'
  BY <1>1 DEF CommandInv, StoreInv, KeyInv, Settled, Finished
<1>5. CommitsInv'
  BY <1>1 DEF CommandInv, CommitsInv, CommitInv, Settled
<1> QED BY <1>2, <1>3, <1>4, <1>5 DEF CommandInv

LEMMA StepLemma ==
    ASSUME CommandInv, NEW p \in Invocations, Step(p)
    PROVE  CommandInv'
<1> USE DEF CommandInv
<1>1. CASE Quiet(p)
  <2>1. /\ UNCHANGED <<files, opts, store>> /\ proc'[p] \in Processes /\ CallInv(p)'
        /\ \A q \in Invocations : q # p => proc'[q] = proc[q]
    BY <1>1, QuietStep
  <2>2. proc' \in [Invocations -> Processes]
    BY <1>1, <2>1, QuietProc DEF TypeOK
  <2>3. TypeOK'
    BY <2>1, <2>2 DEF TypeOK, files, store
  <2>4. ASSUME NEW q \in Invocations, q # p PROVE CallInv(q)'
    BY <2>1, <2>4 DEF CallsInv, CallInv, Finished, Place
  <2>5. CallsInv'
    BY <2>1, <2>4 DEF CallsInv
  <2> QED BY <1>1, <2>3, <2>5, QuietStore
<1>2. CASE AppendEntry(p) \/ AppendRaises(p)
  BY <1>2, AppendSteps, AppendedCall, AppendedStore
<1> QED BY <1>1, <1>2 DEF Step, Quiet

\* The inductive invariant holds of every execution.
THEOREM CommandInvariant == Spec => []CommandInv
<1>1. Init => CommandInv
  BY InitLemma
<1>2. CommandInv /\ [Next]_vars => CommandInv'
  BY EditsLemma, StepLemma DEF Next
<1> QED BY <1>1, <1>2, PTL DEF Spec

\* The type invariant, and with it that the model is asked at most twice.
THEOREM TypeCorrect == Spec => []TypeOK
<1>1. CommandInv => TypeOK
  BY DEF CommandInv
<1> QED BY <1>1, CommandInvariant, PTL

\* The exit code of digest-file tells where the digest went, that the gate was
\* passed, or that nothing happened yet.
THEOREM ExitCode == Spec => []ExitCodeTells
<1>1. CommandInv => ExitCodeTells
  BY DEF CommandInv, CallsInv, CallInv, Place, ExitCodeTells
<1> QED BY <1>1, CommandInvariant, PTL

\* Repeated and concurrent calls leave one entry of a digest.
THEOREM OneEntry == Spec => []RerunsLeaveOneEntry
<1>1. ASSUME CommandInv PROVE RerunsLeaveOneEntry
  <2> USE <1>1 DEF CommandInv
  <2>1. ASSUME NEW d \in Dirs, NEW e \in log[d], NEW f \in log[d], e.thread = f.thread
        PROVE  e = f
    BY <2>1 DEF StoreInv
  <2>2. ASSUME NEW p \in Invocations, "commit" \in proc[p].outputs
        PROVE  \E k \in keys[proc[p].dir] :
                   /\ k.thread = proc[p].thread
                   /\ k \in log[proc[p].dir] \/ (Finished(k.by, "1") /\ proc[k.by].outputs = {})
    <3>1. proc[p] \in Processes
      BY DEF TypeOK
    <3>2. proc[p].dir \in Dirs
      BY <3>1 DEF Processes
    <3>3. PICK k \in keys[proc[p].dir] : k.thread = proc[p].thread
      BY <2>2 DEF CommitsInv, CommitInv
    <3>4. KeyInv(proc[p].dir, k)
      BY <3>2 DEF StoreInv
    <3> QED BY <3>3, <3>4 DEF KeyInv
  <2> QED BY <2>1, <2>2 DEF RerunsLeaveOneEntry
<1> QED BY <1>1, CommandInvariant, PTL
=============================================================================
