---------------------------- MODULE CommandLine ----------------------------
(***************************************************************************)
(* The commands of cli.py as processes that run side by side and again:    *)
(* digest-file, with the backends that factory.py builds from an option    *)
(* or a config file and the retry of llm/fake.py, and search, rollup and   *)
(* run.  Meanwhile the thread file and the config file are edited.         *)
(*                                                                         *)
(* An append is one step, as DecisionStore and AuditTrail establish.       *)
(* Contents of the thread file are told apart by the key of their digest.  *)
(* Of a digest it matters which of them it was made of, and whether        *)
(* grounding dropped anything of the answer, as Grounding decides.         *)
(***************************************************************************)
EXTENDS Naturals, FiniteSets

CONSTANTS
    Invocations,  \* processes
    Options,      \* the command lines they are started with
    Threads,      \* valid contents of the thread file
    EmptyThread,  \* the one without messages
    Configs,      \* valid contents of the config file
    ProviderOf,   \* the provider, or the fixture, that a config selects
    DirOf,        \* its storage.decisions_dir
    DefaultDir,   \* docs/decisions
    HasPlatforms, \* the configs with a platform
    Drops,        \* fixtures and threads whose answer is not all grounded
    MaxEdits,     \* bound: edits of the two files
    MaxFailures   \* bound: appends that raise

ASSUME ThreadsAssumption == EmptyThread \in Threads
ASSUME OptionsAssumption ==
    \A o \in Options : {o.config, o.commit, o.out, o.fail_on_drop} \subseteq BOOLEAN

VARIABLES
    threadFile,  \* what is in the thread file
    configFile,  \* what is in the config file
    edits,       \* edits of the two so far
    opts,        \* per process: its command line
    proc,        \* per process: where it is and what it has
    keys,        \* per directory: the sidecar, each thread with who recorded it
    log,         \* per directory: the entries, each with who wrote it
    failures     \* appends that raised

files == <<threadFile, configFile, edits>>
store == <<keys, log, failures>>
vars == <<files, opts, proc, store>>

Dirs == {DefaultDir} \cup {DirOf[c] : c \in Configs}
Fixtures == {"happy", "invalid_ids", "fabricated_quote", "empty",
             "schema_mismatch", "schema_mismatch_persistent"}
Services == {"openai", "anthropic", "ollama"}

Started == [stage |-> "start", thread |-> EmptyThread, llm |-> "none", calls |-> 0,
            clean |-> TRUE, dir |-> DefaultDir, outputs |-> {}, exit |-> "running"]

Init ==
    /\ threadFile \in Threads
    /\ configFile \in Configs
    /\ edits = 0
    /\ opts \in [Invocations -> Options]
    /\ proc = [p \in Invocations |-> Started]
    /\ keys = [d \in Dirs |-> {}]
    /\ log = [d \in Dirs |-> {}]
    /\ failures = 0

At(p, command, stage) == opts[p].command = command /\ proc[p].stage = stage

Exit(p, code) == proc' = [proc EXCEPT ![p].stage = "exited", ![p].exit = code]

\* typer.Exit with EXIT_USAGE_ERROR; any other exception ends in a traceback.
UsageError(p) == Exit(p, "2") /\ UNCHANGED <<files, opts, store>>
Traceback(p) == Exit(p, "1") /\ UNCHANGED <<files, opts, store>>

\* load_config raises for a file that is missing or does not conform.
ConfigBroken(p) == opts[p].config /\ configFile \notin Configs

----------------------------------------------------------------------------
(* digest-file: reading its input *)

BadFormat(p) ==
    /\ At(p, "digest-file", "start")
    /\ opts[p].format = "unknown"
    /\ UsageError(p)

\* _load_thread_input; a file that is no UTF-8 is not caught.
LoadThread(p) ==
    /\ At(p, "digest-file", "start")
    /\ opts[p].format # "unknown"
    /\ CASE threadFile \in {"missing", "invalid"} -> UsageError(p)
         [] threadFile = "undecodable" -> Traceback(p)
         [] OTHER -> /\ proc' = [proc EXCEPT ![p].stage = "build", ![p].thread = threadFile]
                     /\ UNCHANGED <<files, opts, store>>

Provider(p) == IF opts[p].config THEN ProviderOf[configFile] ELSE opts[p].fixture

\* _build_llm_from_config and build_llm: a provider whose extra is missing
\* or a fixture that FakeLLM does not know is not caught.  The model is not
\* asked about an empty thread.
BuildLlm(p) ==
    /\ At(p, "digest-file", "build")
    /\ IF ConfigBroken(p) \/ Provider(p) \notin Fixtures \cup Services
       THEN Traceback(p)
       ELSE /\ proc' = [proc EXCEPT ![p].llm = Provider(p),
                           ![p].stage = IF proc[p].thread = EmptyThread THEN "emit" ELSE "ask"]
            /\ UNCHANGED <<files, opts, store>>

----------------------------------------------------------------------------
(* digest-file: asking the model *)

\* FakeLLM: the retry fixtures answer with malformed text first or always.
FakeAnswers(fixture, calls) ==
    CASE fixture = "schema_mismatch_persistent" -> {"malformed"}
      [] fixture = "schema_mismatch" -> IF calls = 0 THEN {"malformed"} ELSE {"valid"}
      [] OTHER -> {"valid"}

\* A service may return any text, or none, or raise.
Answers(p) ==
    IF proc[p].llm \in Services THEN {"valid", "malformed", "raises"}
    ELSE FakeAnswers(proc[p].llm, proc[p].calls)

\* A fixture always gives the same digest of a thread, a service may not.
CleanReports(p) ==
    IF proc[p].llm \in Services THEN BOOLEAN
    ELSE {<<proc[p].llm, proc[p].thread>> \notin Drops}

\* The answer is parsed and grounded.
Answered(p) ==
    /\ At(p, "digest-file", "ask")
    /\ "valid" \in Answers(p)
    /\ \E clean \in CleanReports(p) :
           proc' = [proc EXCEPT ![p].stage = "emit", ![p].calls = @ + 1, ![p].clean = clean]
    /\ UNCHANGED <<files, opts, store>>

\* run_with_retry: fetch is called once more, with the error.
Misanswered(p) ==
    /\ At(p, "digest-file", "ask")
    /\ proc[p].calls = 0
    /\ "malformed" \in Answers(p)
    /\ proc' = [proc EXCEPT ![p].calls = 1]
    /\ UNCHANGED <<files, opts, store>>

\* Variant: the retry is retried.
RetryStartsOver(p) ==
    /\ At(p, "digest-file", "ask")
    /\ proc[p].calls = 1
    /\ "malformed" \in Answers(p)
    /\ proc' = [proc EXCEPT ![p].calls = 0]
    /\ UNCHANGED <<files, opts, store>>

\* The second answer does not parse either: LLMError.
RetryMisanswered(p) ==
    /\ At(p, "digest-file", "ask")
    /\ proc[p].calls = 1
    /\ "malformed" \in Answers(p)
    /\ proc' = [proc EXCEPT ![p].calls = 2, ![p].stage = "exited", ![p].exit = "1"]
    /\ UNCHANGED <<files, opts, store>>

\* fetch raises outside the try: no retry.
FetchRaises(p) ==
    /\ At(p, "digest-file", "ask")
    /\ "raises" \in Answers(p)
    /\ Traceback(p)

----------------------------------------------------------------------------
(* digest-file: the digest goes to one place, then the gate *)

Emit(p, place) ==
    /\ At(p, "digest-file", "emit")
    /\ proc' = [proc EXCEPT ![p].stage = "gate", ![p].outputs = @ \cup {place}]
    /\ UNCHANGED <<files, opts, store>>

PrintDigest(p) == ~opts[p].commit /\ ~opts[p].out /\ Emit(p, "stdout")

\* Variant: --out is looked at before --commit.
WriteOutFirst(p) == opts[p].out /\ Emit(p, "out")

WriteOut(p) == ~opts[p].commit /\ opts[p].out /\ Emit(p, "out")

\* The file or its directory cannot be written, or stdout is closed.
EmitFails(p) ==
    /\ At(p, "digest-file", "emit")
    /\ ~opts[p].commit
    /\ Traceback(p)

\* _commit_entry reads the config again, as it is by now.
OpenStore(p) ==
    /\ At(p, "digest-file", "emit")
    /\ opts[p].commit
    /\ IF ConfigBroken(p)
       THEN Traceback(p)
       ELSE /\ proc' = [proc EXCEPT ![p].stage = "append",
                           ![p].dir = IF opts[p].config THEN DirOf[configFile] ELSE DefaultDir]
            /\ UNCHANGED <<files, opts, store>>

Entry(p) == [thread |-> proc[p].thread, by |-> p]

IsProcessed(d, t) == \E k \in keys[d] : k.thread = t

RecordKey(p) == keys' = [keys EXCEPT ![proc[p].dir] = @ \cup {Entry(p)}]

RecordEntry(p) == RecordKey(p) /\ log' = [log EXCEPT ![proc[p].dir] = @ \cup {Entry(p)}]

\* "Committed digest for channel": after a commit and after a skip.
Committed(p) == proc' = [proc EXCEPT ![p].stage = "gate", ![p].outputs = @ \cup {"commit"}]

\* Variant: no check for the key.
AppendAnyway(p) ==
    /\ At(p, "digest-file", "append")
    /\ Committed(p)
    /\ RecordEntry(p)
    /\ UNCHANGED <<files, opts, failures>>

\* DecisionStore.append
AppendEntry(p) ==
    /\ At(p, "digest-file", "append")
    /\ Committed(p)
    /\ IF IsProcessed(proc[p].dir, proc[p].thread) THEN UNCHANGED <<keys, log>> ELSE RecordEntry(p)
    /\ UNCHANGED <<files, opts, failures>>

\* It raises, and left nothing, the key alone, or both.
AppendRaises(p) ==
    /\ At(p, "digest-file", "append")
    /\ failures < MaxFailures
    /\ failures' = failures + 1
    /\ Exit(p, "1")
    /\ \/ UNCHANGED <<keys, log>>
       \/ /\ ~IsProcessed(proc[p].dir, proc[p].thread)
          /\ (RecordKey(p) /\ UNCHANGED log) \/ RecordEntry(p)
    /\ UNCHANGED <<files, opts>>

\* --fail-on-drop, after the digest is out.
Gate(p) ==
    /\ At(p, "digest-file", "gate")
    /\ Exit(p, IF opts[p].fail_on_drop /\ ~proc[p].clean THEN "1" ELSE "0")
    /\ UNCHANGED <<files, opts, store>>

----------------------------------------------------------------------------
(* The commands that only read *)

\* Options (an unknown format stands for any that is refused) are checked
\* before the config is read.
Search(p) ==
    /\ At(p, "search", "start")
    /\ CASE opts[p].format = "unknown" -> UsageError(p)
         [] opts[p].format # "unknown" /\ ConfigBroken(p) -> Traceback(p)
         [] OTHER -> Exit(p, "0") /\ UNCHANGED <<files, opts, store>>

Rollup(p) ==
    /\ At(p, "rollup", "start")
    /\ IF ConfigBroken(p) THEN Traceback(p)
       ELSE Exit(p, "0") /\ UNCHANGED <<files, opts, store>>

Run(p) ==
    /\ At(p, "run", "start")
    /\ CASE ConfigBroken(p) -> Traceback(p)
         [] configFile \in Configs \ HasPlatforms -> UsageError(p)
         [] OTHER -> Exit(p, "0") /\ UNCHANGED <<files, opts, store>>

----------------------------------------------------------------------------
EditThread ==
    /\ edits < MaxEdits
    /\ edits' = edits + 1
    /\ threadFile' \in Threads \cup {"missing", "undecodable", "invalid"}
    /\ UNCHANGED <<configFile, opts, proc, store>>

EditConfig ==
    /\ edits < MaxEdits
    /\ edits' = edits + 1
    /\ configFile' \in Configs \cup {"broken"}
    /\ UNCHANGED <<threadFile, opts, proc, store>>

Step(p) ==
    \/ BadFormat(p) \/ LoadThread(p) \/ BuildLlm(p)
    \/ Answered(p) \/ Misanswered(p) \/ RetryMisanswered(p) \/ FetchRaises(p)
    \/ PrintDigest(p) \/ WriteOut(p) \/ EmitFails(p)
    \/ OpenStore(p) \/ AppendEntry(p) \/ AppendRaises(p) \/ Gate(p)
    \/ Search(p) \/ Rollup(p) \/ Run(p)

Next == EditThread \/ EditConfig \/ \E p \in Invocations : Step(p)

Spec == Init /\ [][Next]_vars

\* A process runs; a service answers or its client gives up.
FairSpec == Spec /\ \A p \in Invocations : WF_vars(Step(p))

----------------------------------------------------------------------------
(* Properties *)

Processes ==
    [stage : {"start", "build", "ask", "emit", "append", "gate", "exited"},
     thread : Threads, llm : Fixtures \cup Services \cup {"none"}, calls : 0..2,
     clean : BOOLEAN, dir : Dirs, outputs : SUBSET {"stdout", "out", "commit"},
     exit : {"running", "0", "1", "2"}]

Entries == [thread : Threads, by : Invocations]

TypeOK ==
    /\ threadFile \in Threads \cup {"missing", "undecodable", "invalid"}
    /\ configFile \in Configs \cup {"broken"}
    /\ opts \in [Invocations -> Options]
    /\ proc \in [Invocations -> Processes]
    /\ keys \in [Dirs -> SUBSET Entries]
    /\ log \in [Dirs -> SUBSET Entries]

Finished(p, code) == proc[p].exit = code

\* What a script can tell from the exit code of digest-file: with 0 the digest
\* went to the one place that was asked for, --commit before --out, and under
\* --fail-on-drop nothing was dropped; with 2 the model was never asked and
\* nothing was written, so that a corrected call starts from the same state.
ExitCodeTells ==
    \A p \in Invocations :
        /\ Finished(p, "0") /\ opts[p].command = "digest-file" =>
             /\ proc[p].outputs = {IF opts[p].commit THEN "commit"
                                   ELSE IF opts[p].out THEN "out" ELSE "stdout"}
             /\ opts[p].fail_on_drop => proc[p].clean
        /\ Finished(p, "2") => proc[p].calls = 0 /\ proc[p].outputs = {}

\* Calls that are repeated after an error, a gate or an edit, and calls that
\* run at the same time, leave one entry of a digest in a directory.  Every
\* call that said it committed finds its digest recorded there, whoever did
\* it; only if that was a call that raised can the entry be missing.
RerunsLeaveOneEntry ==
    /\ \A d \in Dirs : \A e, f \in log[d] : e.thread = f.thread => e = f
    /\ \A p \in Invocations :
           "commit" \in proc[p].outputs =>
             \E k \in keys[proc[p].dir] :
                 /\ k.thread = proc[p].thread
                 /\ k \in log[proc[p].dir] \/ (Finished(k.by, "1") /\ proc[k.by].outputs = {})

\* Every call ends, whatever the model answers: the retry is bounded.
EveryCallExits == \A p \in Invocations : <>(proc[p].stage = "exited")
=============================================================================
