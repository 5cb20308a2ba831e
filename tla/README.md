# thread-digest-bot: TLA+ models and proofs

`thread-digest-bot` summarises chat threads into *digests* (decisions, action
items, open questions), posts them to the channel and appends them to a
Markdown log per channel, committed to a Git repository; each recorded entry is
also sent to webhooks.  This directory models the parts of it that have state
and order, checks them with TLC and proves what matters most with TLAPS.  The
source is `src/thread_digest_bot/`; paths below are relative to it.

## 1. Inventory

| Component | State | Operations | Model |
|---|---|---|---|
| `_FileLock`, `store.py` 112-282 | a `threading.Lock` per lock file and process, the `fcntl` lock, descriptors | enter (two waits with a deadline), exit | `FileLock`, abstract: `Mutex` |
| `DecisionStore`, `store.py` 284-606 | per channel: `.md` log, `.processed` sidecar; per repository: index, HEAD, commits, `.gitignore` | `append`: lock, recover an orphan, skip a duplicate, write key, write entry, commit, export | `DecisionStore`, abstract: `AuditTrail`, `AtomicAppend` |
| `HttpWebhookSink`, `webhook.py` | none of its own; what each endpoint has taken | `send`: per endpoint, attempts with backoff | `WebhookSink` |
| `IntervalScheduler`, `schedule.py` | registrations, `_running`, timer threads | `every`, `start`, `stop`, fire, reschedule | `IntervalScheduler` |
| Rollup jobs on the scheduler, `service.py` 180-230 | the period while a job runs, the logs | `schedule_rollup` | `RollupSchedule` |
| `DigestService`, rollups, `service.py`, `rollup.py` | none of its own; messages, replies, the store | `/digest` handler, scheduled rollup | `DigestService` |
| The fetch contract, `platforms/fake.py` | seeded channels, failing channels | `add_channel`, `set_fetch_failure`, `fetch_thread`; the arguments that reach it from `/digest` and a rollup | `Threads` |
| Identity keys, `types.py` 162-229, `webhook.py` 101-117 | pure | `compute_digest_key`, `compute_rollup_key`, the delivery id | `Identity`, in `Threads` |
| Permalinks, `links.py`, `platforms/telegram.py`, `platforms/slack.py` | pure | URL building | `Permalinks`, in `Threads` |
| CLI, `cli.py`, with `config.py`, `ingest.py`, `llm/factory.py` | the thread file, the config file, the store; per call its output and exit code | `digest-file`, `search`, `rollup`, `run` | `CommandLine` |
| LLM backends and retry, `llm/fake.py`, `llm/*.py` | pure | `run_with_retry`, the fixtures of `FakeLLM` | `CommandLine`, `DigestService` |
| Grounding, `grounding.py`, `digest.py` | the drop counters | an answer's citations resolved against the thread; made-up ids, fabricated quotes and unsupported items dropped | `Grounding` |
| Rendering and search, `render.py`, `search.py` | the log files | entry to Markdown, and Markdown back to items | `SearchLogs` |
| Live adapters: Telegram, Slack, OpenAI, Anthropic, Ollama | I/O | | not modelled beyond their links and their answers |

**How they interact.**  A command handler (`handle_digest`) or a timer thread
of the scheduler (`run_rollup_once`) fetches messages from the platform, asks
the model, grounds its answer in the messages, and calls
`DecisionStore.append`.  `append` holds the lock of its
channel from before it reads the files until its commit has landed, then,
*outside* the lock, hands a delivery to the webhook sink.  Several processes
(a bot, CLI calls) may append to the same repository.  `schedule_rollup`
registers one job per channel; the job computes its period key when it begins.
A `digest-file` call reads a thread file and a config file, asks the model,
then reads the config file *again* to open the store.  `search_logs` reads the
files as they are, without any lock.

**What is hard.**

- The lock is per channel and the Git index and HEAD are per repository:
  appends to different channels interleave inside `index.add`/`index.commit`.
- `append` makes two file writes and a commit, none atomic with the others; it
  can fail or be killed between any two, and the next append has to work out
  what happened from the files and HEAD alone (`_recover_orphan`).
- POSIX record locks belong to the process and vanish when *any* descriptor on
  the file is closed: threads of one process need the second layer.
- A timer thread sets up its successor after the job, when `stop` and `start`
  may both have been called in between.
- A rollup belongs to the period in which it began, and may be recorded
  periods later, next to rollups of another chain of timers.
- A command posts its reply before it appends; the two can disagree.
- A CLI call that failed, or whose gate said 1 after it had committed, is run
  again, over files that may have been edited, possibly next to another call.
- A POST may be taken by the endpoint and its answer lost.
- A model may cite ids, quotes and people that do not exist, in any mixture
  with real ones; ids in a thread may repeat and names may change.
- A digest is recognised by the set of messages it covers, and a link opens
  whatever its URL says: a key or a URL shared by two different things is
  noticed by nobody.
- Search reads free text back from the file it was rendered into, with state
  carried from line to line, while appends replace that file.

**What makes each component correct.**

- Lock: mutual exclusion across threads and processes; the kernel's lock is
  held throughout; nothing is left locked or leaked by errors, timeouts or
  kills; every call ends.
- Store: the log only grows at its end, no entry twice, no entry without its
  key (unless somebody else took that key out of the sidecar); recovery commits exactly what was left; damage is refused; one entry per
  commit; what is exported is committed, once; every append ends.
- Sink: bounded attempts, every endpoint tried, no sleep after the last
  attempt, duplicates explainable.
- Scheduler: a stopped scheduler is quiet, timers do not multiply by
  themselves.  With its rollups: a channel's log is in the order of the periods
  and no lasting period is left out.
- Identity and links: equal exactly if the things they name are.
- Fetch: what a thread leaves out, it admits.
- CLI: the exit code tells what happened, lost evidence under `--fail-on-drop`
  included; repeating a call is safe; every call ends.
- Service: one commit per key, one reply per command, a committed digest is the
  one shown, one that is shown without an error is on record, and an unusable
  answer never becomes a digest, not even an empty one.
- Grounding: nothing in the log is invented, nothing genuine is lost, and the
  counters account for the difference.
- Search: every matching item of every recorded entry, with the entry's own
  channel, key and link, and nothing else.

The complete list of hazards, each at its source line and with the properties
aimed at it, is `hazards` in `PROJECT.json`; where these cover a part of it
only, its note says which part is left.

## 2. Modules

| Module | What it is |
|---|---|
| `Mutex` | abstract lock: free, or held by one client |
| `FileLock` | the two-layer lock, step by step; refines `Mutex` |
| `AuditTrail` | abstract log: per channel, entries that only grow at the end, with their keys |
| `AtomicAppend` | abstract store: an append is one step that commits, or ends and left nothing, its key, or both |
| `DecisionStore` | `append`, step by step, over an explicit Git index and HEAD; refines `AuditTrail` and `AtomicAppend` |
| `WebhookSink` | `send`, post by post |
| `IntervalScheduler` | timers, jobs, `start` and `stop` |
| `RollupSchedule` | the scheduler with rollups as its jobs; extends and refines `IntervalScheduler` |
| `DigestService` | commands and rollups over an abstract store; refines `AtomicAppend` |
| `Identity` | the digest, rollup and delivery keys, as operators |
| `Permalinks` | the link builders, as operators |
| `Threads` | from the arguments of a request to the thread and its key; uses the two above |
| `CommandLine` | the commands of the CLI as processes |
| `Grounding` | from the model's answer to the grounded log, citation by citation |
| `SearchLogs` | rendering, and a search that parses it line by line while appends go on |
| `MC*` | the instances for TLC |
| `*_proofs` | the theorems, checked by TLAPS |

An operator whose comment begins with *Variant* is a deliberately wrong form of
the definition it stands before (a dropped guard, a swapped order, an
off-by-one).  No specification uses it.  Put in the place of the right form, it
makes a named property fail: this is how each property is known to be able to
fail (`mutants` in `PROJECT.json`).

### FileLock

`pc` is the line a thread has reached in `__enter__`/`__exit__`; `threadLock`
is `_PROCESS_LOCK_REGISTRY`, one lock per process; `fds` the open descriptors;
`owner` the process the kernel granted the lock to.  `Granted` and `DropFcntl`
state the POSIX rules: a grant to the process that already owns the lock
succeeds, and an unlock or close by any thread of the owner drops it.  The
deadline is nondeterministic: a wait may time out at any moment.  `OpenFails`
is `os.open` raising, `Crash` a kill.  Locks on different files share nothing,
so one file is modelled.

### DecisionStore

An entry is its digest key; a log is a sequence of keys, a sidecar a set of
keys plus one bit for a line that is not a key.  A writer goes through the
stages of `append` in the order of the code, with a step wherever it reads or
writes something another thread can see:

| Stage | Code |
|---|---|
| `Call`, `Acquire`, `LockTimeout`, `EnsureLockIgnore` | 508-519 |
| `ReadMd`, then `NoOrphan` / `RefuseOrphan` / `RecoverOrphan` | `_recover_orphan`, 407-468: the blob of the `.md`, the file, then the comparison with the sidecar |
| `SkipDuplicate`, `RecordKey`, `WriteEntry` | 522-550: key first, entry second, each atomic |
| `StagePaths`, `LockIndex`, `IndexLocked`, `WriteIndex` | `index.add` |
| `WriteTree`, `SetHead` | `index.commit` |
| `BuildResult`, `Export` | 555-606: read HEAD for the sha, leave the lock, send |

`Fail` is an error at any stage inside the lock, `Crash` a kill of a process
with all its threads (leaving `.git/index.lock` if it held it), `Tamper` an
edit of the files from outside while no writer has their lock.  `CutLog` takes
the last entry off a log, `EditSidecar` any lines out of a `.processed` file,
which it leaves damaged or in order, so that it can also repair one.
`_recover_orphan` finds the first, when the entry was committed, and refuses a
damaged sidecar.  A sidecar that has merely lost a line it takes for an orphan
and commits; the key is forgotten, and its entry can be recorded and exported
again.  The history variable `erased` has these keys, and the properties that
promise something once, or for ever, excuse them and no others.  Entries and
keys that somebody writes in by hand, and edits in the middle of an append, are
not modelled.  The configuration (auto-commit, raise, no Git at all) is the variable `config`,
chosen once.  The module takes the lock of a file in one step and gives it up
in one, as `Mutex` does, which `FileLock` implements.

`AtomicView` is what the callers of `append` can tell of all this: a log and a
sidecar as they were before the writer under the lock wrote to them
(`ViewTrail`, `ViewMarked`), and per writer whether its append is under way or
committed (`ViewCall`).  `AppendIsAtomic` says that seen like this an append is
one step of `AtomicAppend`; it takes place when the lock is given back.

### WebhookSink, IntervalScheduler, DigestService

`WebhookSink` follows each delivery through endpoints and attempts; a post is
taken, refused, taken with its answer lost, or answered by something that is
not HTTP; `backoff` is the sleep between two attempts.  `IntervalScheduler` counts, per registration, the timers that wait
and the jobs that run: which timer object it is makes no difference.  `start`
takes the lock once per registration and so is a loop of steps.
`DigestService` follows each request from invocation to the end of its thread:
fetch, ask (at most twice), post (commands only), append.  A usable answer
gives any digest, the empty one included: an answer of `{}` is valid, and
grounding may drop every item.  `answers` remembers what a request was told, for
the properties to compare with what it posts and records.  The store is one
atomic append that commits, skips, or raises having written nothing, the key,
or the key and the entry: what the `DecisionStore` module establishes of it.
Messages arrive and periods end meanwhile.  `UsesAtomicAppend` maps a request
at its append to a call of `AtomicAppend`, so that the two models meet in that
module: the store implements it, and the service relies on it.

### RollupSchedule

The module extends `IntervalScheduler`; each of its actions is a step of the
scheduler together with what the job does.  `JobBegins` is `Fire` and the call
of `period_key_provider`; `JobReturns` and `JobRaises` are `JobEnds` and the
append, which records the period unless its key is there, or raises and leaves
nothing, the key, or both.  `covering` counts the jobs that run for each period:
several can, once a restart has left a second chain.  `PeriodEnds` is the clock.

### Threads, Identity, Permalinks

A string is a sequence of tokens, so that joining, cutting and stripping are
modelled as what they do to it.  `Identity` takes `sha256` to have no
collisions: a key *is* its payload, and payloads are equal or not as the join
makes them.  `Threads` seeds channels (`add_channel` replaces a channel of the
same id), makes fetches fail, and answers requests: `ResolveLastN` and
`RollupWindow` find the window, `Selected` and `Cap` are the two halves of
`fetch_thread`, `KeyOf` stamps the result.  `results` is only a record of what
was answered, for the properties to compare.

Two assumptions on the channels and histories make links tell messages apart:
ids are `IsPlain` (no spaces, no leading zeros, as every platform prints them;
`_coerce_positive_int` would otherwise give `7` and `07` one link), and a
Telegram handle is that of one chat.

### CommandLine

A call is a process that goes through `stage`: `start` (options, thread file),
`build` (config, backend), `ask` (at most twice), `emit` (one output),
`append`, `gate` (`--fail-on-drop`), `exited`.  Every early return and every
exception the code lets through is an action: `UsageError` is `typer.Exit(2)`,
`Traceback` any exception, exit code 1.  `EditThread` and `EditConfig` change
the two files between any two steps; `OpenStore` reads the config as it is by
then.  An append is one step, as in `DigestService`.

### Grounding

`Ask` is the call of the model (not made for an empty thread), and its answer
any member of `Answers`.  Then there is a step per citation, as the loops of
`_ground_citations` take them: `DropHallucinated`, `DropDuplicate` or
`KeepCitation`; a step per item (`DropItem`, `KeepItem`, for the three
`_ground_*` functions, which differ in the assignee only) and per section.  A
text is reduced to what grounding can see of it: `says`, the quotes that are a
part of it after whitespace is collapsed, and `leading`, its first characters.
`WithId` and `Indexed` are `Thread.index_by_id`, where the first message with
an id wins; `FirstOfAuthor` is `Thread.participants`.  The properties speak of
the answer and the thread only and know nothing of the loop.
`MayBeAssigned` is who an action item may go to: a participant of the name the
answer gives, known by the name of their first message, or a cited author.

### SearchLogs

A line of a log file is a tag and a value: which branch of `_parse_entry` it
takes, and what that branch takes from it.  `Render` is
`render_markdown_entry`: headings, metadata, section titles, items and their
sources, or the `_none_` marker.  An item whose text looks like something else
has that tag instead of `item`; a display name or a quote with a link of its
own puts that link on the sources line.  `Blocks` splits a file at its
headings, and the parser has one action per branch, with `kind` and `pending`
(`current_kind`, `pending`) carried from line to line.  Files are listed by
`Begin`, then read one after the other, with appends in between.  The reference
definition `Expected` goes from an entry to its hits without any text.

## 3. What is checked

Run a configuration with `tlc -config X.cfg M`, in this directory.

| Run | Module | Shows |
|---|---|---|
| `MCFileLock` | `MCFileLock` | both layers together exclude, hold and are given back; every call ends; the lock refines `Mutex` |
| `OneChannel` | `MCDecisionStore` | one log file, two processes, a failure, a kill and an edit: an append is atomic, HEAD is an `AuditTrail`, one entry per commit, the sha is the entry's own, exported implies committed, damage is never committed, every append ends; but for keys that the edit erased |
| `TwoChannels` | `MCDecisionStore` | two log files in one repository, three configurations: what survives the race for the index |
| `Scheduler` | `MCRollupSchedule` | the scheduler with its rollups: quiet after `stop`, chains bounded by starts, a log in the order of its periods, a lasting period rolled up |
| `Deliver` | `MCWebhookSink` | every endpoint tried, none more than `max_attempts` times or with a sleep at the end, duplicates explained |
| `Service` | `MCDigestService` | one commit per key, one reply, shown equals committed, shown is on record, no digest without an answer, periods apart |
| `Ground` | `MCGrounding` | nothing invented, nothing genuine lost, an accurate report, whatever the model answers |
| `Requests` | `MCThreads` | keys and delivery ids tell apart exactly the digests that differ, a thread admits what it leaves out, a link opens one message |
| `Commands` | `MCCommandLine` | exit codes tell, repeated and concurrent calls leave one entry, every call ends |
| `Search` | `MCSearchLogs` | a search finds exactly what was asked for in what was recorded before it began, next to entries full of misleading text and while others are appended |

A module's type invariant is not among the properties of its run where it is
proved, nor is `UsesAtomicAppend`, which TLC confirms on the instance of `Service`
without its symmetry, as a `PROPERTY`, in a few minutes.

Two runs are meant to fail; each refutes what the repository says of itself:

| Run | What the code does |
|---|---|
| `HeadTrailTwoChannels` | two channels at once: a commit from a stale index or onto a stale HEAD takes the other channel's entry out of HEAD, silently |
| `MalformedAnswer` | an `http.client.HTTPException` is caught nowhere in the sink: `send` raises and the remaining endpoints are not tried |

Some behaviour that may surprise contradicts nothing the repository says.  It
is in the models, and properties are stated around it:

- `stop` and `start` while a job runs leave two chains of timers for one
  registration; `ChainsBoundedByStarts` and `InPeriodOrder` say how far that
  goes.
- An entry that recovery commits is exported by nobody: recovery does not
  export, and the replay of its append is skipped as a duplicate.
- If an append raised after it wrote the key and before it wrote the entry, the
  retry is skipped and reports a commit; `RerunsLeaveOneEntry` has this as its
  only exception.
- A service may drop evidence in one call and not in the next.  Then a call
  under `--fail-on-drop` records the poorer digest and ends with 1, and the
  repeated call skips and ends with 0: `ExitCodeTells` speaks of the digest of
  the call itself.
- A valid answer that names nothing, or of which grounding keeps nothing, is
  recorded as an empty entry for a thread that is not empty
  (`tests/test_platform_fake.py:145-159` has one).  `NoDigestWithoutAnswer` asks
  for an answer, not for items.
- A well-formed line taken out of `.processed` is no error to the store: under
  auto-commit the next append commits the loss, a replay passes the check for
  duplicates (`store.py:523`), and the entry is recorded and exported again.
  Without commits a damaged line is not looked at either.
- A command whose append raises has posted its digest already.
  `PostedIsOnRecord` speaks of commands that end without an error.
- A call that finds the config changed between its two readings commits to the
  directory of the second.
- `truncated` is not part of a key: a thread cut at `max_messages` and the same
  messages fetched whole are one digest.

`HeadTrailTwoChannels` has a lock per channel around a resource per repository as its cause.
`ExportedIsCommitted` and `ShaNamesOwnCommit` fail for two files for that reason
too (the sha of a result is read from HEAD after the commit, `store.py:604`,
when HEAD may be the commit of the other channel), so these three are checked
for one file, and `TwoChannels` checks what holds regardless: HEAD stays
*consistent* (no entry twice, none without its key), the disk of every channel
is an `AuditTrail`, and nothing is exported twice.  `AppendIsAtomic` is checked
for one file and proved for any number.

### Bounds

- `MCFileLock`: two threads of one process and one of another.  This is the
  least that contends for both layers at once; waits, errors and kills are
  unbounded.
- `OneChannel`: two writers in two processes, two keys, four appends, one
  failure, one kill, one edit.  Four appends with two keys make replays; a
  failure and a kill in one behaviour give a recovery that itself fails, and an
  edit before a replay an entry that comes again (320,983 states).
- `TwoChannels`: two writers, three keys (two in one file), three appends, one
  failure, one kill.  Two entries in one file are needed for a log that is a
  proper prefix of another; no edit, so every refusal would be a false alarm.
- `Scheduler`: two controllers, two registrations, two starts, two periods, one
  job that raises; the scheduler may be started while it runs.  Firings are
  unbounded.  Two starts make a second chain, two periods an order to get wrong.
- `Deliver`: two endpoints, three attempts, one delivery sent twice.
  Deliveries share no state, so one is enough.
- `Service`: any three of two commands and two rollups (`MCThreeRequests`, a
  state constraint), one message, two periods, a digest of something and an
  empty one: two rollups of one period, a period change between them, a command
  over the same messages, a command that skips for another (249,383 states).
- `Requests`: two channels seeded (or one, twice) and two requests, since the
  properties compare two results at a time; threads of at most two messages out
  of histories of three.  Chats of every kind a link builder tells apart, two
  with one id on different platforms; ids that come twice or hold a NUL; a
  timestamp that is too short; windows of 0, 1, 2, 3 and none.  `max_messages`
  is positive: a channel seeded with 0 would be returned whole (`[-0:]` is
  `[0:]`, `platforms/fake.py:131`).
- `Commands`: two calls, two edits, one append that raises; ten command lines,
  among them each fixture kind and a service, an empty thread, two configs that
  differ in provider and directory.  Two calls are one that is repeated, or two
  at once.
- `Ground`: the empty thread, one whose first author has renamed herself to a
  name that nobody else has and the answer may ask for, and one where two messages share an id and two people a
  name.  Answers have one item with up to three citations (a real one, its
  duplicate and a fabrication fit in) or two items in any two sections.
- `Search`: two files, three entries, six queries over text, channel, kind and
  window.  One entry has items in two sections and several links, one has no
  label, one is empty, one is full of texts and quotes that are read as
  something else.  Three entries make two of them neighbours in one file.

The exactness that `Search` checks is claimed for *plain* entries: an item
whose text is `_none_`, or looks like the channel or key line, is not found as
an item, and a quote or name that holds a link of its own is taken for the
permalink.  The model has such entries; they must not disturb the others.

`Service` uses symmetry among its commands and among its rollups, which none of
its properties, all invariants, tells apart; no other run does.  `CHECK_DEADLOCK FALSE` is set where the bounds let a
system come to rest (all appends, sends or requests used up).

### Fairness

Weak fairness of each *thread* that is inside an operation, and of nothing
else: a thread that runs is scheduled again by the interpreter and the kernel,
and every wait in the code is a poll with a deadline.  Nobody has to call
`append` or `start`, no error, kill or edit has to happen, and no lock is
assumed to be granted: `EveryAppendReturns` holds although a waiter may starve,
because it then times out.  For the scheduler, fairness of a job's end stands
for the timeouts of the calls a rollup makes, and fairness of `Fire` for a
timer that runs out.  `RollupFairness` is weak fairness of each timer, of each
job (that it ends, returning *or* raising; a job raises at most `MaxFailures`
times, else a period could be lost to failures alone) and of a call of `start`
under way.  Periods need not end.  `LastingPeriodRolledUp` is claimed only
while the scheduler keeps running and the period lasts.  `CommandLine` has weak
fairness of each process: a fixture answers, a service answers or its client
gives up.  `WebhookSink`, `DigestService`, `Threads`, `Grounding` and
`SearchLogs` have no liveness property and no fairness.

## 4. What is proved

`tlapm X_proofs.tla`.  All theorems hold for every value of the constants under
the assumptions named in the modules, which are only about types: a writer has
a process, a key has a file, the bounds are natural numbers, `Nobody` is nobody,
commands are not rollups, error texts are not digests, an absent name or quote
is none, threads, answers and histories are sequences of their parts, the
arguments of a request are integers,
ids are as their platforms print them, a handle is that of one chat, an empty thread is a thread, options are on
or off, there is at least one period, and (in `IntervalScheduler`) there are
finitely many controllers.

| Module | Theorems | The inductive invariant |
|---|---|---|
| `FileLock_proofs` | `TypeCorrect`, `Exclusion`, `HeldThroughout`, `NoStale`, `NothingIsLeaked`, `Implements` | `LockInv` |
| `DecisionStore_proofs`, any number of logs | `TypeCorrect`, `DiskStaysConsistent`, `HeadStaysConsistent` | `StoreInv` |
| | `ExportsAtMostOnce` | `StoreInv`, `ExportInv` |
| | `DamageStaysUncommitted` | `StoreInv`, `IntactInv` |
| | `OnlyOthersTamper`; `NoLossIsCommitted` while nobody edits | `BehindInv`; `WholeInv` |
| | `AppendsAreAtomic` | `StoreInv`, `ViewInv` |
| | `DiskImplementsAuditTrail` while nobody edits | `StoreInv`, `BehindInv` |
| `DecisionStore_proofs`, one log (`OneLog`) | `OneLogInvariant`, `AppendsOnCleanLog`, `ShaIsOwnCommit`, `ExportsAreCommitted`, `OneEntryEachCommit`, `HeadImplementsAuditTrail` | `OneLogInv` |
| `WebhookSink_proofs` | `TypeCorrect`, `AllTried`, `Duplicates` | `SinkInv` |
| `RollupSchedule_proofs`, the scheduler | `TypeCorrect`, `StaysQuiet`, `ChainsBounded` | `SchedulerInv` |
| `RollupSchedule_proofs`, with rollups | `ComposesScheduler`, `RollupInvariant`, `RollupTypeCorrect`, `WrittenInOrder` | `RollupInv` |
| `DigestService_proofs` | `TypeCorrect`, `OneCommit`, `Independent`, `OneReply`, `ShownWhenCommitted`, `AnsweredWhenShown`, `OnRecordWhenPosted`, `StoreIsUsedAtomically` | `KeysInv`, `ServiceInv` |
| `Grounding_proofs` | `TypeCorrect`, `NothingInvented`, `NothingGenuineLost`, `EveryDropIsCounted` | `GroundInv`, `KeptInv`, `CountInv` |
| `Threads_proofs` | `NothingIsOmitted`, `KeysAreIdentities`, `LinksAreIdentities` | `FetchInv`, `KeyInv`, `LinkInv` |
| `CommandLine_proofs` | `CommandInvariant`, `TypeCorrect`, `ExitCode`, `OneEntry` | `CommandInv` |

- **`LockInv`.**  Mutual exclusion alone is not inductive: a thread that closes
  its descriptor drops the lock of its whole process.  The invariant says which
  stages hold the thread lock and which have a descriptor; so at most one thread
  of a process is between the two layers, hence nobody else is there to close a
  descriptor under the thread inside.  `NothingIsLeaked` reads off the same
  invariant that a thread outside has neither.  `Implements` maps each step to
  an acquire, a release or a stutter of `Mutex`.
- **`StoreInv`.**  That a log has no entry twice rests on the snapshot it was
  read into still being the file (`PriorInv`), which rests on the lock being
  held by exactly the writer inside (`LocksInv`); that the entry written is new
  and has its key is `EntryInv`.  For HEAD, every tree there is, in the index,
  in a writer's hands or in a commit, must be consistent file by file
  (`TreesInv`): races between channels choose *which* consistent version of a
  file HEAD holds, and so cannot make it inconsistent.  A key that somebody
  erased is excused in all of this, for good: its entry may be there without it,
  and once it is recorded again, twice.
- **`ExportInv`.**  A key in the sidecar stays there unless it is erased; of an
  erased one nothing is claimed.  The writer that recorded a
  key is the only one between recording and exporting it, and its entry has not
  been exported; a key that was exported is in the sidecar, so no writer records
  it again.  `sends[k] <= 1` alone says nothing of the writer about to export.
- **`IntactInv`.**  A writer past the comparison with HEAD works on an intact
  sidecar, and every tree there is has intact sidecars only.  The second part is
  what a commit of another channel's index entries needs.
- **`BehindInv`.**  While nobody edits, the entries that any tree has of a log
  are a prefix of those on disk, and so is what a writer read from HEAD of what
  it read from disk.  The store's test for tampering therefore never hits its
  own leftovers: this is what `OnlyOthersTamper` says to an operator who sees
  the error.
- **`WholeInv`.**  Under the raise policy a writer gets past the check for
  orphans with a file that has an entry for every key only, and what it stages
  is that file and its own key *and* entry.  `NoLossIsCommitted` has the
  hypothesis that nobody edits, and needs it: with two channels, one failure and
  one edit TLC reaches a committed loss.  An append fails after its files were
  staged; an edit cuts the log back to HEAD; the next writer reads HEAD for the
  log and finds it unchanged; a commit of the other channel brings in the staged
  files; the writer reads HEAD again for the keys and finds those, too, where
  they should be.  The log and its sidecar were compared with two different
  HEADs, and the writer goes on with a key without an entry.
- **`OneLogInv`.**  With one log the lock of the log file makes a writer the only
  one from reading the log to its result, so index and HEAD are its own.  `InStage`
  says for each stage how disk, index, the staged tree and HEAD differ: by
  nothing, by the entry of the writer, or by the orphans it is recovering.
  `AheadInv` says that HEAD's keys are on disk, and that no key that was
  committed as lost gets an entry, but for the erased keys.  With two logs every one of the six
  theorems that use it loses its argument, because index and HEAD are shared and
  outside the lock: `HeadTrailTwoChannels` is TLC's counterexample for HEAD.
- **`DiskImplementsAuditTrail`, `HeadImplementsAuditTrail`.**  Each step of each
  writer is matched with a step of `AuditTrail` or a stutter.  On disk the key is
  written before the entry, so a key counts as marked only once its entry is
  there or its writer is gone.  At HEAD edits are part of the claim: a log that
  was cut is refused, and a sidecar that lost lines is committed, which the trail
  allows for the keys in `erased` and for no others.
- **`AppendsAreAtomic`.**  The refinement needs no hypothesis: any number of
  writers, processes and logs, failures, kills and edits.  What a writer under
  the lock has written is invisible until it gives the lock back, and the file
  is then exactly what it was plus the key, or the key and the entry: `ViewInv`
  says what the file was.  An edit (a log cut back, lines out of a sidecar)
  happens between appends and is a step of its own.  A kill ends all appends of a process at once, of which one at most held
  the lock of a file.
- **`StoreIsUsedAtomically`.**  The other half: each step of each request is a
  call, a commit or an end of the same `AtomicAppend`, or a stutter.  What
  `DigestService` takes the store for is what the store is.
- **`SinkInv`.**  Per delivery and endpoint: how often it has been tried is
  read off the endpoint and the attempt `send` is at, and a copy taken without
  a lost answer moves `send` on to the next endpoint.
- **`SchedulerInv`.**  A call of `start` that has not reached registration *r*
  is *pending* there; chains of *r* plus pending calls never exceed the calls
  of `start` made.  This is what a restart can and cannot do: it may add a
  chain, never more than one per call.
- **`RollupInv`.**  `ComposesScheduler` shows that the composition is a
  scheduler, so `StaysQuiet` and `ChainsBounded` carry over.  Order needs more:
  with at most one start there is at most one chain, hence at most one job per
  channel; that job covers no period before one already in the log, and no
  period after the current one.  What is in the log is in the sidecar, so a
  period that is appended is not earlier than the others and, by the check for
  the key, not equal to one of them.
- **`CommandInv`.**  `CallInv` says what a call has done by each of its stages.
  `StoreInv` reads the store as a record of calls: an entry has its key, a
  thread has one key, and a key was left by a call that is past its append
  and has its entry there, unless that call failed.  `CommitInv` is what a call that skips relies on: the
  key it found is never taken away.
- **`KeysInv`, `ServiceInv`.**  A recorded key belongs to a request that is
  over and whose key no longer changes; a log entry has its key in the sidecar,
  and a key without its entry was left by an append that raised; keys of
  commands and of rollups are disjoint, and that of a command is its messages.
  From this alone `OnRecordWhenPosted` follows.  `ServiceInv` adds what has been
  posted at each stage, and (`FoundedInv`) that what is about to be posted or
  recorded was answered.  That the model is asked at most twice is part of
  `TypeOK` and needs the count at each stage (`AsksInv`).
- **`GroundInv`, `KeptInv`.**  Both say of the citations grounded so far, and of
  the items kept so far, what the property says of the finished log: the
  citations up to `cite` give exactly the pairs in `seen`, each once; the items
  before `item`, and the sections before `section`, are done.  That the message
  standing for an id is the *first* one is a lemma on the least element of a
  set of positions.
- **`CountInv`.**  The counters are the cardinalities of the sets of citations
  *visited* so far that do not resolve or misquote: one visit enlarges one set by
  one element or none.  The count of dropped items plus the length of the log is
  the number of items processed.  At the end the visited citations are all.
- **`FetchInv`.**  A channel id has one channel, and each result is what
  `fetch_thread` makes of a history that the channel had.  The rest is about the
  operator: a suffix of a suffix is a suffix, the position a reply starts at is
  the last one with its id, and the cut by `max_messages` is the one that sets
  `truncated`.
- **`KeyInv`.**  Each result has the key and the delivery id of its channel and
  thread.  That equal keys come from equal fields is where the NUL guard
  counts: no field holds a NUL, so the last NUL of a key is where its last
  field begins (`LastField`), and what is left is a key of one field less.  The
  induction over the number of fields takes a least counterexample (`HasLeast`),
  from the well-foundedness of finite sets by inclusion, because the library's
  induction theorems cannot be used.  A digest and a rollup differ in their
  second field: no platform is called `rollup`.
- **`LinkInv`.**  A seeded channel is one of `Channels`, its ids are plain.  A link
  is read from its end: the digits after the last separator are the message,
  what is before is the place.  Each builder has a lemma that says which of these
  shapes its links have, and `PlaceIdentifies` says that a place has one channel:
  the hosts differ, and so do public and private Telegram links.  A
  Slack timestamp loses its dot in a link, and is known again since there are
  always `FractionDigits` digits after it (`UndottedIdentifies`).  The links
  into a thread are the ones with a `&cid=`.

**Only model-checked:**

- Liveness: `EveryEnterReturns`, `EveryAppendReturns`, `LastingPeriodRolledUp`
  and `EveryCallExits`.  Fairness is out of the prover's reach.
- `SearchIsExact`.  A file is built and split with `FlattenSeq`, `SelectSeq` and
  `SetToSortSeq`, which take operators as arguments or recurse over the lines;
  the provers can use none of them, and the model is clearer with them.

The properties of the one-log group are claimed for one log only: for two,
`HeadTrailTwoChannels` shows that `HeadIsAuditTrail` fails.

## 5. Not modelled, and why

- The text of entries, replies, prompts and webhook bodies; signatures; log
  redaction.  No property here depends on them.
- The growth of `_timers` in `IntervalScheduler`: certain and unbounded between
  stops, but without effect on behaviour.
- Two threads reading through one cached GitPython `Repo` at the same time: the
  outcome depends on GitPython's pipe to `git cat-file`; each writer is given
  its own consistent view of HEAD.
- Durability (`fsync`, power loss): a kill is modelled, a machine crash is not.
- Telegram, Slack and LLM adapters: fetching, posting and registering raise
  `NotImplementedError` in this version, and the LLM clients are I/O.  Their
  answers are arbitrary text, or none, or an error.
- Signs, underscores and digits of other scripts, which `int` and `isdigit`
  accept in message ids and chat ids: a pattern is a set of names and a number
  is digits.
- A NUL in the channel id of a thread file: `compute_digest_key` refuses it
  and the CLI ends in a traceback, like every exception it does not catch.
- A kill of a CLI call: what it leaves in the store is what `DecisionStore` has
  for a kill of any writer.
- The wording of `render_chat`, of JSON output and of `--stats`; the fields of
  a config that nothing reads yet.
- `FakeScheduler`, `CollectingWebhookSink` and the list of posts that
  `FakePlatform` keeps are test doubles that record what they are given.

## 6. Plan

Done, in this order: the lock and its abstraction; the store and its
abstraction; scheduler; sink; service; grounding; search; the scheduler
composed with its rollups; keys, links and the fetch contract; the command
line; proofs of each but search: of the store every safety property its runs
check and its refinements of `AuditTrail` on disk and at HEAD; leaks of the lock;
the counters of the grounding report; the fetch contract; the atomicity of an
append and the service that rests on it; keys and links as identities.

Next, by importance:

1. The same use of `AtomicAppend` for `RollupSchedule` and `CommandLine`, whose
   appends are one step from call to end.
2. A form of rendering and splitting without operators as arguments, for a proof
   that the hits of a search come from recorded entries, in order.
