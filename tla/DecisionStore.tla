--------------------------- MODULE DecisionStore ---------------------------
(***************************************************************************)
(* DecisionStore.append of store.py: writers append digest entries to      *)
(* per-channel log files under a lock per file, and commit each append to  *)
(* ONE Git repository whose index and HEAD every channel shares.           *)
(*                                                                         *)
(* An entry is modelled by its digest key.  A log file has a Markdown log, *)
(* a sequence of keys, and a `.processed` sidecar, a set of keys; channels *)
(* whose ids sanitise to one filename are one file, as they share its lock *)
(* too.  The lock is the abstract mutex that FileLock implements.          *)
(*                                                                         *)
(* GitPython is external and modelled by the calls store.py makes: index   *)
(* .add reads the index, takes .git/index.lock, writes the index; index    *)
(* .commit reads the index again, takes HEAD as the parent, then moves     *)
(* HEAD to the new commit without comparing.                               *)
(***************************************************************************)
EXTENDS Integers, Sequences, FiniteSets, SequencesExt

CONSTANTS
    Writers,        \* threads calling append
    Procs,          \* the processes they run in
    ProcOf,         \* the process of each writer
    Files,          \* log files, one per (sanitised) channel
    Keys,           \* digest keys
    FileOf,         \* the log file of each key's channel
    Nobody,         \* no writer
    NoKey,          \* no key: the subject of a recovery commit
    Configs,        \* the store configurations
    MaxCalls,       \* bound: appends made
    MaxFails,       \* bound: IO or Git errors raised inside an append
    MaxCrashes,     \* bound: processes killed
    MaxTampers      \* bound: edits of the working files by others

ASSUME ProcOfAssumption == ProcOf \in [Writers -> Procs]
ASSUME FileOfAssumption == FileOf \in [Keys -> Files]
ASSUME NobodyAssumption == Nobody \notin Writers
ASSUME NoKeyAssumption == NoKey \notin Keys
ASSUME ConfigsAssumption == Configs \subseteq [commit : BOOLEAN, auto : BOOLEAN]
ASSUME BoundsAssumption ==
    MaxCalls \in Nat /\ MaxFails \in Nat /\ MaxCrashes \in Nat /\ MaxTampers \in Nat

VARIABLES
    config,    \* StoreConfig: commit, and auto for the "auto-commit" policy
    pc,        \* where each writer stands in append
    my,        \* each writer's local variables
    lock,      \* per file: the writer holding its _FileLock
    disk,      \* per file: the working tree
    ignore,    \* whether the shared .gitignore is on disk
    index,     \* the Git index: a tree
    indexLock, \* who created .git/index.lock (it survives its creator)
    commits,   \* the commits made, by number
    head,      \* the number HEAD points to, 0 while the branch is unborn
    results,   \* history: the results of the appends that committed
    sends,     \* history: per key, the deliveries handed to the sink
    erased,    \* history: keys that others took out of a sidecar
    budget     \* what is left of the four bounds

shared == <<disk, ignore, index, indexLock, commits, head>>
history == <<results, sends, erased>>
vars == <<config, pc, my, lock, shared, history, budget>>

CommitMode == config.commit
AutoCommit == config.auto

----------------------------------------------------------------------------
(* What is stored *)

\* One log file: the Markdown log, and the sidecar, which somebody may have
\* damaged so that a line of it is not a key.
LogFile == [md : Seq(Keys), keys : SUBSET Keys, intact : BOOLEAN]
EmptyFile == [md |-> <<>>, keys |-> {}, intact |-> TRUE]

\* What a commit records: every tracked log file, and the .gitignore.
Tree == [log : [Files -> LogFile], ignored : BOOLEAN]
EmptyTree == [log |-> [f \in Files |-> EmptyFile], ignored |-> FALSE]

\* subject is the key in commit_message_for, NoKey for "recover orphan".
Commit == [tree : Tree, parent : Nat, subject : Keys \cup {NoKey}]

HeadTree == IF head = 0 THEN EmptyTree ELSE commits[head].tree

Entries(md) == ToSet(md)

\* The locals of append: the log to append, the committed .md and the prior
\* snapshot read by _recover_orphan, whether the commit under way is its
\* recovery, the tree and the parent that commit is built from.
Blank == [key |-> NoKey, committed |-> <<>>, prior |-> <<>>, recovering |-> FALSE,
          staged |-> EmptyTree, parent |-> 0]

Stages == {"idle", "locking", "ignore", "readMd", "readKeys", "dedup", "entry", "stage",
           "lockIndex", "writeIndex", "tree", "head", "result", "export"}

InsideLock == Stages \ {"idle", "locking", "export"}

\* The log file of the append a writer is running.
File(w) == FileOf[my[w].key]

Init ==
    /\ config \in Configs
    /\ pc = [w \in Writers |-> "idle"]
    /\ my = [w \in Writers |-> Blank]
    /\ lock = [f \in Files |-> Nobody]
    /\ disk = [f \in Files |-> EmptyFile]
    /\ ignore = FALSE
    /\ index = EmptyTree
    /\ indexLock = Nobody
    /\ commits = <<>>
    /\ head = 0
    /\ results = {}
    /\ sends = [k \in Keys |-> 0]
    /\ erased = {}
    /\ budget = [calls |-> MaxCalls, fails |-> MaxFails,
                 crashes |-> MaxCrashes, tampers |-> MaxTampers]

Goto(w, from, to) ==
    /\ pc[w] = from
    /\ pc' = [pc EXCEPT ![w] = to]

Spend(what) ==
    /\ budget[what] > 0
    /\ budget' = [budget EXCEPT ![what] = @ - 1]

\* The append leaves the with body early, by a return or an exception: the
\* lock is released and the locals go.
LeaveLock(w) ==
    /\ pc' = [pc EXCEPT ![w] = "idle"]
    /\ my' = [my EXCEPT ![w] = Blank]
    /\ lock' = [lock EXCEPT ![File(w)] = Nobody]

----------------------------------------------------------------------------
(* append: call and lock *)

\* append(log) with a non-empty digest_key; an empty one raises at once and
\* changes nothing.
Call(w, k) ==
    /\ Goto(w, "idle", "locking")
    /\ my' = [my EXCEPT ![w].key = k]
    /\ Spend("calls")
    /\ UNCHANGED <<lock, shared, history>>

Acquire(w) ==
    /\ Goto(w, "locking", "ignore")
    /\ lock[File(w)] = Nobody
    /\ lock' = [lock EXCEPT ![File(w)] = w]
    /\ UNCHANGED <<my, shared, history, budget>>

\* StoreError: another writer is active.
LockTimeout(w) ==
    /\ Goto(w, "locking", "idle")
    /\ lock[File(w)] # Nobody
    /\ my' = [my EXCEPT ![w] = Blank]
    /\ UNCHANGED <<lock, shared, history, budget>>

EnsureLockIgnore(w) ==
    /\ Goto(w, "ignore", "readMd")
    /\ ignore' = TRUE
    /\ UNCHANGED <<my, lock, disk, index, indexLock, commits, head, history, budget>>

----------------------------------------------------------------------------
(* _recover_orphan *)

\* Variant: the prior content is that of HEAD, which is empty.
ReadHeadWithoutGit(w) ==
    /\ ~CommitMode
    /\ Goto(w, "readMd", "dedup")
    /\ my' = [my EXCEPT ![w].prior = HeadTree.log[File(w)].md]
    /\ UNCHANGED <<lock, shared, history, budget>>

\* Without commits there is no HEAD to compare with: the file on disk is
\* the prior content.
ReadWithoutGit(w) ==
    /\ ~CommitMode
    /\ Goto(w, "readMd", "dedup")
    /\ my' = [my EXCEPT ![w].prior = disk[File(w)].md]
    /\ UNCHANGED <<lock, shared, history, budget>>

\* _committed_blob of the .md, then the file on disk.
ReadMd(w) ==
    /\ CommitMode
    /\ Goto(w, "readMd", "readKeys")
    /\ my' = [my EXCEPT ![w].committed = HeadTree.log[File(w)].md,
                        ![w].prior = disk[File(w)].md]
    /\ UNCHANGED <<lock, shared, history, budget>>

\* The comparisons are made with the .md read before and with the sidecar
\* of HEAD as it is now: HEAD may have moved in between.
MdDiverged(w) == my[w].prior # my[w].committed

ProcessedDiverged(w) ==
    LET ours == disk[File(w)]
        committed == HeadTree.log[File(w)]
    IN  ours.keys # committed.keys \/ ours.intact # committed.intact

\* Variant: the sidecar is not compared.
DivergedMdOnly(w) == MdDiverged(w)

Diverged(w) == MdDiverged(w) \/ ProcessedDiverged(w)

\* Variant: the prefix test the wrong way round.
TamperedReversed(w) == MdDiverged(w) /\ ~IsPrefix(my[w].prior, my[w].committed)

Tampered(w) == MdDiverged(w) /\ ~IsPrefix(my[w].committed, my[w].prior)

\* Variant: no orphan is looked for.
NoOrphanUnchecked(w) ==
    /\ Goto(w, "readKeys", "dedup")
    /\ UNCHANGED <<my, lock, shared, history, budget>>

NoOrphan(w) ==
    /\ Goto(w, "readKeys", "dedup")
    /\ ~Diverged(w)
    /\ UNCHANGED <<my, lock, shared, history, budget>>

\* Variant: the writer waits for somebody to repair the file.
RefuseOrphanWaits(w) ==
    /\ pc[w] = "readKeys"
    /\ Diverged(w)
    /\ ~disk[File(w)].intact \/ Tampered(w) \/ ~AutoCommit
    /\ UNCHANGED vars

\* OrphanStateError: a corrupt sidecar, changed earlier content, or any
\* divergence at all under the raise policy.
RefuseOrphan(w) ==
    /\ pc[w] = "readKeys"
    /\ Diverged(w)
    /\ \/ ~disk[File(w)].intact
       \/ Tampered(w)
       \/ ~AutoCommit
    /\ LeaveLock(w)
    /\ UNCHANGED <<shared, history, budget>>

\* Variant: the sidecar is not validated.
RecoverDamaged(w) ==
    /\ Goto(w, "readKeys", "stage")
    /\ Diverged(w)
    /\ ~Tampered(w)
    /\ AutoCommit
    /\ my' = [my EXCEPT ![w].recovering = TRUE]
    /\ UNCHANGED <<lock, shared, history, budget>>

\* Variant: the orphan is accepted without a commit.
RecoverUncommitted(w) ==
    /\ Goto(w, "readKeys", "dedup")
    /\ Diverged(w)
    /\ disk[File(w)].intact
    /\ ~Tampered(w)
    /\ AutoCommit
    /\ UNCHANGED <<my, lock, shared, history, budget>>

\* Commit what the dead run left, by the same _commit_paths as an append.
RecoverOrphan(w) ==
    /\ Goto(w, "readKeys", "stage")
    /\ Diverged(w)
    /\ disk[File(w)].intact
    /\ ~Tampered(w)
    /\ AutoCommit
    /\ my' = [my EXCEPT ![w].recovering = TRUE]
    /\ UNCHANGED <<lock, shared, history, budget>>

----------------------------------------------------------------------------
(* append: dedup and the two file writes *)

\* Variant: a duplicate is reported like a new entry.
SkipDuplicateExports(w) ==
    /\ Goto(w, "dedup", "result")
    /\ my[w].key \in disk[File(w)].keys
    /\ UNCHANGED <<my, lock, shared, history, budget>>

SkipDuplicate(w) ==
    /\ pc[w] = "dedup"
    /\ my[w].key \in disk[File(w)].keys
    /\ LeaveLock(w)
    /\ UNCHANGED <<shared, history, budget>>

\* Variant: the key is left for after the entry.
RecordKeyLater(w) ==
    /\ Goto(w, "dedup", "entry")
    /\ my[w].key \notin disk[File(w)].keys
    /\ UNCHANGED <<my, lock, shared, history, budget>>

\* _append_processed: the key goes to disk BEFORE the entry.
RecordKey(w) ==
    /\ Goto(w, "dedup", "entry")
    /\ my[w].key \notin disk[File(w)].keys
    /\ disk' = [disk EXCEPT ![File(w)].keys = @ \cup {my[w].key}]
    /\ UNCHANGED <<my, lock, ignore, index, indexLock, commits, head, history, budget>>

\* Variant: the entry is added to the committed log, not to the one on disk.
WriteEntryOnHead(w) ==
    /\ Goto(w, "entry", IF CommitMode THEN "stage" ELSE "result")
    /\ disk' = [disk EXCEPT ![File(w)].md = Append(my[w].committed, my[w].key)]
    /\ UNCHANGED <<my, lock, ignore, index, indexLock, commits, head, history, budget>>

\* The whole file is rewritten from the snapshot taken under the lock.
WriteEntry(w) ==
    /\ Goto(w, "entry", IF CommitMode THEN "stage" ELSE "result")
    /\ disk' = [disk EXCEPT ![File(w)].md = Append(my[w].prior, my[w].key)]
    /\ UNCHANGED <<my, lock, ignore, index, indexLock, commits, head, history, budget>>

----------------------------------------------------------------------------
(* _commit_paths: index.add, index.commit *)

\* Variant: the sidecar is not staged with the log.
StageMdOnly(w) ==
    /\ Goto(w, "stage", "lockIndex")
    /\ my' = [my EXCEPT ![w].staged =
                [log |-> [index.log EXCEPT ![File(w)].md = disk[File(w)].md],
                 ignored |-> ignore \/ index.ignored]]
    /\ UNCHANGED <<lock, shared, history, budget>>

\* index.add reads the index and the files to add.
StagePaths(w) ==
    /\ Goto(w, "stage", "lockIndex")
    /\ my' = [my EXCEPT ![w].staged =
                [log |-> [index.log EXCEPT ![File(w)] = disk[File(w)]],
                 ignored |-> ignore \/ index.ignored]]
    /\ UNCHANGED <<lock, shared, history, budget>>

LockIndex(w) ==
    /\ indexLock = Nobody
    /\ Goto(w, "lockIndex", "writeIndex")
    /\ indexLock' = w
    /\ UNCHANGED <<my, lock, disk, ignore, index, commits, head, history, budget>>

\* .git/index.lock exists, a live writer's or a dead one's: index.add raises.
IndexLocked(w) ==
    /\ pc[w] = "lockIndex"
    /\ indexLock # Nobody
    /\ LeaveLock(w)
    /\ UNCHANGED <<shared, history, budget>>

WriteIndex(w) ==
    /\ Goto(w, "writeIndex", "tree")
    /\ index' = my[w].staged
    /\ indexLock' = Nobody
    /\ UNCHANGED <<my, lock, disk, ignore, commits, head, history, budget>>

\* index.commit writes the tree of the index as it is NOW, and reads HEAD
\* for the parent.
WriteTree(w) ==
    /\ Goto(w, "tree", "head")
    /\ my' = [my EXCEPT ![w].staged = index, ![w].parent = head]
    /\ UNCHANGED <<lock, shared, history, budget>>

\* Variant: the lock is released before HEAD is read for the result.
SetHeadUnlocks(w) ==
    /\ Goto(w, "head", IF my[w].recovering THEN "dedup" ELSE "result")
    /\ commits' = Append(commits,
                    [tree |-> my[w].staged, parent |-> my[w].parent,
                     subject |-> IF my[w].recovering THEN NoKey ELSE my[w].key])
    /\ head' = Len(commits')
    /\ my' = [my EXCEPT ![w].recovering = FALSE]
    /\ lock' = [lock EXCEPT ![File(w)] = Nobody]
    /\ UNCHANGED <<disk, ignore, index, indexLock, history, budget>>

\* HEAD is set, not compared and swapped.  After a recovery append goes on
\* to the dedup check, after its own commit to the result.
SetHead(w) ==
    /\ Goto(w, "head", IF my[w].recovering THEN "dedup" ELSE "result")
    /\ commits' = Append(commits,
                    [tree |-> my[w].staged, parent |-> my[w].parent,
                     subject |-> IF my[w].recovering THEN NoKey ELSE my[w].key])
    /\ head' = Len(commits')
    /\ my' = [my EXCEPT ![w].recovering = FALSE, ![w].staged = EmptyTree,
                        ![w].parent = 0]
    /\ UNCHANGED <<lock, disk, ignore, index, indexLock, history, budget>>

----------------------------------------------------------------------------
(* append: the result, and the export after the lock *)

\* commit_sha is whatever HEAD is by now; then the lock is released.
BuildResult(w) ==
    /\ Goto(w, "result", "export")
    /\ results' = IF CommitMode THEN results \cup {[key |-> my[w].key, sha |-> head]}
                  ELSE results
    /\ lock' = [lock EXCEPT ![File(w)] = Nobody]
    /\ UNCHANGED <<my, shared, sends, erased, budget>>

\* The sink may fail to deliver; append swallows that and returns.
Export(w) ==
    /\ Goto(w, "export", "idle")
    /\ sends' = [sends EXCEPT ![my[w].key] = @ + 1]
    /\ my' = [my EXCEPT ![w] = Blank]
    /\ UNCHANGED <<lock, shared, results, erased, budget>>

----------------------------------------------------------------------------
(* Failures and the world outside *)

\* An IO or Git error: a failed atomic write leaves its file as it was, a
\* failed index write removes index.lock, the exception leaves the with
\* body.  Reading the sha never raises.
Fail(w) ==
    /\ pc[w] \in InsideLock \ {"result"}
    /\ Spend("fails")
    /\ indexLock' = IF pc[w] = "writeIndex" THEN Nobody ELSE indexLock
    /\ LeaveLock(w)
    /\ UNCHANGED <<disk, ignore, index, commits, head, history>>

\* A process is killed with its writers.  Their file locks go with them;
\* an index.lock stays behind.
Crash(p) ==
    /\ \E w \in Writers : ProcOf[w] = p /\ pc[w] # "idle"
    /\ Spend("crashes")
    /\ pc' = [w \in Writers |-> IF ProcOf[w] = p THEN "idle" ELSE pc[w]]
    /\ my' = [w \in Writers |-> IF ProcOf[w] = p THEN Blank ELSE my[w]]
    /\ lock' = [f \in Files |->
                 IF \E w \in Writers : ProcOf[w] = p /\ lock[f] = w THEN Nobody ELSE lock[f]]
    /\ UNCHANGED <<shared, history>>

\* Somebody cuts the last entry off a log.
CutLog(f) ==
    /\ disk[f].md # <<>>
    /\ disk' = [disk EXCEPT ![f].md = Front(@)]
    /\ UNCHANGED erased

\* Somebody takes lines out of a sidecar, and leaves it damaged or in order:
\* a line that stops being a key is read as some other token, so its key is
\* gone as well.
EditSidecar(f) ==
    \E lines \in SUBSET disk[f].keys, intact \in BOOLEAN :
        /\ disk' = [disk EXCEPT ![f].keys = @ \ lines, ![f].intact = intact]
        /\ erased' = erased \cup lines

\* The working files of a channel are edited between two appends.
Tamper(f) ==
    /\ lock[f] = Nobody
    /\ Spend("tampers")
    /\ CutLog(f) \/ EditSidecar(f)
    /\ UNCHANGED <<pc, my, lock, ignore, index, indexLock, commits, head, results, sends>>

----------------------------------------------------------------------------
CommitStep(w) ==
    \/ StagePaths(w)
    \/ LockIndex(w)
    \/ IndexLocked(w)
    \/ WriteIndex(w)
    \/ WriteTree(w)
    \/ SetHead(w)

\* What a writer does once it has called append.
Step(w) ==
    \/ Acquire(w)
    \/ LockTimeout(w)
    \/ EnsureLockIgnore(w)
    \/ ReadWithoutGit(w)
    \/ ReadMd(w)
    \/ NoOrphan(w)
    \/ RefuseOrphan(w)
    \/ RecoverOrphan(w)
    \/ SkipDuplicate(w)
    \/ RecordKey(w)
    \/ WriteEntry(w)
    \/ CommitStep(w)
    \/ BuildResult(w)
    \/ Export(w)

\* All writers run with the one configuration that was chosen at the start.
Next ==
    /\ UNCHANGED config
    /\ \/ \E w \in Writers, k \in Keys : Call(w, k)
       \/ \E w \in Writers : Step(w)
       \/ \E w \in Writers : Fail(w)
       \/ \E p \in Procs : Crash(p)
       \/ \E f \in Files : Tamper(f)

Spec == Init /\ [][Next]_vars

\* A thread that runs is scheduled again; calls, errors, kills and edits are
\* nobody's duty.
Fairness == \A w \in Writers : WF_vars(UNCHANGED config /\ Step(w))

FairSpec == Spec /\ Fairness

----------------------------------------------------------------------------
(* Properties *)

Locals == [key : Keys \cup {NoKey}, committed : Seq(Keys), prior : Seq(Keys),
           recovering : BOOLEAN, staged : Tree, parent : Nat]

Budget == [calls : Nat, fails : Nat, crashes : Nat, tampers : Nat]

TypeOK ==
    /\ config \in Configs
    /\ pc \in [Writers -> Stages]
    /\ my \in [Writers -> Locals]
    /\ lock \in [Files -> Writers \cup {Nobody}]
    /\ disk \in [Files -> LogFile]
    /\ ignore \in BOOLEAN
    /\ index \in Tree
    /\ indexLock \in Writers \cup {Nobody}
    /\ commits \in Seq(Commit)
    /\ head \in 0..Len(commits)
    /\ results \subseteq [key : Keys, sha : Nat]
    /\ sends \in [Keys -> Nat]
    /\ erased \subseteq Keys
    /\ budget \in Budget

\* An entry is in a log once, and only with its key in the sidecar, but for
\* the lost keys.
Paired(file, lost) ==
    /\ \A i, j \in DOMAIN file.md :
         file.md[i] = file.md[j] => i = j \/ file.md[i] \in lost
    /\ Entries(file.md) \subseteq file.keys \cup lost

\* Crashes, errors, replays and writers of other channels never duplicate an
\* entry on disk, and never leave one without its key: a failure can lose an
\* entry, not repeat it (store.py, "Idempotency & crash atomicity").  Only a
\* key that somebody took out of a sidecar can have its entry repeated.
DiskConsistent == \A f \in Files : Paired(disk[f], erased)

\* The same of the committed history: HEAD never holds an entry whose key is
\* missing from .processed, whatever the interleaving of index and HEAD
\* updates of different channels.
HeadConsistent == \A f \in Files : Paired(HeadTree.log[f], erased)

\* A damaged sidecar is never committed, by a recovery or by any writer that
\* commits what the index holds of other channels.
DamageNotCommitted == \A f \in Files : HeadTree.log[f].intact

\* However often an append is retried, across crashes and restarts, its
\* entry is handed to the webhook sink at most once, as long as nobody takes
\* its key out of the sidecar.
ExportedOnce == \A k \in Keys \ erased : sends[k] <= 1

\* The store never takes its own unfinished work for tampering: it refuses
\* a changed or damaged file only if somebody else edited it.
TamperedOnlyByOthers ==
    (\E w \in Writers : pc[w] = "readKeys" /\ (Tampered(w) \/ ~disk[File(w)].intact))
      => budget.tampers < MaxTampers

\* Under the raise policy no loss is ever committed: at HEAD every processed
\* key has its entry, so what a failure left is never silently accepted.
NoLossCommitted ==
    ~AutoCommit => \A f \in Files :
                     HeadTree.log[f].keys = Entries(HeadTree.log[f].md)

\* An append builds its entry on a log that HEAD holds entirely: it never
\* appends on top of an uncommitted divergence.
CleanBeforeAppend ==
    CommitMode => \A w \in Writers :
                    pc[w] = "dedup" => disk[File(w)] = HeadTree.log[File(w)]

\* The commit an append makes adds its entry, and nothing else, to HEAD's log
\* of its channel.
OneEntryPerCommit ==
    [][head' # head =>
         LET k == commits'[head'].subject
         IN  k \in Keys => HeadTree'.log[FileOf[k]].md
                             = Append(HeadTree.log[FileOf[k]].md, k)]_vars

\* AppendResult.commit_sha is the commit made for that entry.
ShaNamesOwnCommit == \A r \in results : commits[r.sha].subject = r.key

\* A decision reported to the sink is in the log at HEAD: no delivery claims
\* a decision that did not land.
ExportedIsCommitted ==
    \A k \in Keys : sends[k] > 0 => k \in Entries(HeadTree.log[FileOf[k]].md)

\* Every append returns or raises.
EveryAppendReturns == \A w \in Writers : pc[w] = "locking" ~> pc[w] = "idle"

\* The abstract trail at HEAD.
HeadLog == INSTANCE AuditTrail WITH
    trail <- [f \in Files |-> HeadTree.log[f].md],
    marked <- [f \in Files |-> HeadTree.log[f].keys]

\* The committed log only grows at its end, whatever others do to the working
\* files; and entry with key, once, but for the keys that others erased: a
\* recovery commits a sidecar that lost a line.
HeadIsAuditTrail == HeadLog!Spec

\* The abstract trail on disk: a key counts once its entry is written, or
\* once its writer is gone.
InFlight(f) == {my[w].key : w \in {v \in Writers : pc[v] = "entry" /\ lock[f] = v}}

DiskLog == INSTANCE AuditTrail WITH
    trail <- [f \in Files |-> disk[f].md],
    marked <- [f \in Files |-> disk[f].keys \ InFlight(f)]

\* The log of every channel on disk only grows at its end, entry with key.
DiskIsAuditTrail == DiskLog!Spec

\* What an append has done takes effect for the others when it gives back
\* the lock: until then its key and its entry are left out of the view.
HasWritten(w) ==
    \/ pc[w] = "result"
    \/ pc[w] \in {"stage", "lockIndex", "writeIndex", "tree", "head"} /\ ~my[w].recovering

HasRecorded(w) == pc[w] = "entry" \/ HasWritten(w)

\* What the others see of a file, and of a call.
ViewTrail(f) ==
    IF lock[f] \in Writers /\ HasWritten(lock[f]) THEN my[lock[f]].prior ELSE disk[f].md

ViewMarked(f) ==
    IF lock[f] \in Writers /\ HasRecorded(lock[f]) THEN disk[f].keys \ {my[lock[f]].key}
    ELSE disk[f].keys

ViewCall(w) ==
    [state |-> CASE pc[w] = "idle" -> "idle"
                 [] pc[w] = "export" -> "committed"
                 [] OTHER -> "called",
     key |-> my[w].key]

AtomicView == INSTANCE AtomicAppend WITH
    Callers <- Writers,
    trail <- [f \in Files |-> ViewTrail(f)],
    marked <- [f \in Files |-> ViewMarked(f)],
    calls <- [w \in Writers |-> ViewCall(w)]

\* An append is one step to all others, whatever fails or is killed between
\* the two file writes and the commit and is edited between two appends: it
\* records its entry and returns as committed, or it ends and left nothing,
\* its key, or both.
AppendIsAtomic == AtomicView!Spec
=============================================================================
