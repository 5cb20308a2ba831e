----------------------- MODULE DecisionStore_proofs -----------------------
(***************************************************************************)
(* Proofs about the store, for any writers, processes, channels, keys and  *)
(* bounds, both orphan policies and both commit modes.                     *)
(*                                                                         *)
(* DiskConsistent and HeadConsistent are not inductive.  StoreInv adds who *)
(* holds which lock, that the snapshot of a writer is still the file it    *)
(* was read from, that a key about to get its entry has none yet, and that *)
(* the index, every commit and every tree on its way into them is as       *)
(* consistent as HEAD.                                                     *)
(* All of it excuses the keys that somebody else took out of a sidecar.    *)
(*                                                                         *)
(* On top of it stand, each with its own invariant:                        *)
(*   - any number of files: ExportInv (who owns the export of a key),      *)
(*     IntactInv (no damaged sidecar is in a tree), and, as long as nobody *)
(*     else edits the files, BehindInv (trees are behind the disk),        *)
(*     WholeInv (trees hold no loss) and the refinement of the audit trail *)
(*     on disk;                                                            *)
(*   - any number of files, edits included: ViewInv (what an append has    *)
(*     written and the others do not count yet) and the refinement of      *)
(*     atomic appends;                                                     *)
(*   - one log file in the repository: OneLogInv (how far disk, index and  *)
(*     HEAD are apart at each stage of an append) and the refinement of    *)
(*     the audit trail at HEAD.  With a second file they are false: the    *)
(*     channels share the index and HEAD.                                  *)
(***************************************************************************)
EXTENDS DecisionStore, TLAPS

\* A writer that is using the store knows its key; an idle one has nothing.
LocalsInv ==
    \A w \in Writers :
        /\ pc[w] # "idle" => my[w].key \in Keys
        /\ pc[w] = "idle" => my[w] = Blank

\* The lock of a file is held exactly by the writer inside its critical
\* section.
LocksInv ==
    /\ \A w \in Writers : pc[w] \in InsideLock => lock[File(w)] = w
    /\ \A f \in Files, w \in Writers :
         lock[f] = w => pc[w] \in InsideLock /\ File(w) = f

\* The stages at which the prior snapshot is still to be used.
UsesPrior(w) ==
    \/ pc[w] \in {"readKeys", "dedup", "entry"}
    \/ my[w].recovering

PriorInv ==
    \A w \in Writers :
        /\ UsesPrior(w) => my[w].prior = disk[File(w)].md
        /\ my[w].recovering => pc[w] \in {"stage", "lockIndex", "writeIndex", "tree", "head"}

EntryInv ==
    \A w \in Writers :
        pc[w] = "entry" => /\ my[w].key \in disk[File(w)].keys
                           /\ my[w].key \notin Entries(disk[File(w)].md) \ erased

TreePaired(tree, lost) == \A f \in Files : Paired(tree.log[f], lost)

TreesInv ==
    /\ TreePaired(index, erased)
    /\ \A w \in Writers : TreePaired(my[w].staged, erased)
    /\ \A n \in DOMAIN commits : TreePaired(commits[n].tree, erased)

StoreInv ==
    /\ TypeOK
    /\ LocalsInv
    /\ LocksInv
    /\ PriorInv
    /\ EntryInv
    /\ DiskConsistent
    /\ TreesInv

----------------------------------------------------------------------------
(* Logs, sidecars and trees *)

\* Appending to a log adds the appended key to its entries.
LEMMA AppendEntries ==
    ASSUME NEW S, NEW s \in Seq(S), NEW k \in S
    PROVE  Entries(Append(s, k)) = Entries(s) \cup {k}
<1> DEFINE t == Append(s, k)
<1>1. /\ DOMAIN t = 1..(Len(s) + 1)
      /\ DOMAIN s = 1..Len(s)
      /\ Len(s) \in Nat
      /\ t[Len(s) + 1] = k
      /\ \A i \in 1..Len(s) : t[i] = s[i]
  OBVIOUS
<1> HIDE DEF t
<1>2. ASSUME NEW x \in Entries(t) PROVE x \in Entries(s) \cup {k}
  <2>1. PICK i \in DOMAIN t : t[i] = x
    BY <1>2 DEF Entries, ToSet
  <2>2. i = Len(s) + 1 \/ i \in 1..Len(s)
    BY <1>1, <2>1
  <2> QED BY <1>1, <2>1, <2>2 DEF Entries, ToSet
<1>3. ASSUME NEW x \in Entries(s) PROVE x \in Entries(t)
  <2>1. PICK i \in DOMAIN s : s[i] = x
    BY <1>3 DEF Entries, ToSet
  <2>2. i \in DOMAIN t /\ t[i] = x
    BY <1>1, <2>1
  <2> QED BY <2>2 DEF Entries, ToSet
<1>4. k \in Entries(t)
  <2>1. Len(s) + 1 \in DOMAIN t
    BY <1>1
  <2> QED BY <1>1, <2>1 DEF Entries, ToSet
<1> QED BY <1>2, <1>3, <1>4 DEF t

\* Writing an entry whose key is recorded, and which is not in the log yet,
\* keeps the file consistent.
LEMMA PairedAppend ==
    ASSUME NEW lost, NEW file \in LogFile, Paired(file, lost), NEW k \in Keys,
           k \in file.keys, k \notin Entries(file.md) \ lost
    PROVE  Paired([file EXCEPT !.md = Append(file.md, k)], lost)
<1> DEFINE md == file.md
<1>1. md \in Seq(Keys)
  BY DEF LogFile
<1>2. Entries(Append(md, k)) \subseteq file.keys \cup lost
  BY <1>1, AppendEntries DEF Paired
<1>3. ASSUME NEW i \in DOMAIN Append(md, k), NEW j \in DOMAIN Append(md, k),
             Append(md, k)[i] = Append(md, k)[j]
      PROVE  i = j \/ Append(md, k)[i] \in lost
  BY <1>1, <1>3 DEF Paired, Entries, ToSet
<1> QED BY <1>2, <1>3 DEF Paired, LogFile

\* Cutting the last entry off a log keeps the file consistent.
LEMMA PairedFront ==
    ASSUME NEW lost, NEW file \in LogFile, Paired(file, lost), file.md # <<>>
    PROVE  /\ Front(file.md) \in Seq(Keys)
           /\ Paired([file EXCEPT !.md = Front(file.md)], lost)
<1>1. file.md \in Seq(Keys) /\ Len(file.md) > 0
  BY DEF LogFile
<1>2. /\ Front(file.md) \in Seq(Keys)
      /\ DOMAIN Front(file.md) = 1..(Len(file.md) - 1)
      /\ \A i \in 1..(Len(file.md) - 1) : Front(file.md)[i] = file.md[i]
  BY <1>1 DEF Front
<1>3. DOMAIN Front(file.md) \subseteq DOMAIN file.md
  BY <1>1, <1>2
<1>4. Entries(Front(file.md)) \subseteq Entries(file.md)
  BY <1>2, <1>3 DEF Entries, ToSet
<1> QED BY <1>1, <1>2, <1>3, <1>4 DEF Paired, LogFile

\* Taking lines out of a sidecar keeps the file consistent but for their keys.
LEMMA PairedErased ==
    ASSUME NEW lost, NEW file, Paired(file, lost), NEW lines,
           NEW edited, edited.md = file.md, edited.keys = file.keys \ lines
    PROVE  Paired(edited, lost \cup lines)
BY DEF Paired

\* What is consistent stays so when more keys are lost.
LEMMA PairedMore ==
    ASSUME NEW lost, NEW more, lost \subseteq more
    PROVE  /\ \A file : Paired(file, lost) => Paired(file, more)
           /\ \A tree : TreePaired(tree, lost) => TreePaired(tree, more)
BY DEF Paired, TreePaired

\* A fresh tree holds empty logs, which are consistent.
LEMMA EmptyTreePaired ==
    EmptyTree \in Tree /\ \A lost : TreePaired(EmptyTree, lost)
BY DEF EmptyTree, EmptyFile, Tree, LogFile, TreePaired, Paired, Entries, ToSet

\* HEAD is the empty tree or the tree of a commit.
LEMMA HeadTreeType ==
    TypeOK => HeadTree \in Tree
<1> SUFFICES ASSUME TypeOK PROVE HeadTree \in Tree
  OBVIOUS
<1>1. CASE head = 0
  BY <1>1, EmptyTreePaired DEF HeadTree
<1>2. CASE head # 0
  <2>1. head \in 1..Len(commits) /\ commits \in Seq(Commit)
    BY <1>2 DEF TypeOK
  <2>2. commits[head] \in Commit
    BY <2>1
  <2> QED BY <1>2, <2>2 DEF HeadTree, Commit
<1> QED BY <1>1, <1>2

----------------------------------------------------------------------------
(* Type correctness *)

\* The file a busy writer works on is one of the log files.
LEMMA FileType ==
    ASSUME TypeOK, LocalsInv, NEW w \in Writers, pc[w] # "idle"
    PROVE  File(w) \in Files /\ my[w].key \in Keys /\ disk[File(w)] \in LogFile
BY FileOfAssumption DEF File, LocalsInv, TypeOK

\* The locals of a writer that is not using the store are well typed.
LEMMA BlankType == Blank \in Locals
BY EmptyTreePaired DEF Blank, Locals

\* The initial state is well typed.
LEMMA TypeInit == Init => TypeOK
<1> SUFFICES ASSUME Init PROVE TypeOK
  OBVIOUS
<1>1. pc \in [Writers -> Stages] /\ my \in [Writers -> Locals]
  BY BlankType DEF Init, Stages
<1>2. lock \in [Files -> Writers \cup {Nobody}] /\ disk \in [Files -> LogFile]
  BY DEF Init, EmptyFile, LogFile
<1>3. ignore \in BOOLEAN /\ index \in Tree /\ indexLock \in Writers \cup {Nobody}
  BY EmptyTreePaired DEF Init
<1>4. commits \in Seq(Commit) /\ head \in 0..Len(commits)
  BY DEF Init
<1>5. results \subseteq [key : Keys, sha : Nat] /\ sends \in [Keys -> Nat]
  BY DEF Init
<1>8. erased \subseteq Keys
  BY DEF Init
<1>6. budget \in Budget
  BY BoundsAssumption DEF Init, Budget
<1>7. config \in Configs
  BY DEF Init
<1> QED BY <1>1, <1>2, <1>3, <1>4, <1>5, <1>6, <1>7, <1>8 DEF TypeOK

\* Spending from a budget leaves a natural number.
LEMMA SpendType ==
    ASSUME TypeOK, NEW what \in {"calls", "fails", "crashes", "tampers"}, Spend(what)
    PROVE  budget' \in Budget
<1>1. budget \in Budget /\ budget[what] > 0
  BY DEF TypeOK, Spend
<1>2. budget[what] - 1 \in Nat
  BY <1>1 DEF Budget
<1> QED BY <1>1, <1>2 DEF Spend, Budget

\* Leaving the lock keeps what it touches well typed.
LEMMA LeaveLockType ==
    ASSUME TypeOK, LocalsInv, NEW w \in Writers, pc[w] # "idle", LeaveLock(w)
    PROVE  /\ pc' \in [Writers -> Stages]
           /\ my' \in [Writers -> Locals]
           /\ lock' \in [Files -> Writers \cup {Nobody}]
BY BlankType DEF LeaveLock, TypeOK, Stages

\* Every step keeps every variable in its domain.
LEMMA TypeStep == TypeOK /\ LocalsInv /\ [Next]_vars => TypeOK'
<1> SUFFICES ASSUME TypeOK, LocalsInv, [Next]_vars PROVE TypeOK'
  OBVIOUS
<1>0. config' = config
  BY DEF Next, vars
<1> USE <1>0 DEF shared, history
<1>1. ASSUME NEW w \in Writers, NEW k \in Keys, Call(w, k) PROVE TypeOK'
  <2>1. my' \in [Writers -> Locals]
    BY <1>1 DEF Call, TypeOK, Locals
  <2>2. budget' \in Budget
    BY <1>1, SpendType DEF Call
  <2> QED BY <1>1, <2>1, <2>2 DEF Call, Goto, TypeOK, Stages
<1>2. ASSUME NEW w \in Writers, Acquire(w) PROVE TypeOK'
  BY <1>2 DEF Acquire, Goto, TypeOK, Stages
<1>3. ASSUME NEW w \in Writers, LockTimeout(w) PROVE TypeOK'
  BY <1>3, BlankType DEF LockTimeout, Goto, TypeOK, Stages
<1>4. ASSUME NEW w \in Writers, EnsureLockIgnore(w) PROVE TypeOK'
  BY <1>4 DEF EnsureLockIgnore, Goto, TypeOK, Stages
<1>5. ASSUME NEW w \in Writers, ReadWithoutGit(w) PROVE TypeOK'
  <2>1. disk[File(w)].md \in Seq(Keys)
    BY <1>5, FileType DEF ReadWithoutGit, Goto, LogFile
  <2>2. my' \in [Writers -> Locals]
    BY <1>5, <2>1 DEF ReadWithoutGit, TypeOK, Locals
  <2> QED BY <1>5, <2>2 DEF ReadWithoutGit, Goto, TypeOK, Stages
<1>6. ASSUME NEW w \in Writers, ReadMd(w) PROVE TypeOK'
  <2>1. File(w) \in Files /\ disk[File(w)].md \in Seq(Keys)
    BY <1>6, FileType DEF ReadMd, Goto, LogFile
  <2>2. HeadTree.log[File(w)].md \in Seq(Keys)
    BY <2>1, HeadTreeType DEF Tree, LogFile
  <2>3. my' \in [Writers -> Locals]
    <3>1. my \in [Writers -> Locals]
      BY DEF TypeOK
    <3> QED BY <1>6, <2>1, <2>2, <3>1 DEF ReadMd, Locals
  <2>4. pc' \in [Writers -> Stages]
    BY <1>6 DEF ReadMd, Goto, TypeOK, Stages
  <2>5. UNCHANGED <<lock, shared, history, budget>>
    BY <1>6 DEF ReadMd
  <2> QED BY <2>3, <2>4, <2>5 DEF TypeOK
<1>7. ASSUME NEW w \in Writers, NoOrphan(w) PROVE TypeOK'
  BY <1>7 DEF NoOrphan, Goto, TypeOK, Stages
<1>8. ASSUME NEW w \in Writers, RefuseOrphan(w) PROVE TypeOK'
  BY <1>8, LeaveLockType DEF RefuseOrphan, TypeOK
<1>9. ASSUME NEW w \in Writers, RecoverOrphan(w) PROVE TypeOK'
  <2>1. my' \in [Writers -> Locals]
    BY <1>9 DEF RecoverOrphan, TypeOK, Locals
  <2> QED BY <1>9, <2>1 DEF RecoverOrphan, Goto, TypeOK, Stages
<1>10. ASSUME NEW w \in Writers, SkipDuplicate(w) PROVE TypeOK'
  BY <1>10, LeaveLockType DEF SkipDuplicate, TypeOK
<1>11. ASSUME NEW w \in Writers, RecordKey(w) PROVE TypeOK'
  <2>1. disk' \in [Files -> LogFile]
    BY <1>11, FileType DEF RecordKey, Goto, TypeOK, LogFile
  <2> QED BY <1>11, <2>1 DEF RecordKey, Goto, TypeOK, Stages
<1>12. ASSUME NEW w \in Writers, WriteEntry(w) PROVE TypeOK'
  <2>1. my[w].prior \in Seq(Keys) /\ my[w].key \in Keys
    BY <1>12, FileType DEF WriteEntry, Goto, TypeOK, Locals
  <2>2. disk' \in [Files -> LogFile]
    <3>1. Append(my[w].prior, my[w].key) \in Seq(Keys)
      BY <2>1
    <3>2. File(w) \in Files /\ disk[File(w)] \in LogFile
      BY <1>12, FileType DEF WriteEntry, Goto
    <3> QED BY <1>12, <3>1, <3>2 DEF WriteEntry, TypeOK, LogFile
  <2> QED BY <1>12, <2>2 DEF WriteEntry, Goto, TypeOK, Stages
<1>13. ASSUME NEW w \in Writers, StagePaths(w) PROVE TypeOK'
  <2>1. my[w].staged \in Tree /\ my'[w].staged \in Tree
    BY <1>13, FileType DEF StagePaths, Goto, TypeOK, Tree, Locals
  <2>2. my' \in [Writers -> Locals]
    <3>1. my' = [my EXCEPT ![w].staged = my'[w].staged]
      BY <1>13 DEF StagePaths, TypeOK
    <3>2. my \in [Writers -> Locals]
      BY DEF TypeOK
    <3> QED BY <2>1, <3>1, <3>2 DEF Locals
  <2> QED BY <1>13, <2>2 DEF StagePaths, Goto, TypeOK, Stages
<1>14. ASSUME NEW w \in Writers, LockIndex(w) PROVE TypeOK'
  BY <1>14 DEF LockIndex, Goto, TypeOK, Stages
<1>15. ASSUME NEW w \in Writers, IndexLocked(w) PROVE TypeOK'
  BY <1>15, LeaveLockType DEF IndexLocked, TypeOK
<1>16. ASSUME NEW w \in Writers, WriteIndex(w) PROVE TypeOK'
  BY <1>16 DEF WriteIndex, Goto, TypeOK, Stages, Locals
<1>17. ASSUME NEW w \in Writers, WriteTree(w) PROVE TypeOK'
  <2>1. index \in Tree /\ head \in Nat
    BY DEF TypeOK
  <2>2. my' \in [Writers -> Locals]
    <3>1. my \in [Writers -> Locals]
      BY DEF TypeOK
    <3> QED BY <1>17, <2>1, <3>1 DEF WriteTree, Locals
  <2>3. pc' \in [Writers -> Stages]
    BY <1>17 DEF WriteTree, Goto, TypeOK, Stages
  <2>5. UNCHANGED <<lock, shared, history, budget>>
    BY <1>17 DEF WriteTree
  <2> QED BY <2>2, <2>3, <2>5 DEF TypeOK
<1>18. ASSUME NEW w \in Writers, SetHead(w) PROVE TypeOK'
  <2> DEFINE made == [tree |-> my[w].staged, parent |-> my[w].parent,
                      subject |-> IF my[w].recovering THEN NoKey ELSE my[w].key]
  <2>1. made \in Commit
    BY DEF TypeOK, Locals, Commit
  <2>2. commits' = Append(commits, made)
    BY <1>18 DEF SetHead
  <2>3. commits' \in Seq(Commit) /\ head' \in 0..Len(commits')
    BY <1>18, <2>1, <2>2 DEF SetHead, TypeOK
  <2>4. my' \in [Writers -> Locals]
    <3>1. my[w] \in Locals
      BY DEF TypeOK
    <3>2. my'[w] \in Locals
      BY <1>18, <3>1, EmptyTreePaired DEF SetHead, TypeOK, Locals
    <3> QED BY <1>18, <3>2 DEF SetHead, TypeOK
  <2> QED BY <1>18, <2>3, <2>4 DEF SetHead, Goto, TypeOK, Stages
<1>19. ASSUME NEW w \in Writers, BuildResult(w) PROVE TypeOK'
  <2>1. my[w].key \in Keys /\ head \in Nat
    BY <1>19, FileType DEF BuildResult, Goto, TypeOK
  <2>2. results' \subseteq [key : Keys, sha : Nat]
    BY <1>19, <2>1 DEF BuildResult, TypeOK
  <2> QED BY <1>19, <2>2 DEF BuildResult, Goto, TypeOK, Stages
<1>20. ASSUME NEW w \in Writers, Export(w) PROVE TypeOK'
  <2>1. sends' \in [Keys -> Nat]
    BY <1>20, FileType DEF Export, Goto, TypeOK
  <2> QED BY <1>20, <2>1, BlankType DEF Export, Goto, TypeOK, Stages
<1>21. ASSUME NEW w \in Writers, Fail(w) PROVE TypeOK'
  <2>1. pc[w] # "idle"
    BY <1>21 DEF Fail, InsideLock
  <2>2. budget' \in Budget
    BY <1>21, SpendType DEF Fail
  <2>3. indexLock' \in Writers \cup {Nobody}
    BY <1>21 DEF Fail, TypeOK
  <2> QED BY <1>21, <2>1, <2>2, <2>3, LeaveLockType DEF Fail, TypeOK
<1>22. ASSUME NEW p \in Procs, Crash(p) PROVE TypeOK'
  <2>1. budget' \in Budget
    BY <1>22, SpendType DEF Crash
  <2>2. my' \in [Writers -> Locals]
    BY <1>22, BlankType DEF Crash, TypeOK
  <2>3. pc' \in [Writers -> Stages] /\ lock' \in [Files -> Writers \cup {Nobody}]
    BY <1>22 DEF Crash, TypeOK, Stages
  <2> QED BY <1>22, <2>1, <2>2, <2>3 DEF Crash, TypeOK
<1>23. ASSUME NEW f \in Files, Tamper(f) PROVE TypeOK'
  <2>1. disk[f] \in LogFile
    BY DEF TypeOK
  <2>2. disk[f].md # <<>> => Front(disk[f].md) \in Seq(Keys)
    BY <2>1 DEF LogFile, Front
  <2>3. disk' \in [Files -> LogFile] /\ erased' \subseteq Keys
    <3>1. CASE CutLog(f)
      BY <2>1, <2>2, <3>1 DEF CutLog, TypeOK, LogFile
    <3>2. CASE EditSidecar(f)
      <4>1. PICK lines \in SUBSET disk[f].keys, intact \in BOOLEAN :
              /\ disk' = [disk EXCEPT ![f].keys = @ \ lines, ![f].intact = intact]
              /\ erased' = erased \cup lines
        BY <3>2 DEF EditSidecar
      <4>2. lines \subseteq Keys
        BY <2>1 DEF LogFile
      <4>3. [disk[f] EXCEPT !.keys = @ \ lines, !.intact = intact] \in LogFile
        BY <2>1 DEF LogFile
      <4> QED BY <4>1, <4>2, <4>3 DEF TypeOK
    <3> QED BY <1>23, <3>1, <3>2 DEF Tamper
  <2>4. budget' \in Budget
    BY <1>23, SpendType DEF Tamper
  <2> QED BY <1>23, <2>3, <2>4 DEF Tamper, TypeOK
<1>24. CASE UNCHANGED vars
  BY <1>24 DEF vars, TypeOK
<1> QED
  BY <1>1, <1>2, <1>3, <1>4, <1>5, <1>6, <1>7, <1>8, <1>9, <1>10, <1>11, <1>12,
     <1>13, <1>14, <1>15, <1>16, <1>17, <1>18, <1>19, <1>20, <1>21, <1>22, <1>23,
     <1>24
  DEF Next, Step, CommitStep

----------------------------------------------------------------------------
(* Locks and locals *)

\* Two writers inside the critical section of one file are one writer.
LEMMA Alone ==
    ASSUME LocksInv, NEW v \in Writers, NEW w \in Writers,
           pc[v] \in InsideLock, pc[w] \in InsideLock, File(v) = File(w)
    PROVE  v = w
BY DEF LocksInv

\* Moving from one stage of the critical section to another, with the same
\* key, keeps the lock table right.
LEMMA MoveInside ==
    ASSUME TypeOK, LocalsInv, LocksInv, NEW w \in Writers, NEW s \in InsideLock,
           pc[w] \in InsideLock, pc' = [pc EXCEPT ![w] = s], lock' = lock,
           my'[w].key = my[w].key, \A v \in Writers \ {w} : my'[v] = my[v]
    PROVE  LocalsInv' /\ LocksInv'
<1>1. \A v \in Writers : File(v)' = File(v)
  BY DEF File
<1>2. s # "idle" /\ pc[w] # "idle"
  BY DEF InsideLock
<1>3. \A v \in Writers : pc'[v] = IF v = w THEN s ELSE pc[v]
  BY DEF TypeOK
<1> QED BY <1>1, <1>2, <1>3 DEF LocalsInv, LocksInv

\* Leaving the critical section keeps the lock table right.
LEMMA LeaveLockKeeps ==
    ASSUME TypeOK, LocalsInv, LocksInv, NEW w \in Writers, pc[w] \in InsideLock,
           LeaveLock(w)
    PROVE  LocalsInv' /\ LocksInv'
<1>1. /\ \A v \in Writers : pc'[v] = IF v = w THEN "idle" ELSE pc[v]
      /\ \A v \in Writers : my'[v] = IF v = w THEN Blank ELSE my[v]
      /\ \A f \in Files : lock'[f] = IF f = File(w) THEN Nobody ELSE lock[f]
  BY DEF LeaveLock, TypeOK
<1>2. \A v \in Writers \ {w} : File(v)' = File(v)
  BY <1>1 DEF File
<1>3. LocalsInv'
  BY <1>1 DEF LocalsInv
<1>4. ASSUME NEW v \in Writers, pc'[v] \in InsideLock PROVE lock'[File(v)'] = v
  <2>1. v # w /\ pc[v] \in InsideLock /\ File(v)' = File(v)
    BY <1>1, <1>2, <1>4 DEF InsideLock
  <2>2. File(v) # File(w)
    BY <2>1, Alone
  <2>3. File(v) \in Files
    BY <2>1, FileType DEF InsideLock
  <2> QED BY <1>1, <2>1, <2>2, <2>3 DEF LocksInv
<1>5. ASSUME NEW f \in Files, NEW v \in Writers, lock'[f] = v
      PROVE  pc'[v] \in InsideLock /\ File(v)' = f
  <2>1. lock[f] = v /\ f # File(w)
    BY <1>1, <1>5, NobodyAssumption
  <2> QED BY <1>1, <1>2, <2>1 DEF LocksInv
<1> QED BY <1>3, <1>4, <1>5 DEF LocksInv

\* Every step keeps the lock table and the locals in agreement.
LEMMA LocksStep ==
    TypeOK /\ LocalsInv /\ LocksInv /\ [Next]_vars => LocalsInv' /\ LocksInv'
<1> SUFFICES ASSUME TypeOK, LocalsInv, LocksInv, [Next]_vars
             PROVE  LocalsInv' /\ LocksInv'
  OBVIOUS
<1> USE DEF Goto
<1>1. ASSUME NEW w \in Writers, NEW k \in Keys, Call(w, k) PROVE LocalsInv' /\ LocksInv'
  BY <1>1 DEF Call, TypeOK, Locals, LocalsInv, LocksInv, InsideLock, File
<1>2. ASSUME NEW w \in Writers, Acquire(w) PROVE LocalsInv' /\ LocksInv'
  BY <1>2, NobodyAssumption, FileType
  DEF Acquire, TypeOK, LocalsInv, LocksInv, InsideLock, File, Stages
<1>3. ASSUME NEW w \in Writers, LockTimeout(w) PROVE LocalsInv' /\ LocksInv'
  BY <1>3 DEF LockTimeout, TypeOK, LocalsInv, LocksInv, InsideLock, File
<1>4. ASSUME NEW w \in Writers,
             \/ EnsureLockIgnore(w) \/ NoOrphan(w) \/ RecordKey(w) \/ WriteEntry(w)
             \/ LockIndex(w) \/ WriteIndex(w)
      PROVE  LocalsInv' /\ LocksInv'
  BY <1>4, MoveInside
  DEF EnsureLockIgnore, NoOrphan, RecordKey, WriteEntry, LockIndex, WriteIndex, InsideLock,
      Stages
<1>5. ASSUME NEW w \in Writers,
             \/ ReadWithoutGit(w) \/ ReadMd(w) \/ RecoverOrphan(w) \/ StagePaths(w)
             \/ WriteTree(w) \/ SetHead(w)
      PROVE  LocalsInv' /\ LocksInv'
  <2>1. PICK s \in InsideLock : pc[w] \in InsideLock /\ pc' = [pc EXCEPT ![w] = s]
    BY <1>5 DEF ReadWithoutGit, ReadMd, RecoverOrphan, StagePaths, WriteTree, SetHead,
                InsideLock, Stages
  <2>2. lock' = lock
    BY <1>5 DEF ReadWithoutGit, ReadMd, RecoverOrphan, StagePaths, WriteTree, SetHead
  <2>3. my'[w].key = my[w].key /\ \A v \in Writers \ {w} : my'[v] = my[v]
    BY <1>5 DEF ReadWithoutGit, ReadMd, RecoverOrphan, StagePaths, WriteTree, SetHead,
                TypeOK, Locals
  <2> QED BY <2>1, <2>2, <2>3, MoveInside
<1>6. ASSUME NEW w \in Writers,
             RefuseOrphan(w) \/ SkipDuplicate(w) \/ IndexLocked(w) \/ Fail(w)
      PROVE  LocalsInv' /\ LocksInv'
  <2>1. pc[w] \in InsideLock /\ LeaveLock(w)
    BY <1>6 DEF RefuseOrphan, SkipDuplicate, IndexLocked, Fail, InsideLock, Stages
  <2> QED BY <2>1, LeaveLockKeeps
<1>7. ASSUME NEW w \in Writers, BuildResult(w) PROVE LocalsInv' /\ LocksInv'
  <2>1. /\ \A v \in Writers : pc'[v] = IF v = w THEN "export" ELSE pc[v]
        /\ \A v \in Writers : my'[v] = my[v] /\ File(v)' = File(v)
        /\ \A f \in Files : lock'[f] = IF f = File(w) THEN Nobody ELSE lock[f]
    BY <1>7 DEF BuildResult, TypeOK, File
  <2>2. pc[w] = "result"
    BY <1>7 DEF BuildResult
  <2>3. LocalsInv'
    BY <2>1, <2>2 DEF LocalsInv
  <2>4. ASSUME NEW v \in Writers, pc'[v] \in InsideLock PROVE lock'[File(v)'] = v
    <3>1. v # w /\ pc[v] \in InsideLock
      BY <2>1, <2>4 DEF InsideLock
    <3>2. File(v) # File(w) /\ File(v) \in Files
      BY <2>2, <3>1, Alone, FileType DEF InsideLock, Stages
    <3> QED BY <2>1, <3>1, <3>2 DEF LocksInv
  <2>5. ASSUME NEW f \in Files, NEW v \in Writers, lock'[f] = v
        PROVE  pc'[v] \in InsideLock /\ File(v)' = f
    BY <2>1, <2>5, NobodyAssumption DEF LocksInv
  <2> QED BY <2>3, <2>4, <2>5 DEF LocksInv
<1>8. ASSUME NEW w \in Writers, Export(w) PROVE LocalsInv' /\ LocksInv'
  BY <1>8 DEF Export, TypeOK, LocalsInv, LocksInv, InsideLock, File
<1>9. ASSUME NEW p \in Procs, Crash(p) PROVE LocalsInv' /\ LocksInv'
  <2>1. /\ \A v \in Writers : pc'[v] = IF ProcOf[v] = p THEN "idle" ELSE pc[v]
        /\ \A v \in Writers : my'[v] = IF ProcOf[v] = p THEN Blank ELSE my[v]
    BY <1>9 DEF Crash
  <2>2. \A v \in Writers : ProcOf[v] # p => File(v)' = File(v)
    BY <2>1 DEF File
  <2>3. \A f \in Files : \A v \in Writers :
          lock'[f] = v <=> lock[f] = v /\ ProcOf[v] # p
    BY <1>9, NobodyAssumption DEF Crash
  <2>4. \A v \in Writers : pc[v] \in InsideLock => File(v) \in Files
    BY FileType DEF InsideLock
  <2>5. LocalsInv'
    BY <2>1 DEF LocalsInv
  <2> QED BY <2>1, <2>2, <2>3, <2>4, <2>5 DEF LocksInv, InsideLock
<1>10. ASSUME NEW f \in Files, Tamper(f) PROVE LocalsInv' /\ LocksInv'
  BY <1>10 DEF Tamper, LocalsInv, LocksInv, File
<1>11. CASE UNCHANGED vars
  BY <1>11 DEF vars, LocalsInv, LocksInv, File
<1> QED
  BY <1>1, <1>2, <1>3, <1>4, <1>5, <1>6, <1>7, <1>8, <1>9, <1>10, <1>11
  DEF Next, Step, CommitStep

----------------------------------------------------------------------------
(* Snapshots, entries and trees *)

FilesInv == PriorInv /\ EntryInv /\ DiskConsistent /\ TreesInv

\* A writer whose snapshot counts, or which is about to write its entry, is
\* inside the critical section of its file.
LEMMA PriorInside ==
    ASSUME PriorInv, NEW w \in Writers, UsesPrior(w) \/ pc[w] = "entry"
    PROVE  pc[w] \in InsideLock
BY DEF PriorInv, UsesPrior, InsideLock, Stages

\* A step that writes no file keeps the snapshots of the other writers, and
\* the files consistent.
LEMMA NoFileWritten ==
    ASSUME TypeOK, LocalsInv, LocksInv, FilesInv, NEW w \in Writers, disk' = disk,
           erased' = erased,
           \A v \in Writers \ {w} : my'[v] = my[v] /\ pc'[v] = pc[v],
           pc'[w] # "entry",
           my'[w].recovering => /\ pc'[w] \in {"stage", "lockIndex", "writeIndex", "tree", "head"}
                                /\ my'[w].prior = disk[File(w)'].md,
           pc'[w] \in {"readKeys", "dedup"} => my'[w].prior = disk[File(w)'].md
    PROVE  PriorInv' /\ EntryInv' /\ DiskConsistent'
<1>1. \A v \in Writers \ {w} : File(v)' = File(v)
  BY DEF File
<1>2. DiskConsistent'
  BY DEF FilesInv, DiskConsistent
<1>3. EntryInv'
  BY <1>1 DEF FilesInv, EntryInv
<1>4. PriorInv'
  BY <1>1 DEF FilesInv, PriorInv, UsesPrior
<1> QED BY <1>2, <1>3, <1>4

\* A step that changes no tree, other than by forgetting a writer's.
LEMMA NoTreeChanged ==
    ASSUME FilesInv, index' = index, commits' = commits, erased \subseteq erased',
           \A v \in Writers : my'[v].staged \in {my[v].staged, EmptyTree}
    PROVE  TreesInv'
<1>1. \A tree : TreePaired(tree, erased) => TreePaired(tree, erased')
  BY PairedMore
<1> QED BY <1>1, EmptyTreePaired DEF FilesInv, TreesInv

\* A step of a writer on its own file leaves the snapshots and the pending
\* entries of all other writers valid.
LEMMA OwnFileWritten ==
    ASSUME TypeOK, LocalsInv, LocksInv, FilesInv, NEW w \in Writers,
           pc[w] \in InsideLock, NEW file, my' = my, erased' = erased,
           disk' = [disk EXCEPT ![File(w)] = file],
           \A v \in Writers \ {w} : pc'[v] = pc[v]
    PROVE  /\ \A v \in Writers \ {w} :
                UsesPrior(v)' => my'[v].prior = disk'[File(v)'].md
           /\ \A v \in Writers \ {w} :
                pc'[v] = "entry" => /\ my'[v].key \in disk'[File(v)'].keys
                                    /\ my'[v].key \notin Entries(disk'[File(v)'].md) \ erased'
           /\ \A v \in Writers \ {w} : my[v].recovering =>
                pc'[v] \in {"stage", "lockIndex", "writeIndex", "tree", "head"}
<1>1. \A v \in Writers : File(v)' = File(v)
  BY DEF File
<1>2. ASSUME NEW v \in Writers \ {w}, UsesPrior(v) \/ pc[v] = "entry"
      PROVE  disk'[File(v)] = disk[File(v)]
  <2>1. pc[v] \in InsideLock
    BY <1>2, PriorInside DEF FilesInv
  <2>2. File(v) # File(w) /\ File(v) \in Files
    BY <2>1, Alone, FileType DEF InsideLock
  <2> QED BY <2>2 DEF TypeOK
<1>3. \A v \in Writers \ {w} : UsesPrior(v)' <=> UsesPrior(v)
  BY DEF UsesPrior
<1> QED BY <1>1, <1>2, <1>3 DEF FilesInv, PriorInv, EntryInv

\* Every step keeps the files on disk, the index and the commits consistent.
LEMMA FilesStep ==
    TypeOK /\ LocalsInv /\ LocksInv /\ FilesInv /\ [Next]_vars => FilesInv'
<1> SUFFICES ASSUME TypeOK, LocalsInv, LocksInv, FilesInv, [Next]_vars
             PROVE  FilesInv'
  OBVIOUS
<1> USE DEF Goto, shared, history
<1>a. pc \in [Writers -> Stages] /\ my \in [Writers -> Locals]
  BY DEF TypeOK
<1>b. \A v \in Writers : my[v].recovering =>
        /\ pc[v] \in {"stage", "lockIndex", "writeIndex", "tree", "head"}
        /\ my[v].prior = disk[File(v)].md
  BY DEF FilesInv, PriorInv, UsesPrior
<1>c. \A v \in Writers : pc[v] \in {"readKeys", "dedup", "entry"} =>
        my[v].prior = disk[File(v)].md
  BY DEF FilesInv, PriorInv, UsesPrior
<1>1. ASSUME NEW w \in Writers,
             \/ \E k \in Keys : Call(w, k)
             \/ Acquire(w) \/ LockTimeout(w) \/ EnsureLockIgnore(w)
             \/ ReadWithoutGit(w) \/ ReadMd(w) \/ NoOrphan(w) \/ RefuseOrphan(w)
             \/ RecoverOrphan(w) \/ SkipDuplicate(w) \/ LockIndex(w)
             \/ IndexLocked(w) \/ BuildResult(w) \/ Export(w) \/ Fail(w)
      PROVE  FilesInv'
  <2> USE DEF Call, Acquire, LockTimeout, EnsureLockIgnore, ReadWithoutGit, ReadMd, NoOrphan,
              RefuseOrphan, RecoverOrphan, SkipDuplicate, LockIndex, IndexLocked, BuildResult,
              Export, Fail, LeaveLock
  <2>1. disk' = disk /\ index' = index /\ commits' = commits /\ erased' = erased
    BY <1>1
  <2>2. \A v \in Writers \ {w} : my'[v] = my[v] /\ pc'[v] = pc[v]
    BY <1>1 DEF TypeOK
  <2>3. pc'[w] # "entry"
    BY <1>1 DEF TypeOK
  <2>4. /\ my'[w].staged \in {my[w].staged, EmptyTree}
        /\ my'[w].recovering => /\ pc'[w] \in {"stage", "lockIndex", "writeIndex", "tree", "head"}
                                /\ my'[w].prior = disk[File(w)'].md
        /\ pc'[w] \in {"readKeys", "dedup"} => my'[w].prior = disk[File(w)'].md
    <3>1. CASE my'[w] = Blank /\ pc'[w] = "idle"
      BY <3>1 DEF Blank
    <3>2. CASE \E k \in Keys : Call(w, k)
      <4>1. /\ my'[w].staged = my[w].staged
            /\ my'[w].recovering = my[w].recovering
            /\ pc[w] = "idle" /\ pc'[w] = "locking"
        BY <1>a, <3>2 DEF Locals
      <4> QED BY <1>b, <4>1
    <3>3. CASE \/ Acquire(w) \/ EnsureLockIgnore(w) \/ NoOrphan(w) \/ LockIndex(w)
               \/ BuildResult(w)
      <4>1. my' = my /\ File(w)' = File(w)
        BY <3>3 DEF File
      <4>2. /\ pc[w] \in {"locking", "ignore", "readKeys", "lockIndex", "result"}
            /\ pc'[w] \in {"ignore", "readMd", "dedup", "writeIndex", "export"}
            /\ pc[w] = "lockIndex" => pc'[w] = "writeIndex"
            /\ pc'[w] = "dedup" => pc[w] = "readKeys"
        BY <1>a, <3>3
      <4> QED BY <1>b, <1>c, <4>1, <4>2
    <3>4. CASE ReadWithoutGit(w) \/ ReadMd(w)
      <4>1. /\ my'[w].staged = my[w].staged
            /\ my'[w].recovering = my[w].recovering
            /\ my'[w].key = my[w].key
            /\ my'[w].prior = disk[File(w)].md
        BY <1>a, <3>4 DEF Locals
      <4>2. ~my[w].recovering
        BY <1>b, <3>4
      <4> QED BY <4>1, <4>2 DEF File
    <3>5. CASE RecoverOrphan(w)
      <4>1. /\ my'[w].staged = my[w].staged
            /\ my'[w].key = my[w].key
            /\ my'[w].prior = my[w].prior
            /\ pc[w] = "readKeys" /\ pc'[w] = "stage"
        BY <1>a, <3>5 DEF Locals
      <4> QED BY <1>c, <4>1 DEF File
    <3>6. CASE \/ LockTimeout(w) \/ RefuseOrphan(w) \/ SkipDuplicate(w)
               \/ IndexLocked(w) \/ Export(w) \/ Fail(w)
      BY <1>a, <3>1, <3>6
    <3> QED BY <1>1, <3>2, <3>3, <3>4, <3>5, <3>6
  <2>7. PriorInv' /\ EntryInv' /\ DiskConsistent'
    BY <2>1, <2>2, <2>3, <2>4, NoFileWritten
  <2>8. TreesInv'
    BY <2>1, <2>2, <2>4, NoTreeChanged
  <2> QED BY <2>7, <2>8 DEF FilesInv
<1>2. ASSUME NEW w \in Writers, RecordKey(w) PROVE FilesInv'
  <2> DEFINE f == File(w)
             file == [disk[f] EXCEPT !.keys = @ \cup {my[w].key}]
  <2>1. f \in Files /\ disk[f] \in LogFile /\ pc[w] \in InsideLock /\ my[w].key \in Keys
    BY <1>2, FileType DEF RecordKey, InsideLock, Stages
  <2>2. /\ my' = my /\ disk' = [disk EXCEPT ![f] = file] /\ pc' = [pc EXCEPT ![w] = "entry"]
        /\ erased' = erased
    BY <1>2 DEF RecordKey
  <2>3. Paired(file, erased) /\ file.md = disk[f].md
    BY <2>1 DEF FilesInv, DiskConsistent, Paired, LogFile
  <2>4. my[w].key \in file.keys /\ my[w].key \notin Entries(file.md) \ erased
    BY <1>2, <2>1 DEF RecordKey, FilesInv, DiskConsistent, Paired, LogFile
  <2>5. DiskConsistent'
    BY <2>1, <2>2, <2>3 DEF FilesInv, DiskConsistent, TypeOK
  <2>6. File(w)' = f /\ disk'[f] = file /\ my[w].prior = file.md /\ ~my[w].recovering
    BY <1>2, <1>b, <1>c, <2>1, <2>2, <2>3 DEF RecordKey, File, TypeOK
  <2>7. \A v \in Writers : pc'[v] = IF v = w THEN "entry" ELSE pc[v]
    BY <2>2 DEF TypeOK
  <2>8. PriorInv' /\ EntryInv'
    <3> HIDE DEF file
    <3>1. \A v \in Writers \ {w} :
             /\ UsesPrior(v)' => my'[v].prior = disk'[File(v)'].md
             /\ pc'[v] = "entry" => /\ my'[v].key \in disk'[File(v)'].keys
                                    /\ my'[v].key \notin Entries(disk'[File(v)'].md) \ erased'
             /\ my[v].recovering =>
                  pc'[v] \in {"stage", "lockIndex", "writeIndex", "tree", "head"}
      BY <2>1, <2>2, <2>7, OwnFileWritten
    <3> QED BY <2>2, <2>4, <2>6, <3>1 DEF PriorInv, EntryInv
  <2>9. TreesInv'
    BY <1>2, <2>2, NoTreeChanged DEF RecordKey
  <2> QED BY <2>5, <2>8, <2>9 DEF FilesInv
<1>3. ASSUME NEW w \in Writers, WriteEntry(w) PROVE FilesInv'
  <2> DEFINE f == File(w)
             file == [disk[f] EXCEPT !.md = Append(disk[f].md, my[w].key)]
             s == IF CommitMode THEN "stage" ELSE "result"
  <2>1. f \in Files /\ disk[f] \in LogFile /\ pc[w] \in InsideLock /\ my[w].key \in Keys
    BY <1>3, FileType DEF WriteEntry, InsideLock, Stages
  <2>2. my[w].prior = disk[f].md /\ ~my[w].recovering
    BY <1>3, <1>b, <1>c DEF WriteEntry
  <2>3. /\ my' = my /\ disk' = [disk EXCEPT ![f] = file] /\ pc' = [pc EXCEPT ![w] = s]
        /\ erased' = erased
    BY <1>3, <2>2 DEF WriteEntry
  <2>4. Paired(file, erased)
    <3>1. Paired(disk[f], erased)
      BY <2>1 DEF FilesInv, DiskConsistent
    <3>2. my[w].key \in disk[f].keys /\ my[w].key \notin Entries(disk[f].md) \ erased
      BY <1>3 DEF FilesInv, EntryInv, WriteEntry
    <3> QED BY <2>1, <3>1, <3>2, PairedAppend
  <2>5. DiskConsistent'
    BY <2>1, <2>3, <2>4 DEF FilesInv, DiskConsistent, TypeOK
  <2>6. \A v \in Writers : pc'[v] = IF v = w THEN s ELSE pc[v]
    BY <2>3 DEF TypeOK
  <2>7. PriorInv' /\ EntryInv'
    <3>1. /\ s \notin {"readKeys", "dedup", "entry"}
          /\ ~my'[w].recovering
      BY <2>2, <2>3
    <3>2. ~UsesPrior(w)' /\ pc'[w] # "entry"
      BY <2>3, <2>6, <3>1 DEF UsesPrior
    <3> HIDE DEF s, file
    <3>3. \A v \in Writers \ {w} :
             /\ UsesPrior(v)' => my'[v].prior = disk'[File(v)'].md
             /\ pc'[v] = "entry" => /\ my'[v].key \in disk'[File(v)'].keys
                                    /\ my'[v].key \notin Entries(disk'[File(v)'].md) \ erased'
             /\ my[v].recovering =>
                  pc'[v] \in {"stage", "lockIndex", "writeIndex", "tree", "head"}
      BY <2>1, <2>3, <2>6, OwnFileWritten
    <3> QED BY <2>3, <3>1, <3>2, <3>3 DEF PriorInv, EntryInv
  <2>8. TreesInv'
    BY <1>3, <2>3, NoTreeChanged DEF WriteEntry
  <2> QED BY <2>5, <2>7, <2>8 DEF FilesInv
<1>4. ASSUME NEW w \in Writers, StagePaths(w) \/ WriteIndex(w) \/ WriteTree(w)
      PROVE  FilesInv'
  <2> USE DEF StagePaths, WriteIndex, WriteTree
  <2>1. disk' = disk /\ commits' = commits /\ erased' = erased
    BY <1>4
  <2>2. \A v \in Writers \ {w} : my'[v] = my[v] /\ pc'[v] = pc[v]
    BY <1>4 DEF TypeOK
  <2>3. pc'[w] \in {"lockIndex", "tree", "head"}
    BY <1>4 DEF TypeOK
  <2>4. /\ my'[w].recovering = my[w].recovering
        /\ my'[w].prior = my[w].prior
        /\ my'[w].key = my[w].key
    <3>1. CASE StagePaths(w)
      BY <1>a, <3>1 DEF Locals
    <3>2. CASE WriteIndex(w)
      BY <3>2
    <3>3. CASE WriteTree(w)
      BY <1>a, <3>3 DEF Locals
    <3> QED BY <1>4, <3>1, <3>2, <3>3
  <2>5. PriorInv' /\ EntryInv' /\ DiskConsistent'
    BY <1>b, <2>1, <2>2, <2>3, <2>4, NoFileWritten DEF File
  <2>6. /\ TreePaired(index, erased) /\ TreePaired(my[w].staged, erased)
        /\ Paired(disk[File(w)], erased)
    BY <1>4, FileType DEF FilesInv, TreesInv, DiskConsistent
  <2>7. TreePaired(my'[w].staged, erased)
    <3>1. CASE StagePaths(w)
      <4>1. my'[w].staged.log = [index.log EXCEPT ![File(w)] = disk[File(w)]]
        BY <1>a, <3>1 DEF Locals
      <4>2. index.log \in [Files -> LogFile]
        BY DEF TypeOK, Tree
      <4> QED BY <2>6, <4>1, <4>2 DEF TreePaired
    <3>2. CASE WriteIndex(w)
      BY <2>6, <3>2
    <3>3. CASE WriteTree(w)
      BY <1>a, <2>6, <3>3 DEF Locals
    <3> QED BY <1>4, <3>1, <3>2, <3>3
  <2>8. index' \in {index, my[w].staged}
    BY <1>4
  <2>9. TreePaired(index', erased)
    BY <2>6, <2>8 DEF TreePaired
  <2>10. TreesInv'
    BY <2>1, <2>2, <2>7, <2>9 DEF FilesInv, TreesInv, TreePaired
  <2> QED BY <2>5, <2>10 DEF FilesInv
<1>5. ASSUME NEW w \in Writers, SetHead(w) PROVE FilesInv'
  <2> USE DEF SetHead
  <2>1. disk' = disk /\ index' = index /\ erased' = erased
    BY <1>5
  <2>2. \A v \in Writers \ {w} : my'[v] = my[v] /\ pc'[v] = pc[v]
    BY <1>5 DEF TypeOK
  <2>3. pc'[w] = IF my[w].recovering THEN "dedup" ELSE "result"
    BY <1>5 DEF TypeOK
  <2>4. /\ ~my'[w].recovering
        /\ my'[w].prior = my[w].prior
        /\ my'[w].key = my[w].key
        /\ my'[w].staged = EmptyTree
    BY <1>5, <1>a DEF Locals
  <2>5. PriorInv' /\ EntryInv' /\ DiskConsistent'
    BY <1>b, <2>1, <2>2, <2>3, <2>4, NoFileWritten DEF File
  <2>6. \A n \in DOMAIN commits' : TreePaired(commits'[n].tree, erased)
    <3>1. PICK made : commits' = Append(commits, made) /\ made.tree = my[w].staged
      BY <1>5
    <3>2. TreePaired(made.tree, erased)
      BY <3>1 DEF FilesInv, TreesInv
    <3>3. commits \in Seq(Commit)
      BY DEF TypeOK
    <3>4. ASSUME NEW n \in DOMAIN commits'
          PROVE  commits'[n] = made \/ (n \in DOMAIN commits /\ commits'[n] = commits[n])
      BY <3>1, <3>3, <3>4
    <3> QED BY <3>2, <3>4 DEF FilesInv, TreesInv
  <2>7. \A v \in Writers : TreePaired(my'[v].staged, erased)
    BY <2>2, <2>4, EmptyTreePaired DEF FilesInv, TreesInv
  <2>8. TreesInv'
    BY <2>1, <2>6, <2>7 DEF FilesInv, TreesInv, TreePaired
  <2> QED BY <2>5, <2>8 DEF FilesInv
<1>6. ASSUME NEW p \in Procs, Crash(p) PROVE FilesInv'
  <2>1. disk' = disk /\ index' = index /\ commits' = commits /\ erased' = erased
    BY <1>6 DEF Crash
  <2>2. \A v \in Writers : \/ pc'[v] = "idle" /\ my'[v] = Blank
                           \/ pc'[v] = pc[v] /\ my'[v] = my[v] /\ File(v)' = File(v)
    BY <1>6 DEF Crash, File
  <2>3. PriorInv' /\ EntryInv' /\ DiskConsistent'
    BY <2>1, <2>2
    DEF FilesInv, PriorInv, UsesPrior, EntryInv, DiskConsistent, Blank
  <2>4. TreesInv'
    BY <2>1, <2>2, NoTreeChanged DEF Blank
  <2> QED BY <2>3, <2>4 DEF FilesInv
<1>7. ASSUME NEW f \in Files, Tamper(f) PROVE FilesInv'
  <2>1. my' = my /\ pc' = pc /\ index' = index /\ commits' = commits /\ lock[f] = Nobody
    BY <1>7 DEF Tamper
  <2>2. erased \subseteq erased' /\ \A g \in Files \ {f} : disk'[g] = disk[g]
    BY <1>7 DEF Tamper, CutLog, EditSidecar, TypeOK
  <2>3. /\ disk[f] \in LogFile /\ Paired(disk[f], erased)
        /\ \A file : Paired(file, erased) => Paired(file, erased')
    BY <2>2, PairedMore DEF TypeOK, FilesInv, DiskConsistent
  <2>4. Paired(disk'[f], erased')
    <3>1. disk \in [Files -> LogFile]
      BY DEF TypeOK
    <3>2. CASE CutLog(f)
      BY <2>3, <3>1, <3>2, PairedFront DEF CutLog
    <3>3. CASE EditSidecar(f)
      <4>1. PICK lines \in SUBSET disk[f].keys, intact \in BOOLEAN :
              /\ disk' = [disk EXCEPT ![f].keys = @ \ lines, ![f].intact = intact]
              /\ erased' = erased \cup lines
        BY <3>3 DEF EditSidecar
      <4>2. disk[f] \in LogFile /\ Paired(disk[f], erased)
        BY <2>3
      <4>3. disk'[f].md = disk[f].md /\ disk'[f].keys = disk[f].keys \ lines
        BY <3>1, <4>1, <4>2 DEF LogFile
      <4>4. Paired(disk'[f], erased \cup lines)
        BY <4>2, <4>3, PairedErased
      <4> QED BY <4>1, <4>4
    <3> QED BY <1>7, <3>2, <3>3 DEF Tamper
  <2>5. DiskConsistent'
    BY <2>2, <2>3, <2>4 DEF FilesInv, DiskConsistent
  <2>6. ASSUME NEW v \in Writers, UsesPrior(v) \/ pc[v] = "entry"
        PROVE  disk'[File(v)] = disk[File(v)]
    <3>1. pc[v] \in InsideLock /\ File(v) \in Files
      BY <2>6, PriorInside, FileType DEF FilesInv, InsideLock
    <3>2. File(v) # f
      BY <2>1, <3>1, NobodyAssumption DEF LocksInv
    <3> QED BY <2>2, <3>1, <3>2
  <2>7. PriorInv' /\ EntryInv'
    BY <2>1, <2>2, <2>6 DEF FilesInv, PriorInv, EntryInv, UsesPrior, File
  <2>8. TreesInv'
    BY <2>1, <2>2, NoTreeChanged
  <2> QED BY <2>5, <2>7, <2>8 DEF FilesInv
<1>8. CASE UNCHANGED vars
  BY <1>8
  DEF vars, FilesInv, PriorInv, UsesPrior, EntryInv, DiskConsistent, TreesInv, TreePaired, File
<1> QED
  BY <1>1, <1>2, <1>3, <1>4, <1>5, <1>6, <1>7, <1>8 DEF Next, Step, CommitStep

----------------------------------------------------------------------------
(* Theorems *)

\* The initial state satisfies the strengthened invariant.
LEMMA StoreInvInit == Init => StoreInv
<1> SUFFICES ASSUME Init PROVE StoreInv
  OBVIOUS
<1>1. TypeOK
  BY TypeInit
<1>2. LocalsInv /\ LocksInv
  BY NobodyAssumption DEF Init, LocalsInv, LocksInv, InsideLock
<1>3. PriorInv /\ EntryInv
  BY DEF Init, PriorInv, UsesPrior, EntryInv, Blank
<1>4. DiskConsistent
  BY DEF Init, DiskConsistent, Paired, EmptyFile, Entries, ToSet
<1>5. TreesInv
  BY EmptyTreePaired DEF Init, TreesInv, Blank
<1> QED BY <1>1, <1>2, <1>3, <1>4, <1>5 DEF StoreInv

\* The strengthened invariant holds in every reachable state of the store.
THEOREM StoreInvariant == Spec => []StoreInv
<1>1. StoreInv /\ [Next]_vars => StoreInv'
  BY TypeStep, LocksStep, FilesStep DEF StoreInv, FilesInv
<1> QED BY <1>1, StoreInvInit, PTL DEF Spec

\* DecisionStore is type correct.
THEOREM TypeCorrect == Spec => []TypeOK
<1>1. StoreInv => TypeOK
  BY DEF StoreInv
<1> QED BY <1>1, StoreInvariant, PTL

\* On disk, every entry is in its log once and has its key in the sidecar,
\* for any number of writers, processes, crashes and errors, and whatever is
\* cut off the logs and damaged in the sidecars; but for the keys whose line
\* somebody took out, which the store records a second time.
THEOREM DiskStaysConsistent == Spec => []DiskConsistent
<1>1. StoreInv => DiskConsistent
  BY DEF StoreInv
<1> QED BY <1>1, StoreInvariant, PTL

\* HEAD is a tree of the repository, which are all consistent.
LEMMA HeadPaired == StoreInv => HeadConsistent
<1> SUFFICES ASSUME StoreInv PROVE TreePaired(HeadTree, erased)
  BY DEF HeadConsistent, TreePaired
<1>1. CASE head = 0
  BY <1>1, EmptyTreePaired DEF HeadTree
<1>2. CASE head # 0
  <2>1. head \in DOMAIN commits
    BY <1>2 DEF StoreInv, TypeOK
  <2> QED BY <1>2, <2>1 DEF StoreInv, TreesInv, HeadTree
<1> QED BY <1>1, <1>2

\* HEAD never holds an entry twice or without its key, but for the keys that
\* others erased, for any number of channels committing through one index and
\* one HEAD.
THEOREM HeadStaysConsistent == Spec => []HeadConsistent
BY HeadPaired, StoreInvariant, PTL

----------------------------------------------------------------------------
(* What one step can do to a writer, a file, the trees and the budget *)

\* The steps by which an append goes on, as opposed to returning or raising.
Advance(w) ==
    \/ Acquire(w) \/ EnsureLockIgnore(w) \/ ReadWithoutGit(w) \/ ReadMd(w)
    \/ NoOrphan(w) \/ RecoverOrphan(w) \/ RecordKey(w) \/ WriteEntry(w)
    \/ StagePaths(w) \/ LockIndex(w) \/ WriteIndex(w) \/ WriteTree(w)
    \/ SetHead(w) \/ BuildResult(w)

\* A step of one writer leaves the others where they are.
LEMMA OthersStay ==
    ASSUME TypeOK, NEW w \in Writers,
           (\E k \in Keys : Call(w, k)) \/ Step(w) \/ Fail(w)
    PROVE  \A v \in Writers \ {w} : pc'[v] = pc[v] /\ my'[v] = my[v]
BY DEF TypeOK, Call, Step, CommitStep, Fail, Goto, LeaveLock, Acquire, LockTimeout,
       EnsureLockIgnore, ReadWithoutGit, ReadMd, NoOrphan, RefuseOrphan, RecoverOrphan,
       SkipDuplicate, RecordKey, WriteEntry, StagePaths, LockIndex, IndexLocked,
       WriteIndex, WriteTree, SetHead, BuildResult, Export

\* An append that goes on keeps its key, and moves to another stage.
LEMMA AdvanceKeepsKey ==
    ASSUME TypeOK, NEW w \in Writers, Advance(w)
    PROVE  /\ my'[w].key = my[w].key
           /\ File(w)' = File(w)
           /\ pc[w] # pc'[w]
           /\ pc[w] \notin {"idle", "export"}
           /\ pc'[w] \notin {"idle", "locking"}
<1> USE DEF Goto, TypeOK
<1>1. CASE Acquire(w)
  BY <1>1 DEF Acquire, File
<1>2. CASE EnsureLockIgnore(w)
  BY <1>2 DEF EnsureLockIgnore, File
<1>3. CASE ReadWithoutGit(w)
  BY <1>3 DEF ReadWithoutGit, File, Locals
<1>4. CASE ReadMd(w)
  BY <1>4 DEF ReadMd, File, Locals
<1>5. CASE NoOrphan(w)
  BY <1>5 DEF NoOrphan, File
<1>6. CASE RecoverOrphan(w)
  BY <1>6 DEF RecoverOrphan, File, Locals
<1>7. CASE RecordKey(w)
  BY <1>7 DEF RecordKey, File
<1>8. CASE WriteEntry(w)
  BY <1>8 DEF WriteEntry, File
<1>9. CASE StagePaths(w)
  BY <1>9 DEF StagePaths, File, Locals
<1>10. CASE LockIndex(w)
  BY <1>10 DEF LockIndex, File
<1>11. CASE WriteIndex(w)
  BY <1>11 DEF WriteIndex, File
<1>12. CASE WriteTree(w)
  BY <1>12 DEF WriteTree, File, Locals
<1>13. CASE SetHead(w)
  BY <1>13 DEF SetHead, File, Locals
<1>14. CASE BuildResult(w)
  BY <1>14 DEF BuildResult, File
<1> QED BY <1>1, <1>2, <1>3, <1>4, <1>5, <1>6, <1>7, <1>8, <1>9, <1>10, <1>11, <1>12, <1>13,
           <1>14 DEF Advance

\* What a step does to a writer: nothing, end its append, begin one, or
\* take it on.
LEMMA WriterStep ==
    ASSUME TypeOK, LocalsInv, [Next]_vars, NEW w \in Writers
    PROVE  \/ pc'[w] = pc[w] /\ my'[w] = my[w] /\ File(w)' = File(w)
           \/ pc'[w] = "idle" /\ my'[w] = Blank
           \/ pc[w] = "idle" /\ pc'[w] = "locking" /\ ~my'[w].recovering
                /\ my'[w].staged = EmptyTree
           \/ Advance(w)
<1>1. ASSUME NEW v \in Writers, (\E k \in Keys : Call(v, k)) \/ Step(v) \/ Fail(v), v # w
      PROVE  pc'[w] = pc[w] /\ my'[w] = my[w] /\ File(w)' = File(w)
  BY <1>1, OthersStay DEF File
<1>2. ASSUME NEW k \in Keys, Call(w, k)
      PROVE  /\ pc[w] = "idle" /\ pc'[w] = "locking" /\ ~my'[w].recovering
             /\ my'[w].staged = EmptyTree
  BY <1>2 DEF Call, Goto, TypeOK, Locals, LocalsInv, Blank
<1>3. ASSUME Step(w) PROVE Advance(w) \/ (pc'[w] = "idle" /\ my'[w] = Blank)
  BY <1>3 DEF Step, CommitStep, Advance, TypeOK, LeaveLock, Goto, LockTimeout, RefuseOrphan,
              SkipDuplicate, IndexLocked, Export
<1>4. ASSUME Fail(w) PROVE pc'[w] = "idle" /\ my'[w] = Blank
  BY <1>4 DEF Fail, LeaveLock, TypeOK
<1>5. ASSUME NEW p \in Procs, Crash(p)
      PROVE  \/ pc'[w] = pc[w] /\ my'[w] = my[w] /\ File(w)' = File(w)
             \/ pc'[w] = "idle" /\ my'[w] = Blank
  BY <1>5 DEF Crash, File
<1>6. ASSUME NEW f \in Files, Tamper(f)
      PROVE  pc'[w] = pc[w] /\ my'[w] = my[w] /\ File(w)' = File(w)
  BY <1>6 DEF Tamper, File
<1>7. CASE UNCHANGED vars
  BY <1>7 DEF vars, File
<1> QED BY <1>1, <1>2, <1>3, <1>4, <1>5, <1>6, <1>7 DEF Next

\* A log file and what became of it.
Became(f, md, keys, intact) ==
    /\ disk'[f].md = md
    /\ disk'[f].keys = keys
    /\ disk'[f].intact = intact

\* What a step does to a log file: nothing, or one of the two writes of the
\* append that holds its lock, or an edit by somebody else.
LEMMA DiskStep ==
    ASSUME StoreInv, [Next]_vars, NEW f \in Files
    PROVE  \/ disk'[f] = disk[f]
           \/ \E w \in Writers :
                /\ RecordKey(w)
                /\ File(w) = f
                /\ Became(f, disk[f].md, disk[f].keys \cup {my[w].key}, disk[f].intact)
           \/ \E w \in Writers :
                /\ WriteEntry(w)
                /\ File(w) = f
                /\ Became(f, Append(disk[f].md, my[w].key), disk[f].keys, disk[f].intact)
           \/ /\ Tamper(f)
              /\ disk[f].md # <<>>
              /\ Became(f, Front(disk[f].md), disk[f].keys, disk[f].intact)
           \/ /\ Tamper(f)
              /\ \E lines \in SUBSET disk[f].keys, intact \in BOOLEAN :
                    /\ Became(f, disk[f].md, disk[f].keys \ lines, intact)
                    /\ erased' = erased \cup lines
<1> USE DEF shared
<1>0. disk \in [Files -> LogFile] /\ disk[f] \in LogFile
  BY DEF StoreInv, TypeOK
<1>1. ASSUME NEW w \in Writers, NEW k \in Keys, Call(w, k) PROVE disk' = disk
  BY <1>1 DEF Call
<1>2. ASSUME NEW w \in Writers, Step(w), ~RecordKey(w), ~WriteEntry(w) PROVE disk' = disk
  BY <1>2 DEF Step, CommitStep, Acquire, LockTimeout,
       EnsureLockIgnore, ReadWithoutGit, ReadMd, NoOrphan, RefuseOrphan, RecoverOrphan,
       SkipDuplicate, StagePaths, LockIndex, IndexLocked,
       WriteIndex, WriteTree, SetHead, BuildResult, Export
<1>3. ASSUME NEW w \in Writers, RecordKey(w)
      PROVE  \/ disk'[f] = disk[f]
             \/ /\ File(w) = f
                /\ Became(f, disk[f].md, disk[f].keys \cup {my[w].key}, disk[f].intact)
  BY <1>0, <1>3 DEF RecordKey, LogFile, Became
<1>4. ASSUME NEW w \in Writers, WriteEntry(w)
      PROVE  \/ disk'[f] = disk[f]
             \/ /\ File(w) = f
                /\ Became(f, Append(disk[f].md, my[w].key), disk[f].keys, disk[f].intact)
  <2>1. my[w].prior = disk[File(w)].md
    BY <1>4 DEF WriteEntry, Goto, StoreInv, PriorInv, UsesPrior
  <2> QED BY <1>0, <1>4, <2>1 DEF WriteEntry, LogFile, Became
<1>5. ASSUME NEW w \in Writers, Fail(w) PROVE disk' = disk
  BY <1>5 DEF Fail
<1>6. ASSUME NEW p \in Procs, Crash(p) PROVE disk' = disk
  BY <1>6 DEF Crash
<1>7. ASSUME NEW g \in Files, Tamper(g), g # f PROVE disk'[f] = disk[f]
  BY <1>0, <1>7 DEF Tamper, CutLog, EditSidecar
<1>8. ASSUME Tamper(f)
      PROVE  \/ disk[f].md # <<>> /\ Became(f, Front(disk[f].md), disk[f].keys, disk[f].intact)
             \/ \E lines \in SUBSET disk[f].keys, intact \in BOOLEAN :
                   /\ Became(f, disk[f].md, disk[f].keys \ lines, intact)
                   /\ erased' = erased \cup lines
  <2>1. CASE CutLog(f)
    BY <1>0, <2>1 DEF CutLog, LogFile, Became
  <2>2. CASE EditSidecar(f)
    <3>1. PICK lines \in SUBSET disk[f].keys, intact \in BOOLEAN :
            /\ disk' = [disk EXCEPT ![f].keys = @ \ lines, ![f].intact = intact]
            /\ erased' = erased \cup lines
      BY <2>2 DEF EditSidecar
    <3>2. Became(f, disk[f].md, disk[f].keys \ lines, intact)
      BY <1>0, <3>1 DEF LogFile, Became
    <3> QED BY <3>1, <3>2
  <2> QED BY <1>8, <2>1, <2>2 DEF Tamper
<1>9. CASE UNCHANGED vars
  BY <1>9 DEF vars
<1> QED BY <1>1, <1>2, <1>3, <1>4, <1>5, <1>6, <1>7, <1>8, <1>9 DEF Next

\* Only an edit by somebody else erases keys, and what is erased stays so.
LEMMA ErasedStep ==
    ASSUME TypeOK, [Next]_vars
    PROVE  /\ erased \subseteq erased' /\ erased' \subseteq Keys
           /\ erased' = erased \/ \E f \in Files : Tamper(f)
<1> USE DEF history
<1>1. ASSUME NEW w \in Writers, (\E k \in Keys : Call(w, k)) \/ Step(w) \/ Fail(w)
      PROVE  erased' = erased
  BY <1>1 DEF Call, Step, CommitStep, Fail, Acquire, LockTimeout,
       EnsureLockIgnore, ReadWithoutGit, ReadMd, NoOrphan, RefuseOrphan, RecoverOrphan,
       SkipDuplicate, RecordKey, WriteEntry, StagePaths, LockIndex, IndexLocked,
       WriteIndex, WriteTree, SetHead, BuildResult, Export
<1>2. ASSUME NEW p \in Procs, Crash(p) PROVE erased' = erased
  BY <1>2 DEF Crash
<1>3. ASSUME NEW f \in Files, Tamper(f)
      PROVE  erased \subseteq erased' /\ erased' \subseteq Keys
  <2>1. CASE CutLog(f)
    BY <2>1 DEF CutLog, TypeOK
  <2>2. CASE EditSidecar(f)
    <3>1. disk[f].keys \subseteq Keys /\ erased \subseteq Keys
      BY DEF TypeOK, LogFile
    <3>2. PICK lines \in SUBSET disk[f].keys : erased' = erased \cup lines
      BY <2>2 DEF EditSidecar
    <3> QED BY <3>1, <3>2
  <2> QED BY <1>3, <2>1, <2>2 DEF Tamper
<1>4. erased \subseteq Keys
  BY DEF TypeOK
<1>5. CASE UNCHANGED vars
  BY <1>4, <1>5 DEF vars
<1>6. \/ \E w \in Writers : (\E k \in Keys : Call(w, k)) \/ Step(w) \/ Fail(w)
      \/ \E p \in Procs : Crash(p)
      \/ \E f \in Files : Tamper(f)
      \/ UNCHANGED vars
  BY DEF Next
<1> QED BY <1>1, <1>2, <1>3, <1>4, <1>5, <1>6

\* While a writer stands still inside its critical section, its file does
\* not change.
LEMMA OwnFileStays ==
    ASSUME StoreInv, [Next]_vars, NEW w \in Writers, pc[w] \in InsideLock,
           pc'[w] = pc[w]
    PROVE  File(w) \in Files /\ disk'[File(w)] = disk[File(w)]
<1>1. File(w) \in Files /\ lock[File(w)] = w
  BY FileType DEF StoreInv, LocksInv, InsideLock
<1>2. ASSUME NEW v \in Writers, RecordKey(v) \/ WriteEntry(v), File(v) = File(w)
      PROVE  FALSE
  <2>1. pc[v] \in InsideLock
    BY <1>2 DEF RecordKey, WriteEntry, Goto, InsideLock, Stages
  <2>2. v = w
    BY <1>2, <2>1, Alone DEF StoreInv
  <2>3. Advance(w)
    BY <1>2, <2>2 DEF Advance
  <2> QED BY <2>3, AdvanceKeepsKey DEF StoreInv
<1>3. ~Tamper(File(w))
  BY <1>1, NobodyAssumption DEF Tamper
<1> QED BY <1>1, <1>2, <1>3, DiskStep

\* The trees in the repository and on their way into it.
Trees ==
    {index} \cup {my[w].staged : w \in Writers} \cup {commits[n].tree : n \in DOMAIN commits}

\* They are trees, and so is HEAD's.
LEMMA TreesType ==
    ASSUME TypeOK
    PROVE  /\ Trees \subseteq Tree
           /\ HeadTree \in Trees \cup {EmptyTree}
<1>1. \A w \in Writers : my[w].staged \in Tree
  BY DEF TypeOK, Locals
<1>2. \A n \in DOMAIN commits : commits[n].tree \in Tree
  <2>1. commits \in Seq(Commit)
    BY DEF TypeOK
  <2>2. \A n \in DOMAIN commits : commits[n] \in Commit
    BY <2>1
  <2> QED BY <2>2 DEF Commit
<1>3. head # 0 => head \in DOMAIN commits
  BY DEF TypeOK
<1> QED BY <1>1, <1>2, <1>3 DEF Trees, TypeOK, HeadTree

\* A step makes no tree but by staging a writer's file over the index.
LEMMA TreesStep ==
    ASSUME TypeOK, LocalsInv, [Next]_vars, NEW t \in Trees'
    PROVE  \/ t \in Trees \cup {EmptyTree}
           \/ \E w \in Writers :
                /\ StagePaths(w)
                /\ t.log = [index.log EXCEPT ![File(w)] = disk[File(w)]]
<1> USE DEF shared, Goto
<1>1. index' = index \/ \E w \in Writers : WriteIndex(w)
  BY DEF Next, vars, Call, Step, CommitStep, Fail, Crash, Tamper, Acquire, LockTimeout,
       EnsureLockIgnore, ReadWithoutGit, ReadMd, NoOrphan, RefuseOrphan, RecoverOrphan,
       SkipDuplicate, RecordKey, WriteEntry, StagePaths, LockIndex, IndexLocked,
       WriteTree, SetHead, BuildResult, Export
<1>2. index' \in Trees
  BY <1>1 DEF WriteIndex, Trees
<1>3. commits' = commits \/ \E w \in Writers : SetHead(w)
  BY DEF Next, vars, Call, Step, CommitStep, Fail, Crash, Tamper, Acquire, LockTimeout,
       EnsureLockIgnore, ReadWithoutGit, ReadMd, NoOrphan, RefuseOrphan, RecoverOrphan,
       SkipDuplicate, RecordKey, WriteEntry, StagePaths, LockIndex, IndexLocked,
       WriteIndex, WriteTree, BuildResult, Export
<1>4. ASSUME NEW n \in DOMAIN commits' PROVE commits'[n].tree \in Trees
  <2>1. CASE commits' = commits
    BY <1>4, <2>1 DEF Trees
  <2>2. ASSUME NEW w \in Writers, SetHead(w) PROVE commits'[n].tree \in Trees
    <3>1. PICK made : commits' = Append(commits, made) /\ made.tree = my[w].staged
      BY <2>2 DEF SetHead
    <3>2. commits \in Seq(Commit)
      BY DEF TypeOK
    <3>3. commits'[n] = made \/ (n \in DOMAIN commits /\ commits'[n] = commits[n])
      BY <1>4, <3>1, <3>2
    <3> QED BY <3>1, <3>3 DEF Trees
  <2> QED BY <1>3, <2>1, <2>2
<1>5. ASSUME NEW w \in Writers
      PROVE  \/ my'[w].staged \in Trees \cup {EmptyTree}
             \/ /\ StagePaths(w)
                /\ my'[w].staged.log = [index.log EXCEPT ![File(w)] = disk[File(w)]]
  <2> USE DEF TypeOK, Locals
  <2>1. CASE my'[w] = my[w] \/ my'[w] = Blank \/ my'[w].staged = EmptyTree
    BY <2>1 DEF Trees, Blank
  <2>2. CASE Acquire(w) \/ EnsureLockIgnore(w) \/ NoOrphan(w) \/ RecordKey(w) \/ WriteEntry(w)
             \/ LockIndex(w) \/ WriteIndex(w) \/ BuildResult(w)
    <3>1. my' = my
      BY <2>2 DEF Acquire, EnsureLockIgnore, NoOrphan, RecordKey, WriteEntry, LockIndex,
                  WriteIndex, BuildResult
    <3> QED BY <2>1, <3>1
  <2>3. CASE ReadWithoutGit(w) \/ ReadMd(w) \/ RecoverOrphan(w)
    <3>1. my'[w].staged = my[w].staged
      BY <2>3 DEF ReadWithoutGit, ReadMd, RecoverOrphan
    <3> QED BY <3>1 DEF Trees
  <2>4. CASE StagePaths(w)
    BY <2>4 DEF StagePaths
  <2>5. CASE WriteTree(w)
    <3>1. my'[w].staged = index
      BY <2>5 DEF WriteTree
    <3> QED BY <3>1 DEF Trees
  <2>6. CASE SetHead(w)
    <3>1. my'[w].staged = EmptyTree
      BY <2>6 DEF SetHead
    <3> QED BY <3>1
  <2> QED BY <2>1, <2>2, <2>3, <2>4, <2>5, <2>6, WriterStep DEF Advance
<1> QED
  <2>1. CASE t = index'
    BY <1>2, <2>1
  <2>2. ASSUME NEW w \in Writers, t = my'[w].staged
        PROVE  \/ t \in Trees \cup {EmptyTree}
               \/ \E v \in Writers :
                    /\ StagePaths(v)
                    /\ t.log = [index.log EXCEPT ![File(v)] = disk[File(v)]]
    BY <1>5, <2>2
  <2>3. ASSUME NEW n \in DOMAIN commits', t = commits'[n].tree PROVE t \in Trees
    BY <1>4, <2>3
  <2> QED BY <2>1, <2>2, <2>3 DEF Trees

\* The configuration never changes, and only an edit by somebody else spends
\* the budget of edits.
LEMMA BudgetStep ==
    ASSUME TypeOK, [Next]_vars
    PROVE  /\ config' = config
           /\ \/ budget'.tampers = budget.tampers /\ \A f \in Files : ~Tamper(f)
              \/ budget'.tampers = budget.tampers - 1
<1>0. budget \in Budget
  BY DEF TypeOK
<1>1. ASSUME NEW w \in Writers, (\E k \in Keys : Call(w, k)) \/ Step(w) \/ Fail(w)
      PROVE  budget'.tampers = budget.tampers
  BY <1>0, <1>1 DEF Budget, Spend, Call, Step, CommitStep, Fail, Acquire, LockTimeout,
       EnsureLockIgnore, ReadWithoutGit, ReadMd, NoOrphan, RefuseOrphan, RecoverOrphan,
       SkipDuplicate, RecordKey, WriteEntry, StagePaths, LockIndex, IndexLocked,
       WriteIndex, WriteTree, SetHead, BuildResult, Export
<1>2. ASSUME NEW p \in Procs, Crash(p) PROVE budget'.tampers = budget.tampers
  BY <1>0, <1>2 DEF Budget, Spend, Crash
<1>3. ASSUME NEW f \in Files, Tamper(f) PROVE budget'.tampers = budget.tampers - 1
  BY <1>0, <1>3 DEF Budget, Spend, Tamper
<1>4. budget.tampers \in Nat
  BY <1>0 DEF Budget
<1>5. config' = config
  BY DEF Next, vars
<1>6. CASE UNCHANGED vars
  BY <1>3, <1>5, <1>6 DEF vars
<1>7. (\E f \in Files : Tamper(f)) \/ (\A f \in Files : ~Tamper(f))
  OBVIOUS
<1> QED BY <1>1, <1>2, <1>3, <1>4, <1>5, <1>6, <1>7 DEF Next

----------------------------------------------------------------------------
(* At most one export *)

Committing == {"stage", "lockIndex", "writeIndex", "tree", "head"}

\* The stages between recording a key and handing its entry to the sink.
Pending(w) ==
    \/ pc[w] \in {"entry", "result", "export"}
    \/ pc[w] \in Committing /\ ~my[w].recovering

\* Who has recorded a key owns its export, and no key that was exported is
\* ever recorded again, because it stays in the sidecar; unless it is erased.
ExportInv ==
    /\ \A k \in Keys \ erased : sends[k] > 0 => k \in disk[FileOf[k]].keys
    /\ \A w \in Writers : Pending(w) /\ my[w].key \notin erased =>
         my[w].key \in disk[File(w)].keys /\ sends[my[w].key] = 0
    /\ \A v, w \in Writers :
         Pending(v) /\ Pending(w) /\ my[v].key = my[w].key /\ my[w].key \notin erased => v = w
    /\ ExportedOnce

\* A key is taken out of a sidecar only by somebody else.
LEMMA KeysStay ==
    ASSUME StoreInv, [Next]_vars, NEW f \in Files
    PROVE  disk[f].keys \subseteq disk'[f].keys \cup erased'
BY DiskStep DEF Became

\* A pending writer was pending before, or records its key in this step.
LEMMA PendingStep ==
    ASSUME StoreInv, [Next]_vars, NEW w \in Writers, Pending(w)', ~RecordKey(w)
    PROVE  Pending(w) /\ my'[w].key = my[w].key
<1> USE DEF Pending, Committing, Goto, TypeOK
<1>0. TypeOK /\ LocalsInv /\ PriorInv
  BY DEF StoreInv
<1>1. CASE pc'[w] = pc[w] /\ my'[w] = my[w]
  BY <1>1
<1>2. CASE pc'[w] = "idle" \/ pc'[w] = "locking"
  BY <1>2
<1>3. CASE Advance(w)
  <2>1. my'[w].key = my[w].key
    BY <1>0, <1>3, AdvanceKeepsKey
  <2>2. CASE Acquire(w) \/ EnsureLockIgnore(w) \/ ReadWithoutGit(w) \/ ReadMd(w) \/ NoOrphan(w)
    BY <1>0, <2>2 DEF Acquire, EnsureLockIgnore, ReadWithoutGit, ReadMd, NoOrphan
  <2>3. CASE RecoverOrphan(w)
    BY <1>0, <2>3 DEF RecoverOrphan, Locals
  <2>4. CASE WriteEntry(w) \/ LockIndex(w) \/ WriteIndex(w)
    BY <1>0, <2>1, <2>4 DEF WriteEntry, LockIndex, WriteIndex
  <2>5. CASE StagePaths(w) \/ WriteTree(w)
    <3>1. my'[w].recovering = my[w].recovering
      BY <1>0, <2>5 DEF StagePaths, WriteTree, Locals
    <3> QED BY <1>0, <2>1, <2>5, <3>1 DEF StagePaths, WriteTree
  <2>6. CASE SetHead(w)
    BY <1>0, <2>1, <2>6 DEF SetHead
  <2>7. CASE BuildResult(w)
    BY <1>0, <2>1, <2>7 DEF BuildResult
  <2> QED BY <1>3, <2>2, <2>3, <2>4, <2>5, <2>6, <2>7 DEF Advance
<1> QED BY <1>0, <1>1, <1>2, <1>3, WriterStep

\* A pending writer knows its key and its file.
LEMMA PendingType ==
    ASSUME StoreInv, NEW w \in Writers, Pending(w)
    PROVE  my[w].key \in Keys /\ File(w) \in Files
BY FileType DEF StoreInv, Pending, Committing

\* Every step keeps the bookkeeping of exports.
LEMMA ExportStep == StoreInv /\ ExportInv /\ [Next]_vars => ExportInv'
<1> SUFFICES ASSUME StoreInv, ExportInv, [Next]_vars PROVE ExportInv'
  OBVIOUS
<1>0. sends \in [Keys -> Nat] /\ TypeOK /\ LocalsInv
  BY DEF StoreInv, TypeOK
<1>1. /\ \A k \in Keys : /\ FileOf[k] \in Files
                         /\ disk[FileOf[k]].keys \subseteq disk'[FileOf[k]].keys \cup erased'
      /\ erased \subseteq erased'
  <2>1. erased \subseteq erased'
    BY <1>0, ErasedStep
  <2>2. \A f \in Files : disk[f].keys \subseteq disk'[f].keys \cup erased'
    BY KeysStay
  <2> QED BY <2>1, <2>2, FileOfAssumption
<1>2. sends' = sends \/ \E w \in Writers : Export(w)
  BY DEF Next, vars, shared, history, Call, Step, CommitStep, Fail, Crash, Tamper, Acquire,
       LockTimeout,
       EnsureLockIgnore, ReadWithoutGit, ReadMd, NoOrphan, RefuseOrphan, RecoverOrphan,
       SkipDuplicate, RecordKey, WriteEntry, StagePaths, LockIndex, IndexLocked,
       WriteIndex, WriteTree, SetHead, BuildResult
<1>3. ASSUME NEW w \in Writers, Pending(w)', ~RecordKey(w)
      PROVE  /\ Pending(w) /\ my'[w].key = my[w].key /\ my[w].key \in Keys
             /\ File(w)' = File(w) /\ File(w) = FileOf[my[w].key]
  BY <1>3, PendingStep, PendingType DEF File
<1>4. ASSUME NEW w \in Writers, Export(w)
      PROVE  ExportInv'
  <2> DEFINE k == my[w].key
  <2>1. Pending(w) /\ ~Pending(w)' /\ k \in Keys /\ sends' = [sends EXCEPT ![k] = @ + 1]
    BY <1>0, <1>4, PendingType DEF Export, Goto, Pending, Committing, TypeOK
  <2>2. k \notin erased => sends[k] = 0 /\ k \in disk[FileOf[k]].keys
    BY <2>1 DEF ExportInv, File
  <2>3. /\ \A j \in Keys \ erased : sends'[j] = IF j = k THEN 1 ELSE sends[j]
        /\ erased' = erased
    BY <1>0, <1>4, <2>1, <2>2 DEF Export
  <2>4. \A v \in Writers : ~RecordKey(v)
    <3>1. disk' = disk
      BY <1>4 DEF Export, shared
    <3> QED BY <1>0, <1>4, <3>1, FileType DEF RecordKey, Goto, StoreInv, TypeOK, LogFile
  <2>5. \A v \in Writers : Pending(v)' /\ k \notin erased => my[v].key # k
    BY <1>3, <2>1, <2>4 DEF ExportInv
  <2> HIDE DEF k
  <2>6. \A j \in Keys \ erased' : sends'[j] > 0 => j \in disk'[FileOf[j]].keys
    BY <1>0, <1>1, <2>2, <2>3 DEF ExportInv
  <2>7. ASSUME NEW v \in Writers, Pending(v)', my'[v].key \notin erased'
        PROVE  my'[v].key \in disk'[File(v)'].keys /\ sends'[my'[v].key] = 0
    BY <1>1, <1>3, <2>3, <2>4, <2>5, <2>7 DEF ExportInv
  <2>8. ASSUME NEW u \in Writers, NEW v \in Writers, Pending(u)', Pending(v)',
               my'[u].key = my'[v].key, my'[v].key \notin erased'
        PROVE  u = v
    BY <1>3, <2>3, <2>4, <2>8 DEF ExportInv
  <2>9. ExportedOnce'
    BY <2>3 DEF ExportInv, ExportedOnce
  <2> QED BY <2>6, <2>7, <2>8, <2>9 DEF ExportInv
<1>5. ASSUME NEW w \in Writers, RecordKey(w) PROVE ExportInv'
  <2> DEFINE k == my[w].key
  <2>1. k \in Keys /\ File(w) \in Files /\ File(w) = FileOf[k] /\ pc[w] = "dedup"
    BY <1>0, <1>5, FileType DEF RecordKey, Goto, File
  <2>2. /\ my' = my /\ sends' = sends /\ erased' = erased /\ k \notin disk[FileOf[k]].keys
        /\ disk' = [disk EXCEPT ![FileOf[k]].keys = @ \cup {k}]
    BY <1>5, <2>1 DEF RecordKey, history
  <2>3. k \in disk'[FileOf[k]].keys
    BY <2>1, <2>2 DEF StoreInv, TypeOK, LogFile
  <2>4. \A v \in Writers : RecordKey(v) => v = w
    <3>1. \A v \in Writers : pc'[v] # pc[v] => v = w
      BY <1>0, <1>5 DEF RecordKey, Goto, TypeOK
    <3>2. \A v \in Writers : RecordKey(v) => pc'[v] # pc[v]
      BY <1>0 DEF RecordKey, Goto, TypeOK
    <3> QED BY <3>1, <3>2
  <2>5. k \notin erased => sends[k] = 0
    BY <1>0, <2>1, <2>2 DEF ExportInv
  <2>6. \A v \in Writers : Pending(v) /\ k \notin erased => my[v].key # k
    BY <2>1, <2>2 DEF ExportInv, File
  <2> HIDE DEF k
  <2>7. File(w)' = FileOf[k] /\ my'[w].key = k
    BY <2>1, <2>2 DEF File, k
  <2> QED BY <1>0, <1>1, <1>3, <2>1, <2>2, <2>3, <2>4, <2>5, <2>6, <2>7 DEF ExportInv, ExportedOnce
<1>6. CASE sends' = sends /\ \A w \in Writers : ~RecordKey(w)
  <2>1. \A k \in Keys \ erased' : sends'[k] > 0 => k \in disk'[FileOf[k]].keys
    BY <1>1, <1>6 DEF ExportInv
  <2>2. ASSUME NEW v \in Writers, Pending(v)', my'[v].key \notin erased'
        PROVE  my'[v].key \in disk'[File(v)'].keys /\ sends'[my'[v].key] = 0
    BY <1>1, <1>3, <1>6, <2>2 DEF ExportInv
  <2>3. ASSUME NEW u \in Writers, NEW v \in Writers, Pending(u)', Pending(v)',
               my'[u].key = my'[v].key, my'[v].key \notin erased'
        PROVE  u = v
    BY <1>1, <1>3, <1>6, <2>3 DEF ExportInv
  <2>4. ExportedOnce'
    BY <1>1, <1>6 DEF ExportInv, ExportedOnce
  <2> QED BY <2>1, <2>2, <2>3, <2>4 DEF ExportInv
<1> QED BY <1>2, <1>4, <1>5, <1>6

\* However often an append is retried, and whatever crashes, is cut off the
\* logs or left damaged in the sidecars, an entry is handed to the sink at
\* most once, unless somebody takes its own key out of the sidecar.
THEOREM ExportsAtMostOnce == Spec => []ExportedOnce
<1>1. Init => ExportInv
  BY DEF Init, ExportInv, ExportedOnce, Pending, Committing
<1>2. ExportInv => ExportedOnce
  BY DEF ExportInv
<1> QED BY <1>1, <1>2, ExportStep, StoreInvariant, PTL DEF Spec

----------------------------------------------------------------------------
(* No damaged sidecar is committed *)

TreeIntact(tree) == \A f \in Files : tree.log[f].intact

\* A writer that went on after the comparison with HEAD works on an intact
\* sidecar, because HEAD's is.
IntactInv ==
    /\ \A w \in Writers : pc[w] \in {"readKeys"} \cup Committing => CommitMode
    /\ \A w \in Writers : /\ pc[w] \in {"dedup", "entry"} \cup Committing
                          /\ CommitMode
                          => disk[File(w)].intact
    /\ \A t \in Trees : TreeIntact(t)

\* Every step keeps the trees free of damaged sidecars.
LEMMA IntactStep == StoreInv /\ IntactInv /\ [Next]_vars => IntactInv'
<1> SUFFICES ASSUME StoreInv, IntactInv, [Next]_vars PROVE IntactInv'
  OBVIOUS
<1>0. TypeOK /\ LocalsInv /\ config' = config
  BY BudgetStep DEF StoreInv
<1> USE DEF Committing, Goto, InsideLock, Stages
<1>1. ASSUME NEW w \in Writers
      PROVE  /\ pc'[w] \in {"readKeys"} \cup Committing => CommitMode
             /\ pc'[w] \in {"dedup", "entry"} \cup Committing /\ CommitMode
                  => disk'[File(w)'].intact
  <2>1. CASE pc'[w] = pc[w] /\ my'[w] = my[w] /\ File(w)' = File(w)
    BY <2>1, OwnFileStays DEF IntactInv
  <2>2. CASE pc'[w] \in {"idle", "locking"}
    BY <2>2
  <2>3. CASE Advance(w)
    <3>1. File(w)' = File(w) /\ pc[w] # "idle"
      BY <1>0, <2>3, AdvanceKeepsKey
    <3>2. File(w) \in Files /\ disk[File(w)] \in LogFile
      BY <1>0, <3>1, FileType
    <3>3. disk'[File(w)].intact = disk[File(w)].intact
      <4>1. \A f \in Files : ~Tamper(f)
        BY <1>0, <2>3, AdvanceKeepsKey DEF Tamper
      <4> QED BY <3>2, <4>1, DiskStep DEF Became
    <3>4. HeadTree.log[File(w)].intact
      <4>1. HeadTree \in Trees \cup {EmptyTree}
        BY <1>0, TreesType
      <4> QED BY <3>2, <4>1 DEF IntactInv, TreeIntact, EmptyTree, EmptyFile
    <3>5. CASE Acquire(w) \/ EnsureLockIgnore(w) \/ ReadWithoutGit(w) \/ ReadMd(w)
      BY <1>0, <3>5
      DEF Acquire, EnsureLockIgnore, ReadWithoutGit, ReadMd, TypeOK, CommitMode
    <3>6. CASE NoOrphan(w)
      BY <1>0, <3>1, <3>3, <3>4, <3>6
      DEF NoOrphan, Diverged, ProcessedDiverged, TypeOK
    <3>7. CASE RecoverOrphan(w)
      BY <1>0, <3>1, <3>3, <3>7 DEF RecoverOrphan, TypeOK, IntactInv
    <3>8. CASE RecordKey(w)
      BY <1>0, <3>1, <3>3, <3>8 DEF RecordKey, TypeOK, IntactInv
    <3>9. CASE WriteEntry(w)
      BY <1>0, <3>1, <3>3, <3>9 DEF WriteEntry, TypeOK, IntactInv, CommitMode
    <3>10. CASE StagePaths(w) \/ LockIndex(w) \/ WriteIndex(w) \/ WriteTree(w) \/ SetHead(w)
      BY <1>0, <3>1, <3>3, <3>10
      DEF StagePaths, LockIndex, WriteIndex, WriteTree, SetHead, TypeOK, IntactInv
    <3>11. CASE BuildResult(w)
      BY <1>0, <3>11 DEF BuildResult, TypeOK
    <3> QED BY <2>3, <3>5, <3>6, <3>7, <3>8, <3>9, <3>10, <3>11 DEF Advance
  <2> QED BY <1>0, <2>1, <2>2, <2>3, WriterStep
<1>2. ASSUME NEW t \in Trees' PROVE TreeIntact(t)
  <2>1. CASE t \in Trees \cup {EmptyTree}
    BY <2>1 DEF IntactInv, TreeIntact, EmptyTree, EmptyFile
  <2>2. ASSUME NEW w \in Writers, StagePaths(w),
               t.log = [index.log EXCEPT ![File(w)] = disk[File(w)]]
        PROVE  TreeIntact(t)
    <3>1. pc[w] = "stage" /\ disk[File(w)].intact
      BY <2>2 DEF StagePaths, IntactInv
    <3>2. index.log \in [Files -> LogFile] /\ TreeIntact(index)
      BY DEF StoreInv, TypeOK, Tree, IntactInv, Trees
    <3> QED BY <2>2, <3>1, <3>2 DEF TreeIntact
  <2> QED BY <1>0, <2>1, <2>2, TreesStep
<1>3. \A w \in Writers : CommitMode' = CommitMode
  BY <1>0 DEF CommitMode
<1> QED BY <1>1, <1>2, <1>3 DEF IntactInv, TreeIntact

\* No step commits a damaged sidecar, with any number of channels: not even
\* a writer that commits what the index holds of another channel.
THEOREM DamageStaysUncommitted == Spec => []DamageNotCommitted
<1>1. Init => IntactInv
  BY DEF Init, IntactInv, Committing, Trees, TreeIntact, Blank, EmptyTree, EmptyFile
<1>2. StoreInv /\ IntactInv => DamageNotCommitted
  BY TreesType DEF StoreInv, IntactInv, TreeIntact, DamageNotCommitted, EmptyTree, EmptyFile
<1> QED BY <1>1, <1>2, IntactStep, StoreInvariant, PTL DEF Spec

----------------------------------------------------------------------------
(* Prefixes *)

\* A prefix, entry by entry.
LEMMA PrefixPoints ==
    ASSUME NEW S, NEW s \in Seq(S), NEW t \in Seq(S)
    PROVE  IsPrefix(s, t) <=> Len(s) <= Len(t) /\ \A i \in 1..Len(s) : s[i] = t[i]
<1>1. Len(s) \in Nat /\ Len(t) \in Nat
  OBVIOUS
<1>2. CASE Len(s) <= Len(t)
  <2> DEFINE a == SubSeq(s, 1, Len(s))
             b == SubSeq(t, 1, Len(s))
  <2>1. \A i \in 1..Len(s) : i \in 1..Len(t)
    BY <1>1, <1>2
  <2>2. /\ a \in Seq(S) /\ Len(a) = Len(s) /\ \A i \in 1..Len(s) : a[i] = s[i]
        /\ b \in Seq(S) /\ Len(b) = Len(s) /\ \A i \in 1..Len(s) : b[i] = t[i]
    BY <1>1, <1>2, <2>1
  <2> HIDE DEF a, b
  <2>3. a = b <=> \A i \in 1..Len(s) : a[i] = b[i]
    BY <2>2
  <2>4. IsPrefix(s, t) <=> a = b
    BY <1>2 DEF IsPrefix, a, b
  <2> QED BY <1>2, <2>2, <2>3, <2>4
<1>3. CASE ~(Len(s) <= Len(t))
  BY <1>3 DEF IsPrefix
<1> QED BY <1>2, <1>3

\* A log is a prefix of itself and of what it becomes by an entry more; a
\* prefix stays one when the log grows, and holds no entry the log has not.
LEMMA PrefixGrows ==
    ASSUME NEW S, NEW s \in Seq(S), NEW t \in Seq(S)
    PROVE  /\ IsPrefix(<<>>, t)
           /\ IsPrefix(t, t)
           /\ \A k \in S : IsPrefix(t, Append(t, k))
           /\ IsPrefix(s, t) => Entries(s) \subseteq Entries(t)
           /\ \A k \in S : IsPrefix(s, t) => IsPrefix(s, Append(t, k))
<1>0. Len(s) \in Nat /\ Len(t) \in Nat /\ <<>> \in Seq(S) /\ DOMAIN s = 1..Len(s)
        /\ DOMAIN t = 1..Len(t)
  OBVIOUS
<1>1. IsPrefix(<<>>, t)
  <2>1. Len(<<>>) = 0 /\ 0 <= Len(t)
    BY <1>0
  <2>2. SubSeq(<<>>, 1, 0) = <<>> /\ SubSeq(t, 1, 0) = <<>>
    BY <1>0
  <2> QED BY <2>1, <2>2 DEF IsPrefix
<1>2. IsPrefix(t, t)
  BY <1>0, PrefixPoints
<1>3. ASSUME NEW k \in S
      PROVE  /\ Append(t, k) \in Seq(S)
             /\ Len(Append(t, k)) = Len(t) + 1
             /\ \A i \in 1..Len(t) : Append(t, k)[i] = t[i]
  OBVIOUS
<1>4. ASSUME NEW k \in S PROVE IsPrefix(t, Append(t, k))
  <2> DEFINE u == Append(t, k)
  <2>1. u \in Seq(S) /\ Len(u) = Len(t) + 1 /\ \A i \in 1..Len(t) : u[i] = t[i]
    BY <1>3
  <2> HIDE DEF u
  <2>2. IsPrefix(t, u)
    BY <1>0, <2>1, PrefixPoints
  <2> QED BY <2>2 DEF u
<1>5. ASSUME IsPrefix(s, t) PROVE Entries(s) \subseteq Entries(t)
  <2>1. Len(s) <= Len(t) /\ \A i \in 1..Len(s) : s[i] = t[i]
    BY <1>5, PrefixPoints
  <2>2. ASSUME NEW i \in 1..Len(s) PROVE i \in 1..Len(t) /\ s[i] = t[i]
    BY <1>0, <2>1
  <2> QED BY <1>0, <2>2 DEF Entries, ToSet
<1>6. ASSUME NEW k \in S, IsPrefix(s, t) PROVE IsPrefix(s, Append(t, k))
  <2>1. Len(s) <= Len(t) /\ \A i \in 1..Len(s) : s[i] = t[i]
    BY <1>6, PrefixPoints
  <2> DEFINE u == Append(t, k)
  <2>2. u \in Seq(S) /\ Len(u) = Len(t) + 1 /\ \A i \in 1..Len(t) : u[i] = t[i]
    BY <1>3
  <2> HIDE DEF u
  <2>3. Len(s) <= Len(u) /\ \A i \in 1..Len(s) : s[i] = u[i]
    BY <1>0, <2>1, <2>2
  <2>4. IsPrefix(s, u)
    BY <2>2, <2>3, PrefixPoints
  <2> QED BY <2>4 DEF u
<1> QED BY <1>1, <1>2, <1>4, <1>5, <1>6

----------------------------------------------------------------------------
(* As long as nobody else edits the files *)

Untouched == budget.tampers = MaxTampers

Behind(tree) == \A f \in Files : IsPrefix(tree.log[f].md, disk[f].md)

\* Every tree of the repository is behind the files on disk, and so was HEAD
\* when a writer read it.
BehindInv ==
    /\ budget.tampers <= MaxTampers
    /\ Untouched =>
         /\ erased = {}
         /\ \A f \in Files : disk[f].intact
         /\ \A w \in Writers : pc[w] = "readKeys" => IsPrefix(my[w].committed, my[w].prior)
         /\ \A t \in Trees : Behind(t)

\* Nobody has edited a file if nobody had before, and nobody did now.
LEMMA UntouchedStep ==
    ASSUME TypeOK, budget.tampers <= MaxTampers, [Next]_vars
    PROVE  /\ budget'.tampers <= MaxTampers
           /\ Untouched' => Untouched /\ \A f \in Files : ~Tamper(f)
<1>1. budget.tampers \in Nat /\ MaxTampers \in Nat
  BY BoundsAssumption DEF TypeOK, Budget
<1> QED BY <1>1, BudgetStep DEF Untouched

\* A step that edits no file from outside only adds to the end of a log.
LEMMA DiskGrows ==
    ASSUME StoreInv, [Next]_vars, NEW f \in Files, ~Tamper(f)
    PROVE  /\ disk[f].md \in Seq(Keys)
           /\ IsPrefix(disk[f].md, disk'[f].md)
           /\ \A s \in Seq(Keys) : IsPrefix(s, disk[f].md) => IsPrefix(s, disk'[f].md)
           /\ disk'[f].intact = disk[f].intact
<1>1. disk[f].md \in Seq(Keys)
  BY DEF StoreInv, TypeOK, LogFile
<1>2. CASE disk'[f].md = disk[f].md /\ disk'[f].intact = disk[f].intact
  BY <1>1, <1>2, PrefixGrows
<1>3. ASSUME NEW w \in Writers, WriteEntry(w), File(w) = f,
             Became(f, Append(disk[f].md, my[w].key), disk[f].keys, disk[f].intact)
      PROVE  /\ IsPrefix(disk[f].md, disk'[f].md)
             /\ \A s \in Seq(Keys) : IsPrefix(s, disk[f].md) => IsPrefix(s, disk'[f].md)
             /\ disk'[f].intact = disk[f].intact
  <2>1. my[w].key \in Keys
    BY <1>3, FileType DEF WriteEntry, Goto, StoreInv
  <2> QED BY <1>1, <1>3, <2>1, PrefixGrows DEF Became
<1>4. \/ disk'[f].md = disk[f].md /\ disk'[f].intact = disk[f].intact
      \/ \E w \in Writers :
            /\ WriteEntry(w)
            /\ File(w) = f
            /\ Became(f, Append(disk[f].md, my[w].key), disk[f].keys, disk[f].intact)
  BY DiskStep DEF Became
<1> QED BY <1>1, <1>2, <1>3, <1>4

\* Every step keeps the trees behind the files.
LEMMA BehindStep == StoreInv /\ BehindInv /\ [Next]_vars => BehindInv'
<1> SUFFICES ASSUME StoreInv, BehindInv, [Next]_vars PROVE BehindInv'
  OBVIOUS
<1>0. TypeOK /\ LocalsInv
  BY DEF StoreInv
<1>1. /\ budget'.tampers <= MaxTampers
      /\ Untouched' => Untouched /\ \A f \in Files : ~Tamper(f)
  BY <1>0, UntouchedStep DEF BehindInv
<1> SUFFICES ASSUME Untouched, \A f \in Files : ~Tamper(f)
             PROVE  /\ erased' = {}
                    /\ \A f \in Files : disk'[f].intact
                    /\ \A w \in Writers :
                         pc'[w] = "readKeys" => IsPrefix(my'[w].committed, my'[w].prior)
                    /\ \A t \in Trees' : Behind(t)'
  BY <1>1 DEF BehindInv
<1>e. erased' = {}
  BY <1>0, ErasedStep DEF BehindInv
<1>2. \A f \in Files : disk'[f].intact
  BY DiskGrows DEF BehindInv
<1>3. ASSUME NEW w \in Writers, pc'[w] = "readKeys"
      PROVE  IsPrefix(my'[w].committed, my'[w].prior)
  <2>1. CASE pc'[w] = pc[w] /\ my'[w] = my[w]
    BY <1>3, <2>1 DEF BehindInv
  <2>2. CASE ReadMd(w)
    <3>1. File(w) \in Files
      BY <1>0, <2>2, FileType DEF ReadMd, Goto
    <3>2. /\ my'[w].committed = HeadTree.log[File(w)].md
          /\ my'[w].prior = disk[File(w)].md
      BY <2>2 DEF ReadMd, StoreInv, TypeOK, Locals
    <3>3. HeadTree \in Trees \cup {EmptyTree} /\ disk[File(w)].md \in Seq(Keys)
      BY <1>0, <3>1, TreesType DEF TypeOK, LogFile
    <3>4. IsPrefix(EmptyTree.log[File(w)].md, disk[File(w)].md)
      BY <3>1, <3>3, PrefixGrows DEF EmptyTree, EmptyFile
    <3> QED BY <3>1, <3>2, <3>3, <3>4 DEF BehindInv, Behind
  <2>3. CASE Advance(w) /\ ~ReadMd(w)
    BY <1>0, <1>3, <2>3
    DEF Advance, Acquire, EnsureLockIgnore, ReadWithoutGit, NoOrphan, RecoverOrphan, RecordKey,
        WriteEntry, StagePaths, LockIndex, WriteIndex, WriteTree, SetHead, BuildResult, Goto,
        TypeOK
  <2> QED BY <1>0, <1>3, <2>1, <2>2, <2>3, WriterStep
<1>4. ASSUME NEW t \in Trees' PROVE Behind(t)'
  <2>1. CASE t \in Trees
    <3>1. \A f \in Files : t.log[f].md \in Seq(Keys)
      BY <1>0, <2>1, TreesType DEF Tree, LogFile
    <3> QED BY <2>1, <3>1, DiskGrows DEF BehindInv, Behind
  <2>2. CASE t = EmptyTree
    <3>1. \A f \in Files : t.log[f].md = <<>>
      BY <2>2 DEF EmptyTree, EmptyFile
    <3>2. \A f \in Files : IsPrefix(<<>>, disk[f].md) /\ <<>> \in Seq(Keys)
      BY <1>0, PrefixGrows DEF TypeOK, LogFile
    <3> QED BY <3>1, <3>2, DiskGrows DEF Behind
  <2>3. ASSUME NEW w \in Writers, StagePaths(w),
               t.log = [index.log EXCEPT ![File(w)] = disk[File(w)]]
        PROVE  Behind(t)'
    <3>1. index.log \in [Files -> LogFile] /\ Behind(index) /\ disk' = disk
      BY <1>0, <2>3 DEF TypeOK, Tree, BehindInv, Trees, StagePaths, shared
    <3>2. \A f \in Files : disk[f].md \in Seq(Keys) /\ IsPrefix(disk[f].md, disk[f].md)
      BY <1>0, PrefixGrows DEF TypeOK, LogFile
    <3>3. \A f \in Files : t.log[f] = IF f = File(w) THEN disk[f] ELSE index.log[f]
      BY <2>3, <3>1
    <3> QED BY <3>1, <3>2, <3>3 DEF Behind
  <2> QED BY <1>0, <2>1, <2>2, <2>3, TreesStep
<1> QED BY <1>e, <1>2, <1>3, <1>4

\* Nothing is behind at the start.
LEMMA BehindInit == Init => BehindInv
<1> SUFFICES ASSUME Init PROVE BehindInv
  OBVIOUS
<1>1. budget.tampers = MaxTampers /\ MaxTampers \in Nat
  BY BoundsAssumption DEF Init
<1>2. \A f \in Files : disk[f].intact /\ disk[f].md = <<>>
  BY DEF Init, EmptyFile
<1>3. \A t \in Trees : t = EmptyTree
  BY DEF Init, Trees, Blank
<1>4. IsPrefix(<<>>, <<>>)
  <2>1. <<>> \in Seq(Keys)
    OBVIOUS
  <2> QED BY <2>1, PrefixGrows
<1>5. \A t \in Trees : Behind(t)
  BY <1>2, <1>3, <1>4 DEF Behind, EmptyTree, EmptyFile
<1> QED BY <1>1, <1>2, <1>5 DEF BehindInv, Init

\* The store refuses a changed or damaged file only if somebody else edited
\* one: crashes, errors and other channels never leave what it takes for
\* tampering.
THEOREM OnlyOthersTamper == Spec => []TamperedOnlyByOthers
<1>1. StoreInv /\ BehindInv => TamperedOnlyByOthers
  <2> SUFFICES ASSUME StoreInv, BehindInv,
                      NEW w \in Writers, pc[w] = "readKeys",
                      Tampered(w) \/ ~disk[File(w)].intact
               PROVE  budget.tampers < MaxTampers
    BY DEF TamperedOnlyByOthers
  <2>1. File(w) \in Files
    BY FileType DEF StoreInv
  <2>2. ~Untouched
    BY <2>1 DEF BehindInv, Tampered
  <2>3. budget.tampers \in Nat /\ MaxTampers \in Nat
    BY BoundsAssumption DEF StoreInv, TypeOK, Budget
  <2> QED BY <2>2, <2>3 DEF BehindInv, Untouched
<1> QED BY <1>1, BehindInit, BehindStep, StoreInvariant, PTL DEF Spec

----------------------------------------------------------------------------
(* Under the raise policy no loss is committed *)

Whole(file) == file.keys = Entries(file.md)

TreeWhole(tree) == \A f \in Files : Whole(tree.log[f])

\* Nothing is recovered, a writer works on a file without a loss, and so is
\* every tree.
WholeInv ==
    Untouched /\ ~AutoCommit =>
      /\ \A w \in Writers : ~my[w].recovering
      /\ CommitMode =>
           \A w \in Writers :
             /\ pc[w] \in {"dedup"} \cup Committing => Whole(disk[File(w)])
             /\ pc[w] = "entry" =>
                  disk[File(w)].keys = Entries(disk[File(w)].md) \cup {my[w].key}
      /\ \A t \in Trees : TreeWhole(t)

\* Every step keeps the losses out of the trees.
LEMMA WholeStep ==
    StoreInv /\ IntactInv /\ BehindInv /\ WholeInv /\ [Next]_vars => WholeInv'
<1> SUFFICES ASSUME StoreInv, IntactInv, BehindInv, WholeInv, [Next]_vars PROVE WholeInv'
  OBVIOUS
<1>0. /\ TypeOK /\ LocalsInv /\ config' = config
      /\ AutoCommit' = AutoCommit /\ CommitMode' = CommitMode
  BY BudgetStep DEF StoreInv, AutoCommit, CommitMode
<1>1. Untouched' => Untouched /\ \A f \in Files : ~Tamper(f)
  BY <1>0, UntouchedStep DEF BehindInv
<1> SUFFICES ASSUME Untouched, ~AutoCommit, \A f \in Files : ~Tamper(f)
             PROVE  /\ \A w \in Writers : ~my'[w].recovering
                    /\ CommitMode =>
                         \A w \in Writers :
                           /\ pc'[w] \in {"dedup"} \cup Committing => Whole(disk'[File(w)'])
                           /\ pc'[w] = "entry" =>
                                disk'[File(w)'].keys
                                  = Entries(disk'[File(w)'].md) \cup {my'[w].key}
                    /\ \A t \in Trees' : TreeWhole(t)
  BY <1>0, <1>1 DEF WholeInv, Whole, TreeWhole
<1> USE DEF Goto
<1>2. ASSUME NEW w \in Writers PROVE ~my'[w].recovering
  <2>1. CASE my'[w] \in {my[w], Blank}
    BY <2>1 DEF WholeInv, Blank
  <2>2. CASE \/ Acquire(w) \/ EnsureLockIgnore(w) \/ NoOrphan(w) \/ RecordKey(w) \/ WriteEntry(w)
             \/ LockIndex(w) \/ WriteIndex(w) \/ BuildResult(w)
    <3>1. my' = my
      BY <2>2 DEF Acquire, EnsureLockIgnore, NoOrphan, RecordKey, WriteEntry, LockIndex,
                  WriteIndex, BuildResult
    <3> QED BY <2>1, <3>1
  <2>3. CASE ReadWithoutGit(w) \/ ReadMd(w) \/ StagePaths(w) \/ WriteTree(w)
    <3>1. my'[w].recovering = my[w].recovering
      BY <1>0, <2>3 DEF ReadWithoutGit, ReadMd, StagePaths, WriteTree, TypeOK, Locals
    <3> QED BY <3>1 DEF WholeInv
  <2>4. CASE RecoverOrphan(w)
    BY <2>4 DEF RecoverOrphan
  <2>5. CASE SetHead(w)
    BY <1>0, <2>5 DEF SetHead, TypeOK, Locals
  <2> QED BY <1>0, <2>1, <2>2, <2>3, <2>4, <2>5, WriterStep DEF Advance
<1>3. ASSUME CommitMode, NEW w \in Writers
      PROVE  /\ pc'[w] \in {"dedup"} \cup Committing => Whole(disk'[File(w)'])
             /\ pc'[w] = "entry" =>
                  disk'[File(w)'].keys = Entries(disk'[File(w)'].md) \cup {my'[w].key}
  <2> USE DEF Committing
  <2>1. CASE pc'[w] = pc[w] /\ my'[w] = my[w] /\ File(w)' = File(w)
    BY <1>3, <2>1, OwnFileStays DEF WholeInv, InsideLock, Stages
  <2>2. CASE pc'[w] \in {"idle", "locking"}
    BY <2>2
  <2>3. CASE Advance(w)
    <3>1. File(w)' = File(w) /\ my'[w].key = my[w].key /\ pc[w] # "idle"
      BY <1>0, <2>3, AdvanceKeepsKey
    <3>2. File(w) \in Files /\ disk[File(w)] \in LogFile /\ my[w].key \in Keys
      BY <1>0, <3>1, FileType
    <3>3. CASE Acquire(w) \/ EnsureLockIgnore(w) \/ ReadWithoutGit(w) \/ ReadMd(w)
               \/ RecoverOrphan(w) \/ BuildResult(w)
      BY <1>0, <1>3, <3>3 DEF Acquire, EnsureLockIgnore, ReadWithoutGit, ReadMd, RecoverOrphan,
                        BuildResult, TypeOK
    <3>4. CASE NoOrphan(w)
      <4>1. pc'[w] = "dedup" /\ disk' = disk
        BY <1>0, <3>4 DEF NoOrphan, TypeOK, shared
      <4>2. disk[File(w)].keys = HeadTree.log[File(w)].keys
        BY <3>4 DEF NoOrphan, Diverged, ProcessedDiverged
      <4>3. HeadTree \in Trees \cup {EmptyTree} /\ HeadTree \in Tree
        BY <1>0, TreesType, HeadTreeType
      <4>4. /\ HeadTree.log[File(w)].keys = Entries(HeadTree.log[File(w)].md)
            /\ IsPrefix(HeadTree.log[File(w)].md, disk[File(w)].md)
        <5>1. CASE HeadTree \in Trees
          BY <3>2, <5>1 DEF WholeInv, TreeWhole, Whole, BehindInv, Behind
        <5>2. CASE HeadTree = EmptyTree
          <6>1. HeadTree.log[File(w)].keys = {} /\ HeadTree.log[File(w)].md = <<>>
            BY <3>2, <5>2 DEF EmptyTree, EmptyFile
          <6> QED BY <3>2, <6>1, PrefixGrows DEF Entries, ToSet, LogFile
        <5> QED BY <4>3, <5>1, <5>2
      <4>5. Entries(HeadTree.log[File(w)].md) \subseteq Entries(disk[File(w)].md)
        BY <3>2, <4>3, <4>4, PrefixGrows DEF Tree, LogFile
      <4>6. Entries(disk[File(w)].md) \subseteq disk[File(w)].keys
        <5>1. Paired(disk[File(w)], erased) /\ erased = {}
          BY <3>2 DEF StoreInv, DiskConsistent, BehindInv
        <5> QED BY <5>1 DEF Paired
      <4> QED BY <3>1, <4>1, <4>2, <4>4, <4>5, <4>6 DEF Whole
    <3>5. CASE RecordKey(w)
      <4>1. /\ pc[w] = "dedup" /\ pc'[w] = "entry"
            /\ disk'[File(w)] = [disk[File(w)] EXCEPT !.keys = @ \cup {my[w].key}]
        BY <1>0, <3>2, <3>5 DEF RecordKey, TypeOK
      <4>2. /\ disk'[File(w)].md = disk[File(w)].md
            /\ disk'[File(w)].keys = disk[File(w)].keys \cup {my[w].key}
        BY <3>2, <4>1 DEF LogFile
      <4> QED BY <1>3, <3>1, <4>1, <4>2 DEF WholeInv, Whole
    <3>6. CASE WriteEntry(w)
      <4>1. /\ pc[w] = "entry" /\ pc'[w] = "stage" /\ my[w].prior = disk[File(w)].md
        BY <1>0, <1>3, <3>6 DEF WriteEntry, TypeOK, StoreInv, PriorInv, UsesPrior
      <4>2. disk'[File(w)] = [disk[File(w)] EXCEPT !.md = Append(disk[File(w)].md, my[w].key)]
        BY <1>0, <3>2, <3>6, <4>1 DEF WriteEntry, TypeOK
      <4>3. /\ disk'[File(w)].md = Append(disk[File(w)].md, my[w].key)
            /\ disk'[File(w)].keys = disk[File(w)].keys
        BY <3>2, <4>2 DEF LogFile
      <4>4. Entries(disk'[File(w)].md) = Entries(disk[File(w)].md) \cup {my[w].key}
        BY <3>2, <4>3, AppendEntries DEF LogFile
      <4> QED BY <1>3, <3>1, <4>1, <4>3, <4>4 DEF WholeInv, Whole
    <3>7. CASE StagePaths(w) \/ LockIndex(w) \/ WriteIndex(w) \/ WriteTree(w) \/ SetHead(w)
      <4>1. pc[w] \in Committing /\ pc'[w] # "entry" /\ disk' = disk
        BY <1>0, <3>7 DEF StagePaths, LockIndex, WriteIndex, WriteTree, SetHead, TypeOK, shared
      <4> QED BY <1>3, <3>1, <4>1 DEF WholeInv
    <3> QED BY <2>3, <3>3, <3>4, <3>5, <3>6, <3>7 DEF Advance
  <2> QED BY <1>0, <2>1, <2>2, <2>3, WriterStep
<1>4. ASSUME NEW t \in Trees' PROVE TreeWhole(t)
  <2>1. CASE t \in Trees
    BY <2>1 DEF WholeInv
  <2>2. CASE t = EmptyTree
    BY <2>2 DEF TreeWhole, Whole, EmptyTree, EmptyFile, Entries, ToSet
  <2>3. ASSUME NEW w \in Writers, StagePaths(w),
               t.log = [index.log EXCEPT ![File(w)] = disk[File(w)]]
        PROVE  TreeWhole(t)
    <3>1. pc[w] = "stage" /\ CommitMode
      BY <2>3 DEF StagePaths, IntactInv, Committing
    <3>2. Whole(disk[File(w)])
      BY <3>1 DEF WholeInv, Committing
    <3>3. index.log \in [Files -> LogFile] /\ TreeWhole(index)
      BY <1>0 DEF TypeOK, Tree, WholeInv, Trees
    <3> QED BY <2>3, <3>2, <3>3 DEF TreeWhole
  <2> QED BY <1>0, <2>1, <2>2, <2>3, TreesStep
<1> QED BY <1>2, <1>3, <1>4

\* Under the raise policy, and as long as nobody else edits the files, every
\* processed key has its entry at HEAD: a loss is never committed, whatever
\* crashes and whichever channels share the index.
THEOREM NoLossIsCommitted == Spec => [](Untouched => NoLossCommitted)
<1>1. Init => IntactInv /\ WholeInv
  <2>1. Init => IntactInv
    BY DEF Init, IntactInv, Committing, Trees, TreeIntact, Blank, EmptyTree, EmptyFile
  <2>2. Init => WholeInv
    <3> SUFFICES ASSUME Init PROVE WholeInv
      OBVIOUS
    <3>1. \A t \in Trees : t = EmptyTree
      BY DEF Init, Trees, Blank
    <3>2. TreeWhole(EmptyTree)
      BY DEF TreeWhole, Whole, EmptyTree, EmptyFile, Entries, ToSet
    <3> QED BY <3>1, <3>2 DEF WholeInv, Init, Blank, Committing
  <2> QED BY <2>1, <2>2
<1>2. StoreInv /\ WholeInv => (Untouched => NoLossCommitted)
  <2>1. TreeWhole(EmptyTree)
    BY DEF TreeWhole, Whole, EmptyTree, EmptyFile, Entries, ToSet
  <2> QED BY <2>1, TreesType DEF StoreInv, WholeInv, NoLossCommitted, TreeWhole, Whole
<1> QED BY <1>1, <1>2, IntactStep, BehindInit, BehindStep, WholeStep, StoreInvariant, PTL DEF Spec

----------------------------------------------------------------------------
(* A repository that holds one log file *)

OneLog == \E f : Files = {f}

\* The log file of a writer, on disk and at HEAD.
OnDisk(w) == disk[File(w)]
AtHead(w) == HeadTree.log[File(w)]

\* How the file on disk differs from HEAD at each stage of an append, and
\* what of it has reached the index.
InStage(w) ==
    /\ pc[w] = "readKeys" => my[w].committed = AtHead(w).md
    /\ pc[w] = "dedup" /\ CommitMode => OnDisk(w) = AtHead(w)
    /\ pc[w] = "entry" => my[w].key \notin AtHead(w).keys \ erased
    /\ pc[w] = "entry" /\ CommitMode => OnDisk(w).md = AtHead(w).md
    /\ pc[w] \in Committing =>
         IF my[w].recovering
         THEN IsPrefix(AtHead(w).md, OnDisk(w).md)
         ELSE /\ OnDisk(w).md = Append(AtHead(w).md, my[w].key)
              /\ my[w].key \notin AtHead(w).keys \ erased
    /\ pc[w] \in {"lockIndex", "writeIndex", "head"} =>
         my[w].staged.log[File(w)] = OnDisk(w)
    /\ pc[w] = "tree" => index.log[File(w)] = OnDisk(w)
    /\ pc[w] = "result" /\ CommitMode => head # 0 /\ commits[head].subject = my[w].key
    /\ pc[w] \in {"result", "export"} /\ CommitMode => my[w].key \in Entries(AtHead(w).md)

StageInv == \A w \in Writers : InStage(w)

\* HEAD's keys are on disk, and an entry that HEAD lacks was never committed
\* as a key; but for the erased keys.
AheadInv ==
    \A f \in Files :
        /\ HeadTree.log[f].keys \subseteq disk[f].keys \cup erased
        /\ \A k \in HeadTree.log[f].keys \ erased :
             k \in Entries(disk[f].md) => k \in Entries(HeadTree.log[f].md)

ReportsInv ==
    /\ \A r \in results : r.sha \in DOMAIN commits /\ commits[r.sha].subject = r.key
    /\ CommitMode => ExportedIsCommitted

OneLogInv == StageInv /\ AheadInv /\ ReportsInv

\* One log file, one critical section.
LEMMA OnlyOne ==
    ASSUME OneLog, StoreInv, NEW v \in Writers, NEW w \in Writers,
           pc[v] \in InsideLock, pc[w] \in InsideLock
    PROVE  v = w
<1>1. File(v) \in Files /\ File(w) \in Files
  BY FileType DEF StoreInv, InsideLock
<1>2. File(v) = File(w)
  BY <1>1 DEF OneLog
<1> QED BY <1>2, Alone DEF StoreInv

\* HEAD moves only when a writer sets it, to the tree it has built.
LEMMA HeadStep ==
    ASSUME TypeOK, [Next]_vars
    PROVE  \/ head' = head /\ commits' = commits /\ HeadTree' = HeadTree
           \/ \E w \in Writers :
                /\ SetHead(w)
                /\ HeadTree' = my[w].staged
                /\ head' = Len(commits) + 1
                /\ commits' \in Seq(Commit)
                /\ Len(commits') = Len(commits) + 1
                /\ \A n \in 1..Len(commits) : commits'[n] = commits[n]
                /\ commits'[head'].subject = IF my[w].recovering THEN NoKey ELSE my[w].key
<1>1. (head' = head /\ commits' = commits) \/ \E w \in Writers : SetHead(w)
  BY DEF Next, vars, shared, Call, Step, CommitStep, Fail, Crash, Tamper, Acquire, LockTimeout,
       EnsureLockIgnore, ReadWithoutGit, ReadMd, NoOrphan, RefuseOrphan, RecoverOrphan,
       SkipDuplicate, RecordKey, WriteEntry, StagePaths, LockIndex, IndexLocked,
       WriteIndex, WriteTree, BuildResult, Export
<1>2. CASE head' = head /\ commits' = commits
  BY <1>2 DEF HeadTree
<1>3. ASSUME NEW w \in Writers, SetHead(w)
      PROVE  /\ HeadTree' = my[w].staged
             /\ head' = Len(commits) + 1
             /\ commits' \in Seq(Commit)
             /\ Len(commits') = Len(commits) + 1
             /\ \A n \in 1..Len(commits) : commits'[n] = commits[n]
             /\ commits'[head'].subject = IF my[w].recovering THEN NoKey ELSE my[w].key
  <2> DEFINE made == [tree |-> my[w].staged, parent |-> my[w].parent,
                      subject |-> IF my[w].recovering THEN NoKey ELSE my[w].key]
  <2>1. made \in Commit
    BY DEF TypeOK, Locals, Commit
  <2>2. commits' = Append(commits, made) /\ head' = Len(commits')
    BY <1>3 DEF SetHead
  <2>3. commits \in Seq(Commit)
    BY DEF TypeOK
  <2>4. /\ made.tree = my[w].staged
        /\ made.subject = IF my[w].recovering THEN NoKey ELSE my[w].key
    OBVIOUS
  <2> HIDE DEF made
  <2>5. /\ commits' \in Seq(Commit) /\ Len(commits') = Len(commits) + 1
        /\ Len(commits) \in Nat
        /\ \A n \in 1..Len(commits) : commits'[n] = commits[n]
        /\ commits'[Len(commits) + 1] = made
    BY <2>1, <2>2, <2>3
  <2> QED BY <2>2, <2>4, <2>5 DEF HeadTree
<1> QED BY <1>1, <1>2, <1>3

\* While a writer stands still inside its critical section, nothing of the
\* repository changes.
LEMMA RepositoryStays ==
    ASSUME OneLog, StoreInv, [Next]_vars, NEW w \in Writers, pc[w] \in InsideLock,
           pc'[w] = pc[w]
    PROVE  /\ head' = head /\ commits' = commits /\ HeadTree' = HeadTree
           /\ index' = index
<1>1. ASSUME NEW v \in Writers, SetHead(v) \/ WriteIndex(v) PROVE FALSE
  <2>1. pc[v] \in InsideLock /\ Advance(v)
    BY <1>1 DEF SetHead, WriteIndex, Goto, Advance, InsideLock, Stages
  <2>2. v = w
    BY <2>1, OnlyOne
  <2> QED BY <2>1, <2>2, AdvanceKeepsKey DEF StoreInv
<1>2. index' = index \/ \E v \in Writers : WriteIndex(v)
  BY DEF Next, vars, shared, Call, Step, CommitStep, Fail, Crash, Tamper, Acquire, LockTimeout,
       EnsureLockIgnore, ReadWithoutGit, ReadMd, NoOrphan, RefuseOrphan, RecoverOrphan,
       SkipDuplicate, RecordKey, WriteEntry, StagePaths, LockIndex, IndexLocked,
       WriteTree, SetHead, BuildResult, Export
<1> QED BY <1>1, <1>2, HeadStep DEF StoreInv

\* The files are typed, on disk and at HEAD.
LEMMA HeadFileType ==
    ASSUME StoreInv, NEW f \in Files
    PROVE  HeadTree.log[f] \in LogFile /\ disk[f] \in LogFile
BY HeadTreeType DEF StoreInv, TypeOK, Tree

\* HEAD's log only grows at its end.
LEMMA HeadGrows ==
    ASSUME OneLog, StoreInv, OneLogInv, [Next]_vars, NEW f \in Files
    PROVE  /\ IsPrefix(HeadTree.log[f].md, HeadTree'.log[f].md)
           /\ Entries(HeadTree.log[f].md) \subseteq Entries(HeadTree'.log[f].md)
<1>1. HeadTree.log[f].md \in Seq(Keys) /\ disk[f].md \in Seq(Keys)
  BY HeadFileType DEF LogFile
<1>2. CASE HeadTree' = HeadTree
  BY <1>1, <1>2, PrefixGrows
<1>3. ASSUME NEW w \in Writers, SetHead(w), HeadTree' = my[w].staged
      PROVE  /\ IsPrefix(HeadTree.log[f].md, HeadTree'.log[f].md)
             /\ Entries(HeadTree.log[f].md) \subseteq Entries(HeadTree'.log[f].md)
  <2>1. pc[w] = "head"
    BY <1>3 DEF SetHead, Goto
  <2>2. File(w) = f /\ my[w].key \in Keys
    BY <2>1, FileType DEF StoreInv, OneLog
  <2>3. HeadTree'.log[f] = disk[f]
    BY <1>3, <2>1, <2>2 DEF OneLogInv, StageInv, InStage, OnDisk
  <2>4. IsPrefix(HeadTree.log[f].md, disk[f].md)
    <3>1. CASE my[w].recovering
      BY <2>1, <2>2, <3>1 DEF OneLogInv, StageInv, InStage, Committing, AtHead, OnDisk
    <3>2. CASE ~my[w].recovering
      <4>1. disk[f].md = Append(HeadTree.log[f].md, my[w].key)
        BY <2>1, <2>2, <3>2 DEF OneLogInv, StageInv, InStage, Committing, AtHead, OnDisk
      <4> QED BY <1>1, <2>2, <4>1, PrefixGrows
    <3> QED BY <3>1, <3>2
  <2> QED BY <1>1, <2>3, <2>4, PrefixGrows
<1> QED BY <1>2, <1>3, HeadStep DEF StoreInv

\* Cutting the last entry off a log adds none.
LEMMA FrontEntries ==
    ASSUME NEW S, NEW s \in Seq(S), s # <<>>
    PROVE  Entries(Front(s)) \subseteq Entries(s)
<1>1. Len(s) \in Nat /\ Len(s) > 0
  OBVIOUS
<1>2. /\ DOMAIN Front(s) = 1..(Len(s) - 1)
      /\ \A i \in 1..(Len(s) - 1) : Front(s)[i] = s[i]
      /\ 1..(Len(s) - 1) \subseteq DOMAIN s
  BY <1>1 DEF Front
<1> QED BY <1>2 DEF Entries, ToSet

\* Every step keeps HEAD's keys on disk, and lost keys without an entry.
LEMMA AheadStep ==
    ASSUME OneLog, StoreInv, OneLogInv, [Next]_vars
    PROVE  AheadInv'
<1> SUFFICES ASSUME NEW f \in Files
             PROVE  /\ HeadTree'.log[f].keys \subseteq disk'[f].keys \cup erased'
                    /\ \A k \in HeadTree'.log[f].keys \ erased' :
                         k \in Entries(disk'[f].md) => k \in Entries(HeadTree'.log[f].md)
  BY DEF AheadInv
<1>0. TypeOK /\ LocalsInv /\ disk[f].md \in Seq(Keys)
  BY HeadFileType DEF StoreInv, LogFile
<1>1. ASSUME NEW w \in Writers, SetHead(w), HeadTree' = my[w].staged
      PROVE  HeadTree'.log[f] = disk'[f]
  <2>1. pc[w] = "head" /\ disk' = disk
    BY <1>1 DEF SetHead, Goto
  <2>2. File(w) = f
    BY <1>0, <2>1, FileType DEF OneLog
  <2> QED BY <1>1, <2>1, <2>2 DEF OneLogInv, StageInv, InStage, OnDisk
<1>2. CASE HeadTree' = HeadTree
  <2>0. erased \subseteq erased'
    BY <1>0, ErasedStep
  <2>1. \A k \in HeadTree.log[f].keys \ erased' :
           k \in Entries(disk'[f].md) => k \in Entries(disk[f].md)
    <3>1. ASSUME NEW w \in Writers, WriteEntry(w), File(w) = f,
                 Became(f, Append(disk[f].md, my[w].key), disk[f].keys, disk[f].intact)
          PROVE  \A k \in HeadTree.log[f].keys \ erased' :
                   k \in Entries(disk'[f].md) => k \in Entries(disk[f].md)
      <4>1. pc[w] = "entry"
        BY <3>1 DEF WriteEntry, Goto
      <4>2. my[w].key \in Keys /\ my[w].key \notin HeadTree.log[f].keys \ erased
        BY <1>0, <3>1, <4>1, FileType DEF OneLogInv, StageInv, InStage, AtHead
      <4>3. Entries(disk'[f].md) = Entries(disk[f].md) \cup {my[w].key}
        BY <1>0, <3>1, <4>2, AppendEntries DEF Became
      <4> QED BY <2>0, <4>2, <4>3
    <3>2. CASE disk[f].md # <<>> /\ Became(f, Front(disk[f].md), disk[f].keys, disk[f].intact)
      BY <1>0, <3>2, FrontEntries DEF Became
    <3>3. CASE disk'[f].md = disk[f].md
      BY <3>3
    <3> QED BY <3>1, <3>2, <3>3, DiskStep DEF Became
  <2>2. disk[f].keys \subseteq disk'[f].keys \cup erased'
    BY KeysStay
  <2> QED BY <1>2, <2>0, <2>1, <2>2 DEF OneLogInv, AheadInv
<1> QED BY <1>0, <1>1, <1>2, HeadStep

\* Every step keeps the reported shas and exports true.
LEMMA ReportsStep ==
    ASSUME OneLog, StoreInv, OneLogInv, [Next]_vars
    PROVE  ReportsInv'
<1>0. TypeOK /\ LocalsInv /\ config' = config /\ CommitMode' = CommitMode
  BY BudgetStep DEF StoreInv, CommitMode
<1>1. ASSUME NEW n \in DOMAIN commits
      PROVE  n \in DOMAIN commits' /\ commits'[n] = commits[n]
  <2>1. commits \in Seq(Commit)
    BY <1>0 DEF TypeOK
  <2>2. CASE commits' = commits
    BY <1>1, <2>2
  <2>3. CASE /\ commits' \in Seq(Commit) /\ Len(commits') = Len(commits) + 1
             /\ \A m \in 1..Len(commits) : commits'[m] = commits[m]
    BY <1>1, <2>1, <2>3
  <2> QED BY <1>0, <2>2, <2>3, HeadStep
<1>2. ASSUME NEW r \in results'
      PROVE  r.sha \in DOMAIN commits' /\ commits'[r.sha].subject = r.key
  <2>1. CASE r \in results
    BY <1>1, <2>1 DEF OneLogInv, ReportsInv
  <2>2. ASSUME NEW w \in Writers, BuildResult(w), CommitMode,
               r = [key |-> my[w].key, sha |-> head]
        PROVE  r.sha \in DOMAIN commits' /\ commits'[r.sha].subject = r.key
    <3>1. head # 0 /\ commits[head].subject = my[w].key
      BY <2>2 DEF BuildResult, Goto, OneLogInv, StageInv, InStage
    <3>2. head \in DOMAIN commits
      BY <1>0, <3>1 DEF TypeOK
    <3> QED BY <1>1, <2>2, <3>1, <3>2
  <2>3. results' = results \/ \E w \in Writers :
           /\ BuildResult(w)
           /\ results' = IF CommitMode THEN results \cup {[key |-> my[w].key, sha |-> head]}
                         ELSE results
    BY DEF Next, vars, shared, history, Call, Step, CommitStep, Fail, Crash, Tamper, Acquire,
         LockTimeout,
         EnsureLockIgnore, ReadWithoutGit, ReadMd, NoOrphan, RefuseOrphan, RecoverOrphan,
         SkipDuplicate, RecordKey, WriteEntry, StagePaths, LockIndex, IndexLocked,
         WriteIndex, WriteTree, SetHead, BuildResult, Export
  <2> QED BY <2>1, <2>2, <2>3
<1>3. ASSUME CommitMode, NEW k \in Keys, sends'[k] > 0
      PROVE  k \in Entries(HeadTree'.log[FileOf[k]].md)
  <2>1. FileOf[k] \in Files /\ sends \in [Keys -> Nat]
    BY <1>0, FileOfAssumption DEF TypeOK
  <2>2. CASE sends[k] > 0
    BY <1>3, <2>1, <2>2, HeadGrows DEF OneLogInv, ReportsInv, ExportedIsCommitted
  <2>3. ASSUME NEW w \in Writers, Export(w), my[w].key = k
        PROVE  k \in Entries(HeadTree'.log[FileOf[k]].md)
    <3>1. k \in Entries(HeadTree.log[FileOf[k]].md)
      BY <1>3, <2>3 DEF Export, Goto, OneLogInv, StageInv, InStage, AtHead, File
    <3> QED BY <2>1, <3>1, HeadGrows
  <2>4. sends' = sends \/ \E w \in Writers : Export(w)
    BY DEF Next, vars, shared, history, Call, Step, CommitStep, Fail, Crash, Tamper, Acquire,
         LockTimeout,
         EnsureLockIgnore, ReadWithoutGit, ReadMd, NoOrphan, RefuseOrphan, RecoverOrphan,
         SkipDuplicate, RecordKey, WriteEntry, StagePaths, LockIndex, IndexLocked,
         WriteIndex, WriteTree, SetHead, BuildResult
  <2>5. ASSUME NEW w \in Writers, Export(w), my[w].key # k PROVE sends'[k] = sends[k]
    BY <2>1, <2>5 DEF Export
  <2> QED BY <1>3, <2>2, <2>3, <2>4, <2>5
<1> QED BY <1>0, <1>2, <1>3 DEF ReportsInv, ExportedIsCommitted

\* Every step keeps what the stages of an append say of HEAD and the index.
LEMMA StageStep ==
    ASSUME OneLog, StoreInv, OneLogInv, [Next]_vars
    PROVE  StageInv'
<1> SUFFICES ASSUME NEW w \in Writers PROVE InStage(w)'
  BY DEF StageInv
<1> USE DEF Goto
<1>0. /\ TypeOK /\ LocalsInv /\ InStage(w)
      /\ config' = config /\ CommitMode' = CommitMode
      /\ pc \in [Writers -> Stages] /\ my \in [Writers -> Locals]
      /\ erased \subseteq erased'
  BY BudgetStep, ErasedStep DEF StoreInv, OneLogInv, StageInv, CommitMode, TypeOK
<1>1. CASE pc'[w] = pc[w] /\ my'[w] = my[w] /\ File(w)' = File(w)
  <2>1. CASE pc[w] \in InsideLock
    <3>1. /\ head' = head /\ commits' = commits /\ HeadTree' = HeadTree
          /\ index' = index /\ disk'[File(w)] = disk[File(w)]
      BY <2>1, <1>1, RepositoryStays, OwnFileStays
    <3>2. AtHead(w)' = AtHead(w) /\ OnDisk(w)' = OnDisk(w)
      BY <1>1, <3>1 DEF AtHead, OnDisk
    <3> QED BY <1>0, <1>1, <3>1, <3>2 DEF InStage
  <2>2. CASE pc[w] = "export"
    <3>1. File(w) \in Files
      BY <1>0, <2>2, FileType
    <3>2. Entries(AtHead(w).md) \subseteq Entries(AtHead(w)'.md)
      BY <1>1, <3>1, HeadGrows DEF AtHead
    <3> QED BY <1>0, <1>1, <2>2, <3>2 DEF InStage, Committing
  <2>3. CASE pc[w] \in {"idle", "locking"}
    BY <1>1, <2>3 DEF InStage, Committing
  <2> QED BY <1>0, <2>1, <2>2, <2>3 DEF InsideLock
<1>2. CASE pc'[w] \in {"idle", "locking"}
  BY <1>2 DEF InStage, Committing
<1>3. CASE Advance(w)
  <2>0. /\ File(w)' = File(w) /\ my'[w].key = my[w].key
        /\ File(w) \in Files /\ my[w].key \in Keys /\ disk[File(w)] \in LogFile
    BY <1>0, <1>3, AdvanceKeepsKey, FileType
  <2>a. OnDisk(w)' = disk'[File(w)] /\ AtHead(w)' = HeadTree'.log[File(w)]
    BY <2>0 DEF OnDisk, AtHead
  <2>b. OnDisk(w) \in LogFile /\ AtHead(w) \in LogFile
    BY <2>0, HeadFileType DEF OnDisk, AtHead
  <2>c. ASSUME head' = head, commits' = commits PROVE AtHead(w)' = AtHead(w)
    <3>1. HeadTree' = HeadTree
      BY <2>c DEF HeadTree
    <3> QED BY <2>a, <3>1 DEF AtHead
  <2>d. ASSUME disk' = disk PROVE OnDisk(w)' = OnDisk(w)
    BY <2>a, <2>d DEF OnDisk
  <2>1. CASE Acquire(w) \/ EnsureLockIgnore(w) \/ ReadWithoutGit(w)
    <3>1. pc'[w] \in {"ignore", "readMd"} \/ (pc'[w] = "dedup" /\ ~CommitMode)
      BY <1>0, <2>1 DEF Acquire, EnsureLockIgnore, ReadWithoutGit
    <3> QED BY <1>0, <3>1 DEF InStage, Committing
  <2>2. CASE ReadMd(w)
    <3>1. pc'[w] = "readKeys" /\ my'[w].committed = AtHead(w).md
      BY <1>0, <2>2 DEF ReadMd, AtHead, Locals
    <3>2. AtHead(w)' = AtHead(w)
      BY <2>2, <2>c DEF ReadMd, shared
    <3> QED BY <3>1, <3>2 DEF InStage, Committing
  <2>3. CASE NoOrphan(w)
    <3>1. pc'[w] = "dedup" /\ AtHead(w)' = AtHead(w) /\ OnDisk(w)' = OnDisk(w)
      BY <1>0, <2>3, <2>c, <2>d DEF NoOrphan, shared
    <3>2. my[w].prior = OnDisk(w).md /\ my[w].committed = AtHead(w).md
      BY <1>0, <2>3 DEF NoOrphan, StoreInv, PriorInv, UsesPrior, InStage, OnDisk
    <3>3. /\ OnDisk(w).md = AtHead(w).md
          /\ OnDisk(w).keys = AtHead(w).keys
          /\ OnDisk(w).intact = AtHead(w).intact
      BY <2>3, <3>2 DEF NoOrphan, Diverged, MdDiverged, ProcessedDiverged, OnDisk, AtHead
    <3>4. OnDisk(w) = AtHead(w)
      BY <2>b, <3>3 DEF LogFile
    <3> QED BY <3>1, <3>4 DEF InStage, Committing
  <2>4. CASE RecoverOrphan(w)
    <3>1. /\ pc'[w] = "stage" /\ my'[w].recovering
          /\ AtHead(w)' = AtHead(w) /\ OnDisk(w)' = OnDisk(w)
      BY <1>0, <2>4, <2>c, <2>d DEF RecoverOrphan, shared, Locals
    <3>2. my[w].prior = OnDisk(w).md /\ my[w].committed = AtHead(w).md
      BY <1>0, <2>4 DEF RecoverOrphan, StoreInv, PriorInv, UsesPrior, InStage, OnDisk
    <3>3. IsPrefix(AtHead(w).md, OnDisk(w).md)
      BY <2>b, <2>4, <3>2, PrefixGrows DEF RecoverOrphan, Tampered, MdDiverged, LogFile
    <3> QED BY <3>1, <3>3 DEF InStage, Committing
  <2>5. CASE RecordKey(w)
    <3>1. pc[w] = "dedup" /\ pc'[w] = "entry" /\ AtHead(w)' = AtHead(w)
      BY <1>0, <2>5, <2>c DEF RecordKey
    <3>2. disk'[File(w)] = [disk[File(w)] EXCEPT !.keys = @ \cup {my[w].key}]
      BY <2>0, <2>5 DEF RecordKey, StoreInv, TypeOK
    <3>3. OnDisk(w)'.md = OnDisk(w).md
      BY <2>0, <2>a, <3>2 DEF OnDisk, LogFile
    <3>4. my[w].key \notin AtHead(w).keys \ erased
      BY <2>0, <2>5 DEF RecordKey, OneLogInv, AheadInv, AtHead
    <3>5. CommitMode => OnDisk(w).md = AtHead(w).md
      BY <1>0, <3>1 DEF InStage
    <3> QED BY <1>0, <2>0, <3>1, <3>3, <3>4, <3>5 DEF InStage, Committing
  <2>6. CASE WriteEntry(w)
    <3>1. /\ pc[w] = "entry" /\ pc'[w] = IF CommitMode THEN "stage" ELSE "result"
          /\ AtHead(w)' = AtHead(w) /\ my' = my
      BY <1>0, <2>6, <2>c DEF WriteEntry
    <3>2. my[w].prior = disk[File(w)].md /\ ~my[w].recovering
      BY <3>1 DEF StoreInv, PriorInv, UsesPrior
    <3>3. disk'[File(w)] = [disk[File(w)] EXCEPT !.md = Append(disk[File(w)].md, my[w].key)]
      BY <2>0, <2>6, <3>2 DEF WriteEntry, StoreInv, TypeOK
    <3>4. OnDisk(w)'.md = Append(OnDisk(w).md, my[w].key)
      BY <2>0, <2>a, <3>3 DEF OnDisk, LogFile
    <3>5. my[w].key \notin AtHead(w).keys \ erased /\ (CommitMode => OnDisk(w).md = AtHead(w).md)
      BY <1>0, <3>1 DEF InStage
    <3> QED BY <1>0, <3>1, <3>2, <3>4, <3>5 DEF InStage, Committing
  <2>7. CASE StagePaths(w)
    <3>1. /\ pc[w] = "stage" /\ pc'[w] = "lockIndex"
          /\ AtHead(w)' = AtHead(w) /\ OnDisk(w)' = OnDisk(w)
      BY <1>0, <2>7, <2>c, <2>d DEF StagePaths, shared
    <3>2. /\ my'[w].recovering = my[w].recovering
          /\ my'[w].staged.log = [index.log EXCEPT ![File(w)] = disk[File(w)]]
      BY <1>0, <2>7 DEF StagePaths, Locals
    <3>3. my'[w].staged.log[File(w)] = OnDisk(w)
      BY <1>0, <2>0, <3>2 DEF OnDisk, TypeOK, Tree
    <3> QED BY <1>0, <2>0, <3>1, <3>2, <3>3 DEF InStage, Committing
  <2>8. CASE LockIndex(w)
    <3>1. /\ pc[w] = "lockIndex" /\ pc'[w] = "writeIndex" /\ my' = my
          /\ AtHead(w)' = AtHead(w) /\ OnDisk(w)' = OnDisk(w)
      BY <1>0, <2>8, <2>c, <2>d DEF LockIndex
    <3> QED BY <1>0, <2>0, <3>1 DEF InStage, Committing
  <2>9. CASE WriteIndex(w)
    <3>1. /\ pc[w] = "writeIndex" /\ pc'[w] = "tree" /\ my' = my /\ index' = my[w].staged
          /\ AtHead(w)' = AtHead(w) /\ OnDisk(w)' = OnDisk(w)
      BY <1>0, <2>9, <2>c, <2>d DEF WriteIndex
    <3> QED BY <1>0, <2>0, <3>1 DEF InStage, Committing
  <2>10. CASE WriteTree(w)
    <3>1. /\ pc[w] = "tree" /\ pc'[w] = "head"
          /\ AtHead(w)' = AtHead(w) /\ OnDisk(w)' = OnDisk(w)
      BY <1>0, <2>10, <2>c, <2>d DEF WriteTree, shared
    <3>2. my'[w].recovering = my[w].recovering /\ my'[w].staged = index
      BY <1>0, <2>10 DEF WriteTree, Locals
    <3> QED BY <1>0, <2>0, <3>1, <3>2 DEF InStage, Committing
  <2>11. CASE SetHead(w)
    <3>1. /\ pc[w] = "head" /\ pc'[w] = IF my[w].recovering THEN "dedup" ELSE "result"
          /\ OnDisk(w)' = OnDisk(w)
      BY <1>0, <2>11, <2>d DEF SetHead
    <3>2. /\ HeadTree' = my[w].staged /\ head' = Len(commits) + 1
          /\ commits'[head'].subject = IF my[w].recovering THEN NoKey ELSE my[w].key
      <4>1. \A v \in Writers : SetHead(v) => v = w
        BY <3>1, OnlyOne DEF SetHead, InsideLock, Stages
      <4>2. ~(head' = head /\ commits' = commits)
        <5>1. PICK made : commits' = Append(commits, made)
          BY <2>11 DEF SetHead
        <5>2. commits \in Seq(Commit)
          BY <1>0 DEF TypeOK
        <5>3. Len(commits') = Len(commits) + 1 /\ Len(commits) \in Nat
          BY <5>1, <5>2
        <5> QED BY <5>3
      <4> QED BY <1>0, <4>1, <4>2, HeadStep
    <3>3. AtHead(w)' = OnDisk(w)
      BY <1>0, <2>a, <3>1, <3>2 DEF InStage
    <3>4. CASE my[w].recovering
      BY <3>1, <3>3, <3>4 DEF InStage, Committing
    <3>5. CASE ~my[w].recovering
      <4>1. OnDisk(w).md = Append(AtHead(w).md, my[w].key)
        BY <1>0, <3>1, <3>5 DEF InStage, Committing
      <4>2. my[w].key \in Entries(OnDisk(w).md)
        BY <2>0, <2>b, <4>1, AppendEntries DEF LogFile
      <4>3. head' # 0 /\ commits'[head'].subject = my[w].key
        BY <1>0, <3>2, <3>5 DEF TypeOK
      <4> QED BY <2>0, <3>1, <3>3, <3>5, <4>2, <4>3 DEF InStage, Committing
    <3> QED BY <3>4, <3>5
  <2>12. CASE BuildResult(w)
    <3>1. pc[w] = "result" /\ pc'[w] = "export" /\ my' = my /\ AtHead(w)' = AtHead(w)
      BY <1>0, <2>12, <2>c DEF BuildResult, shared
    <3> QED BY <1>0, <3>1 DEF InStage, Committing
  <2> QED BY <1>3, <2>1, <2>2, <2>3, <2>4, <2>5, <2>6, <2>7, <2>8, <2>9, <2>10, <2>11, <2>12
          DEF Advance
<1> QED BY <1>0, <1>1, <1>2, <1>3, WriterStep

\* The initial repository has nothing to compare.
LEMMA OneLogInit == Init => OneLogInv
<1> SUFFICES ASSUME Init PROVE OneLogInv
  OBVIOUS
<1>1. StageInv
  BY DEF Init, StageInv, InStage, Committing
<1>2. AheadInv
  BY DEF Init, AheadInv, HeadTree, EmptyTree, EmptyFile
<1>3. ReportsInv
  BY DEF Init, ReportsInv, ExportedIsCommitted
<1> QED BY <1>1, <1>2, <1>3 DEF OneLogInv

\* With one log file in the repository, disk, index, HEAD and reports stay
\* in step, for any writers, processes, keys, crashes, errors and edits.
THEOREM OneLogInvariant == OneLog => (Spec => []OneLogInv)
<1> SUFFICES ASSUME OneLog PROVE Spec => []OneLogInv
  OBVIOUS
<1>1. StoreInv /\ OneLogInv /\ [Next]_vars => OneLogInv'
  BY StageStep, AheadStep, ReportsStep DEF OneLogInv
<1> QED BY <1>1, OneLogInit, StoreInvariant, PTL DEF Spec

\* With one log file, an append builds its entry on a log that HEAD holds
\* entirely: it never appends on top of an uncommitted divergence.
THEOREM AppendsOnCleanLog == OneLog => (Spec => []CleanBeforeAppend)
<1> SUFFICES ASSUME OneLog PROVE Spec => []CleanBeforeAppend
  OBVIOUS
<1>1. OneLogInv => CleanBeforeAppend
  BY DEF OneLogInv, StageInv, InStage, CleanBeforeAppend, OnDisk, AtHead
<1> QED BY <1>1, OneLogInvariant, PTL

\* With one log file, commit_sha names the commit made for the entry.
THEOREM ShaIsOwnCommit == OneLog => (Spec => []ShaNamesOwnCommit)
<1> SUFFICES ASSUME OneLog PROVE Spec => []ShaNamesOwnCommit
  OBVIOUS
<1>1. OneLogInv => ShaNamesOwnCommit
  BY DEF OneLogInv, ReportsInv, ShaNamesOwnCommit
<1> QED BY <1>1, OneLogInvariant, PTL

\* With one log file and a store that commits, a decision reported to the
\* sink is in the log at HEAD, and stays there.
THEOREM ExportsAreCommitted == OneLog => (Spec => [](CommitMode => ExportedIsCommitted))
<1> SUFFICES ASSUME OneLog PROVE Spec => [](CommitMode => ExportedIsCommitted)
  OBVIOUS
<1>1. OneLogInv => (CommitMode => ExportedIsCommitted)
  BY DEF OneLogInv, ReportsInv
<1> QED BY <1>1, OneLogInvariant, PTL

\* With one log file, the commit an append makes adds its entry, and nothing
\* else, to HEAD's log.
THEOREM OneEntryEachCommit == OneLog => (Spec => OneEntryPerCommit)
<1> SUFFICES ASSUME OneLog PROVE Spec => OneEntryPerCommit
  OBVIOUS
<1> DEFINE A == head' # head =>
                  LET k == commits'[head'].subject
                  IN  k \in Keys => HeadTree'.log[FileOf[k]].md
                                      = Append(HeadTree.log[FileOf[k]].md, k)
<1>1. StoreInv /\ OneLogInv /\ [Next]_vars => [A]_vars
  <2> SUFFICES ASSUME StoreInv, OneLogInv, [Next]_vars, head' # head,
                      commits'[head'].subject \in Keys
               PROVE  HeadTree'.log[FileOf[commits'[head'].subject]].md
                        = Append(HeadTree.log[FileOf[commits'[head'].subject]].md,
                                 commits'[head'].subject)
    OBVIOUS
  <2>1. PICK w \in Writers :
          /\ SetHead(w)
          /\ HeadTree' = my[w].staged
          /\ commits'[head'].subject = IF my[w].recovering THEN NoKey ELSE my[w].key
    BY HeadStep DEF StoreInv
  <2>2. ~my[w].recovering /\ commits'[head'].subject = my[w].key
    BY <2>1, NoKeyAssumption
  <2>3. pc[w] = "head"
    BY <2>1 DEF SetHead, Goto
  <2>4. /\ my[w].staged.log[File(w)] = disk[File(w)]
        /\ disk[File(w)].md = Append(HeadTree.log[File(w)].md, my[w].key)
    <3>1. InStage(w)
      BY DEF OneLogInv, StageInv
    <3> QED BY <2>2, <2>3, <3>1 DEF InStage, Committing, OnDisk, AtHead
  <2> QED BY <2>1, <2>2, <2>4 DEF File
<1> HIDE DEF A
<1>2. Spec => [][A]_vars
  BY <1>1, OneLogInvariant, StoreInvariant, PTL DEF Spec
<1> QED BY <1>2 DEF OneEntryPerCommit, A

\* With one log file, the committed log only grows at its end, whatever is
\* cut off the log on disk, taken out of its sidecar or damaged there; and,
\* but for the keys that were taken out, it grows entry with key, once, and a
\* key that was committed as lost never gets its entry: HEAD implements the
\* abstract audit trail.
THEOREM HeadImplementsAuditTrail == OneLog => (Spec => HeadIsAuditTrail)
<1> SUFFICES ASSUME OneLog PROVE Spec => HeadIsAuditTrail
  OBVIOUS
<1> DEFINE trail == [f \in Files |-> HeadTree.log[f].md]
           marked == [f \in Files |-> HeadTree.log[f].keys]
<1>1. Init => HeadLog!Init
  BY DEF Init, HeadLog!Init, HeadTree, EmptyTree, EmptyFile
<1>2. StoreInv /\ StoreInv' /\ OneLogInv /\ OneLogInv' /\ [Next]_vars
        => [HeadLog!Next]_(HeadLog!vars)
  <2> SUFFICES ASSUME StoreInv, StoreInv', OneLogInv, OneLogInv', [Next]_vars
               PROVE  HeadLog!Next
    OBVIOUS
  <2>0. erased \subseteq erased' /\ erased' \in SUBSET Keys
    BY ErasedStep DEF StoreInv
  <2>1. ASSUME NEW f \in Files
        PROVE  /\ HeadTree'.log[f].md \in Seq(Keys)
               /\ HeadTree'.log[f].keys \in SUBSET Keys
               /\ IsPrefix(HeadTree.log[f].md, HeadTree'.log[f].md)
               /\ HeadTree.log[f].keys \subseteq HeadTree'.log[f].keys \cup erased'
               /\ \A i, j \in DOMAIN HeadTree'.log[f].md :
                    HeadTree'.log[f].md[i] = HeadTree'.log[f].md[j]
                      => i = j \/ HeadTree'.log[f].md[i] \in erased'
               /\ ToSet(HeadTree'.log[f].md) \subseteq HeadTree'.log[f].keys \cup erased'
               /\ \A k \in HeadTree.log[f].keys \ erased' :
                    k \in ToSet(HeadTree'.log[f].md) => k \in ToSet(HeadTree.log[f].md)
    <3>1. HeadTree'.log[f].md \in Seq(Keys) /\ HeadTree'.log[f].keys \in SUBSET Keys
      <4>1. TypeOK'
        BY DEF StoreInv
      <4>2. (TypeOK => HeadTree \in Tree)'
        BY HeadTreeType, PTL
      <4> QED BY <4>1, <4>2 DEF Tree, LogFile
    <3>2. IsPrefix(HeadTree.log[f].md, HeadTree'.log[f].md)
      BY HeadGrows
    <3>3. Paired(HeadTree'.log[f], erased')
      <4>1. (StoreInv => HeadConsistent)'
        BY HeadPaired, PTL
      <4> QED BY <4>1 DEF HeadConsistent
    <3>4. /\ HeadTree.log[f].keys \subseteq HeadTree'.log[f].keys \cup erased'
          /\ \A k \in HeadTree.log[f].keys \ erased' :
               k \in Entries(HeadTree'.log[f].md) => k \in Entries(HeadTree.log[f].md)
      <4>1. CASE HeadTree' = HeadTree
        BY <4>1
      <4>2. ASSUME NEW w \in Writers, SetHead(w), HeadTree' = my[w].staged
            PROVE  HeadTree'.log[f] = disk[f]
        <5>1. pc[w] = "head"
          BY <4>2 DEF SetHead, Goto
        <5>2. File(w) = f
          BY <5>1, FileType DEF OneLog, StoreInv
        <5> QED BY <4>2, <5>1, <5>2 DEF OneLogInv, StageInv, InStage, OnDisk
      <4>3. /\ HeadTree.log[f].keys \subseteq disk[f].keys \cup erased
            /\ \A k \in HeadTree.log[f].keys \ erased :
                 k \in Entries(disk[f].md) => k \in Entries(HeadTree.log[f].md)
        BY DEF OneLogInv, AheadInv
      <4> QED BY <2>0, <4>1, <4>2, <4>3, HeadStep DEF StoreInv
    <3> QED BY <3>1, <3>2, <3>3, <3>4 DEF Paired, Entries
  <2>2. \A f \in Files : /\ trail[f] = HeadTree.log[f].md
                         /\ marked[f] = HeadTree.log[f].keys
                         /\ trail'[f] = HeadTree'.log[f].md
                         /\ marked'[f] = HeadTree'.log[f].keys
    OBVIOUS
  <2>3. trail' \in [Files -> Seq(Keys)] /\ marked' \in [Files -> SUBSET Keys]
    BY <2>1
  <2>4. \A f \in Files : HeadLog!Extends(f)
    <3> SUFFICES ASSUME NEW f \in Files PROVE HeadLog!Extends(f)
      OBVIOUS
    <3> QED BY <2>1
            DEF HeadLog!Extends, HeadLog!RepeatsOnly, HeadLog!Entries, HeadLog!ToSet, ToSet,
                HeadLog!IsPrefix, IsPrefix
  <2> QED BY <2>0, <2>3, <2>4 DEF HeadLog!Next
<1> QED BY <1>1, <1>2, StoreInvariant, OneLogInvariant, PTL
        DEF Spec, HeadIsAuditTrail, HeadLog!Spec

----------------------------------------------------------------------------
(* The trail on disk *)

\* A writer in flight has recorded its key and is about to write the entry.
LEMMA InFlightStep ==
    ASSUME StoreInv, StoreInv', [Next]_vars, NEW f \in Files, NEW k \in disk[f].keys,
           k \notin InFlight(f)
    PROVE  k \notin InFlight(f)'
<1> SUFFICES ASSUME NEW w \in Writers, pc'[w] = "entry", lock'[f] = w, my'[w].key = k
             PROVE  FALSE
  BY DEF InFlight
<1>0. TypeOK /\ LocalsInv /\ File(w)' = f
  BY DEF StoreInv, LocksInv
<1>1. CASE pc'[w] = pc[w] /\ my'[w] = my[w] /\ File(w)' = File(w)
  <2>1. lock[f] = w
    BY <1>0, <1>1 DEF StoreInv, LocksInv, InsideLock, Stages
  <2> QED BY <1>1, <2>1 DEF InFlight
<1>2. CASE Advance(w)
  <2>1. RecordKey(w)
    BY <1>0, <1>2
    DEF Advance, Acquire, EnsureLockIgnore, ReadWithoutGit, ReadMd, NoOrphan, RecoverOrphan,
        WriteEntry, StagePaths, LockIndex, WriteIndex, WriteTree, SetHead, BuildResult, Goto,
        TypeOK
  <2>2. File(w) = f /\ my[w].key = k
    BY <1>0, <1>2, AdvanceKeepsKey
  <2> QED BY <2>1, <2>2 DEF RecordKey
<1> QED BY <1>0, <1>1, <1>2, WriterStep

\* Without edits from outside, every step extends every log: it adds an
\* entry with its key at the end, or counts a key whose writer is gone.
LEMMA DiskExtends ==
    ASSUME StoreInv, StoreInv', [Next]_vars, NEW f \in Files, ~Tamper(f)
    PROVE  /\ disk'[f].md \in Seq(Keys)
           /\ disk'[f].keys \in SUBSET Keys
           /\ IsPrefix(disk[f].md, disk'[f].md)
           /\ disk[f].keys \ InFlight(f) \subseteq (disk'[f].keys \ InFlight(f)') \cup erased'
           /\ \A i, j \in DOMAIN disk'[f].md :
                disk'[f].md[i] = disk'[f].md[j] => i = j \/ disk'[f].md[i] \in erased'
           /\ ToSet(disk'[f].md) \subseteq (disk'[f].keys \ InFlight(f)') \cup erased'
           /\ \A k \in (disk[f].keys \ InFlight(f)) \ erased' :
                k \in ToSet(disk'[f].md) => k \in ToSet(disk[f].md)
<1>1. disk[f] \in LogFile /\ disk'[f] \in LogFile
  BY DEF StoreInv, TypeOK
<1>2. IsPrefix(disk[f].md, disk'[f].md)
  BY DiskGrows
<1>3. disk[f].keys \ InFlight(f) \subseteq (disk'[f].keys \ InFlight(f)') \cup erased'
  BY KeysStay, InFlightStep
<1>4. Paired(disk'[f], erased')
  BY DEF StoreInv, DiskConsistent
<1>5. Entries(disk'[f].md) \subseteq (disk'[f].keys \ InFlight(f)') \cup erased'
  <2> SUFFICES ASSUME NEW w \in Writers, pc'[w] = "entry", lock'[f] = w
               PROVE  my'[w].key \notin Entries(disk'[f].md) \ erased'
    BY <1>4 DEF Paired, InFlight
  <2>1. File(w)' = f
    BY DEF StoreInv, LocksInv
  <2> QED BY <2>1 DEF StoreInv, EntryInv
<1>6. ASSUME NEW k \in disk[f].keys \ InFlight(f), k \in Entries(disk'[f].md)
      PROVE  k \in Entries(disk[f].md)
  <2>1. CASE disk'[f].md = disk[f].md
    BY <1>6, <2>1
  <2>2. ASSUME NEW w \in Writers, WriteEntry(w), File(w) = f,
               Became(f, Append(disk[f].md, my[w].key), disk[f].keys, disk[f].intact)
        PROVE  k \in Entries(disk[f].md)
    <3>1. pc[w] = "entry" /\ lock[f] = w
      BY <2>2 DEF WriteEntry, Goto, StoreInv, LocksInv, InsideLock, Stages
    <3>2. my[w].key \in InFlight(f) /\ my[w].key \in Keys
      BY <3>1, FileType DEF InFlight, StoreInv
    <3>3. Entries(disk'[f].md) = Entries(disk[f].md) \cup {my[w].key}
      BY <1>1, <2>2, <3>2, AppendEntries DEF Became, LogFile
    <3> QED BY <1>6, <3>2, <3>3
  <2> QED BY <2>1, <2>2, DiskStep DEF Became
<1>7. /\ disk'[f].md \in Seq(Keys) /\ disk'[f].keys \in SUBSET Keys
      /\ \A i, j \in DOMAIN disk'[f].md :
           disk'[f].md[i] = disk'[f].md[j] => i = j \/ disk'[f].md[i] \in erased'
  BY <1>1, <1>4 DEF LogFile, Paired
<1> QED BY <1>2, <1>3, <1>5, <1>6, <1>7 DEF Entries

\* For any number of channels, and as long as nobody else edits the files,
\* the log of every channel on disk only grows at its end, entry with key,
\* and a key whose entry was lost never gets it later: the files implement
\* the abstract audit trail.
THEOREM DiskImplementsAuditTrail == Spec /\ []Untouched => DiskIsAuditTrail
<1>1. Init => DiskLog!Init
  <2> SUFFICES ASSUME Init PROVE DiskLog!Init
    OBVIOUS
  <2>1. \A f \in Files : disk[f].md = <<>> /\ disk[f].keys \ InFlight(f) = {}
    BY DEF Init, EmptyFile
  <2>2. erased = {}
    BY DEF Init
  <2> QED BY <2>1, <2>2 DEF DiskLog!Init
<1>2. StoreInv /\ StoreInv' /\ Untouched /\ Untouched' /\ [Next]_vars
        => [DiskLog!Next]_(DiskLog!vars)
  <2> SUFFICES ASSUME StoreInv, StoreInv', Untouched, Untouched', [Next]_vars
               PROVE  DiskLog!Next
    OBVIOUS
  <2>0. erased \subseteq erased' /\ erased' \in SUBSET Keys
    BY ErasedStep DEF StoreInv
  <2>1. \A f \in Files : ~Tamper(f)
    <3>1. MaxTampers \in Nat
      BY BoundsAssumption
    <3> QED BY <3>1, BudgetStep DEF StoreInv, Untouched
  <2> DEFINE trail == [f \in Files |-> disk[f].md]
             marked == [f \in Files |-> disk[f].keys \ InFlight(f)]
  <2>2. trail' \in [Files -> Seq(Keys)] /\ marked' \in [Files -> SUBSET Keys]
    <3>1. \A f \in Files : disk'[f].md \in Seq(Keys) /\ disk'[f].keys \in SUBSET Keys
      BY <2>1, DiskExtends
    <3> QED BY <3>1
  <2>3. ASSUME NEW f \in Files PROVE DiskLog!Extends(f)
    <3> HIDE DEF InFlight
    <3> QED
      BY <2>1, DiskExtends
      DEF DiskLog!Extends, DiskLog!RepeatsOnly, DiskLog!Entries, DiskLog!ToSet, ToSet,
          DiskLog!IsPrefix, IsPrefix
  <2> QED BY <2>0, <2>2, <2>3 DEF DiskLog!Next
<1> QED BY <1>1, <1>2, StoreInvariant, PTL DEF Spec, DiskIsAuditTrail, DiskLog!Spec

----------------------------------------------------------------------------
(* One append, one step *)

\* What an append has written, and the view leaves out, is one key and the
\* entry that was put after the snapshot.
ViewInv ==
    \A w \in Writers :
        /\ HasWritten(w) => disk[File(w)].md = Append(my[w].prior, my[w].key)
        /\ HasRecorded(w) => my[w].key \in disk[File(w)].keys

LEMMA RecordedInside ==
    ASSUME NEW w \in Writers, HasRecorded(w)
    PROVE  pc[w] \in InsideLock /\ pc[w] # "ignore"
BY DEF HasRecorded, HasWritten, InsideLock, Stages

LEMMA ViewInvStep ==
    ASSUME StoreInv, ViewInv, [Next]_vars
    PROVE  ViewInv'
<1> SUFFICES ASSUME NEW w \in Writers, HasRecorded(w)'
             PROVE  /\ HasWritten(w)' => disk'[File(w)'].md = Append(my'[w].prior, my'[w].key)
                    /\ my'[w].key \in disk'[File(w)'].keys
  BY DEF ViewInv, HasRecorded
<1>0. TypeOK /\ LocalsInv /\ pc \in [Writers -> Stages] /\ my \in [Writers -> Locals]
      /\ disk \in [Files -> LogFile]
  BY DEF StoreInv, TypeOK
<1>r. /\ HasWritten(w)' => pc'[w] = "result" \/ (pc'[w] \in Committing /\ ~my'[w].recovering)
      /\ pc'[w] = "entry" \/ pc'[w] = "result" \/ (pc'[w] \in Committing /\ ~my'[w].recovering)
      /\ pc'[w] = "entry" => ~HasWritten(w)'
  BY DEF HasRecorded, HasWritten, Committing
<1>1. CASE pc'[w] = pc[w] /\ my'[w] = my[w] /\ File(w)' = File(w)
  <2>1. HasRecorded(w) /\ (HasWritten(w)' => HasWritten(w))
    BY <1>1 DEF HasRecorded, HasWritten
  <2>2. disk'[File(w)] = disk[File(w)]
    BY <1>1, <2>1, RecordedInside, OwnFileStays
  <2> QED BY <1>1, <2>1, <2>2 DEF ViewInv
<1>2. CASE Advance(w)
  <2>0. my'[w].key = my[w].key /\ File(w)' = File(w)
    BY <1>0, <1>2, AdvanceKeepsKey
  <2>1. CASE RecordKey(w)
    <3>1. File(w) \in Files
      BY <2>1, FileType DEF StoreInv, RecordKey, Goto
    <3>2. disk'[File(w)].keys = disk[File(w)].keys \cup {my[w].key} /\ pc'[w] = "entry"
      BY <1>0, <2>1, <3>1 DEF RecordKey, Goto, LogFile
    <3> QED BY <1>r, <2>0, <3>2
  <2>2. CASE WriteEntry(w)
    <3>1. File(w) \in Files /\ pc[w] = "entry" /\ my' = my
      BY <2>2, FileType DEF StoreInv, WriteEntry, Goto
    <3>2. disk'[File(w)].keys = disk[File(w)].keys
          /\ disk'[File(w)].md = Append(my[w].prior, my[w].key)
      BY <1>0, <2>2, <3>1 DEF WriteEntry, LogFile
    <3> QED BY <2>0, <3>1, <3>2 DEF ViewInv, HasRecorded
  <2>3. CASE StagePaths(w) \/ LockIndex(w) \/ WriteIndex(w) \/ WriteTree(w) \/ SetHead(w)
    <3>1. /\ disk' = disk /\ my'[w].prior = my[w].prior
          /\ pc[w] \in Committing /\ ~my[w].recovering
      <4>1. CASE StagePaths(w)
        BY <1>0, <1>r, <4>1 DEF StagePaths, Goto, Committing, Locals, shared
      <4>2. CASE LockIndex(w)
        BY <1>0, <1>r, <4>2 DEF LockIndex, Goto, Committing
      <4>3. CASE WriteIndex(w)
        BY <1>0, <1>r, <4>3 DEF WriteIndex, Goto, Committing
      <4>4. CASE WriteTree(w)
        BY <1>0, <1>r, <4>4 DEF WriteTree, Goto, Committing, Locals, shared
      <4>5. CASE SetHead(w)
        BY <1>0, <1>r, <4>5 DEF SetHead, Goto, Committing, Locals
      <4> QED BY <2>3, <4>1, <4>2, <4>3, <4>4, <4>5
    <3>2. HasWritten(w) /\ HasRecorded(w)
      BY <3>1 DEF HasWritten, HasRecorded, Committing
    <3> QED BY <2>0, <3>1, <3>2 DEF ViewInv
  <2>4. CASE Acquire(w) \/ EnsureLockIgnore(w) \/ ReadWithoutGit(w) \/ ReadMd(w) \/ NoOrphan(w)
             \/ BuildResult(w)
    BY <1>0, <1>r, <2>4 DEF Acquire, EnsureLockIgnore, ReadWithoutGit, ReadMd, NoOrphan,
                           BuildResult, Goto, Committing
  <2>5. CASE RecoverOrphan(w)
    BY <1>0, <1>r, <2>5 DEF RecoverOrphan, Goto, Locals
  <2> QED BY <1>2, <2>1, <2>2, <2>3, <2>4, <2>5 DEF Advance
<1> QED BY <1>0, <1>1, <1>2, <1>r, WriterStep DEF Committing

\* A writer that gets the lock has done nothing yet.
LEMMA LockTaken ==
    ASSUME StoreInv, StoreInv', [Next]_vars, NEW f \in Files, NEW v \in Writers,
           lock'[f] = v, lock[f] # v
    PROVE  pc'[v] = "ignore"
<1>0. TypeOK /\ LocalsInv /\ LocksInv /\ pc'[v] \in InsideLock /\ File(v)' = f
  BY DEF StoreInv, LocksInv
<1>1. ASSUME pc[v] \in InsideLock PROVE File(v) # f
  BY <1>0, <1>1 DEF LocksInv
<1>2. CASE pc'[v] = pc[v] /\ my'[v] = my[v] /\ File(v)' = File(v)
  BY <1>0, <1>1, <1>2
<1>3. CASE Advance(v)
  <2>1. pc[v] \notin InsideLock
    BY <1>0, <1>1, <1>3, AdvanceKeepsKey
  <2>2. pc[v] = "locking"
    BY <1>0, <1>3, <2>1, AdvanceKeepsKey DEF TypeOK, InsideLock
  <2>3. Acquire(v)
    BY <1>3, <2>2 DEF Advance, EnsureLockIgnore, ReadWithoutGit, ReadMd, NoOrphan,
          RecoverOrphan, RecordKey, WriteEntry, StagePaths, LockIndex, WriteIndex, WriteTree,
          SetHead, BuildResult, Goto
  <2> QED BY <1>0, <2>3 DEF Acquire, Goto, TypeOK
<1> QED BY <1>0, <1>2, <1>3, WriterStep DEF InsideLock

\* An append that goes on inside the lock changes nothing of what the others
\* see of its file.
LEMMA InsideUnseen ==
    ASSUME StoreInv, ViewInv, NEW w \in Writers, pc[w] \in InsideLock, Advance(w),
           ~BuildResult(w)
    PROVE  /\ HasRecorded(w)' =>
                \/ HasRecorded(w) /\ disk'[File(w)].keys = disk[File(w)].keys
                \/ /\ ~HasRecorded(w)
                   /\ my[w].key \notin disk[File(w)].keys
                   /\ disk'[File(w)].keys = disk[File(w)].keys \cup {my[w].key}
           /\ ~HasRecorded(w)' => ~HasRecorded(w) /\ disk'[File(w)].keys = disk[File(w)].keys
           /\ HasWritten(w)' =>
                \/ HasWritten(w) /\ my'[w].prior = my[w].prior
                \/ ~HasWritten(w) /\ my'[w].prior = disk[File(w)].md
           /\ ~HasWritten(w)' => ~HasWritten(w) /\ disk'[File(w)].md = disk[File(w)].md
<1>0. /\ TypeOK /\ LocalsInv /\ pc \in [Writers -> Stages] /\ my \in [Writers -> Locals]
      /\ disk \in [Files -> LogFile] /\ File(w) \in Files /\ disk[File(w)] \in LogFile
  BY FileType DEF StoreInv, TypeOK, InsideLock
<1>p. /\ my[w].recovering => pc[w] \in Committing
      /\ pc[w] = "entry" => my[w].prior = disk[File(w)].md
  BY DEF StoreInv, PriorInv, UsesPrior, Committing
<1> USE DEF HasRecorded, HasWritten, Committing, Goto
<1>1. CASE EnsureLockIgnore(w)
  BY <1>0, <1>1 DEF EnsureLockIgnore
<1>2. CASE ReadWithoutGit(w) \/ ReadMd(w)
  BY <1>0, <1>2 DEF ReadWithoutGit, ReadMd, shared
<1>3. CASE NoOrphan(w)
  BY <1>0, <1>3 DEF NoOrphan, shared
<1>4. CASE RecoverOrphan(w)
  BY <1>0, <1>4 DEF RecoverOrphan, shared, Locals
<1>5. CASE RecordKey(w)
  <2>1. disk'[File(w)].keys = disk[File(w)].keys \cup {my[w].key}
        /\ disk'[File(w)].md = disk[File(w)].md /\ my' = my
    BY <1>0, <1>5 DEF RecordKey, LogFile
  <2> QED BY <1>0, <1>5, <2>1 DEF RecordKey
<1>6. CASE WriteEntry(w)
  <2>1. disk'[File(w)].keys = disk[File(w)].keys /\ my' = my
        /\ pc[w] = "entry" /\ pc'[w] \in {"stage", "result"}
    BY <1>0, <1>6 DEF WriteEntry, LogFile
  <2> QED BY <1>0, <1>p, <2>1
<1>7. CASE StagePaths(w) \/ LockIndex(w) \/ WriteIndex(w) \/ WriteTree(w)
  <2>1. /\ disk' = disk
        /\ my'[w].prior = my[w].prior /\ my'[w].recovering = my[w].recovering
        /\ pc[w] \in Committing /\ pc'[w] \in Committing
    <3>1. CASE StagePaths(w)
      BY <1>0, <3>1 DEF StagePaths, Locals, shared
    <3>2. CASE LockIndex(w)
      BY <1>0, <3>2 DEF LockIndex
    <3>3. CASE WriteIndex(w)
      BY <1>0, <3>3 DEF WriteIndex
    <3>4. CASE WriteTree(w)
      BY <1>0, <3>4 DEF WriteTree, Locals, shared
    <3> QED BY <1>7, <3>1, <3>2, <3>3, <3>4
  <2> QED BY <2>1
<1>8. CASE SetHead(w)
  <2>1. /\ disk' = disk /\ my'[w].prior = my[w].prior
        /\ pc[w] = "head" /\ pc'[w] = IF my[w].recovering THEN "dedup" ELSE "result"
    BY <1>0, <1>8 DEF SetHead, Locals
  <2> QED BY <2>1
<1>9. ~Acquire(w)
  BY DEF Acquire, InsideLock
<1> QED BY <1>1, <1>2, <1>3, <1>4, <1>5, <1>6, <1>7, <1>8, <1>9 DEF Advance

Unseen(f) == ViewTrail(f)' = ViewTrail(f) /\ ViewMarked(f)' = ViewMarked(f)

\* What the others may see of an append that ends: its key, or its key and
\* its entry.
Seen(w, f) ==
    /\ File(w) = f
    /\ my[w].key \in Keys
    /\ my[w].key \notin ViewMarked(f)
    /\ ViewMarked(f)' = ViewMarked(f) \cup {my[w].key}
    /\ ViewTrail(f)' \in {ViewTrail(f), Append(ViewTrail(f), my[w].key)}

\* With its result, an append shows its key and its entry.
LEMMA ResultSeen ==
    ASSUME StoreInv, ViewInv, NEW w \in Writers, BuildResult(w), NEW f \in Files, File(w) = f
    PROVE  Seen(w, f) /\ ViewTrail(f)' = Append(ViewTrail(f), my[w].key)
<1>1. /\ my[w].key \in Keys /\ lock[f] = w /\ HasWritten(w) /\ HasRecorded(w)
  BY FileType DEF StoreInv, LocksInv, BuildResult, Goto, HasWritten, HasRecorded, InsideLock,
                  Stages
<1>2. lock'[f] \notin Writers /\ disk' = disk
  BY <1>1, NobodyAssumption DEF BuildResult, StoreInv, TypeOK, shared
<1>3. /\ ViewTrail(f) = my[w].prior /\ ViewMarked(f) = disk[f].keys \ {my[w].key}
      /\ ViewTrail(f)' = disk[f].md /\ ViewMarked(f)' = disk[f].keys
  BY <1>1, <1>2 DEF ViewTrail, ViewMarked
<1>4. disk[f].md = Append(my[w].prior, my[w].key) /\ my[w].key \in disk[f].keys
  BY <1>1 DEF ViewInv
<1> QED BY <1>1, <1>3, <1>4 DEF Seen

\* One step changes the view of a file when an append gives back its lock, or
\* when somebody edits the file.
LEMMA ViewStep ==
    ASSUME StoreInv, StoreInv', ViewInv, [Next]_vars, NEW f \in Files
    PROVE  \/ Unseen(f)
           \/ \E w \in Writers :
                /\ BuildResult(w)
                /\ Seen(w, f)
                /\ ViewTrail(f)' = Append(ViewTrail(f), my[w].key)
           \/ \E w \in Writers :
                /\ pc[w] \in InsideLock
                /\ pc'[w] = "idle"
                /\ Seen(w, f)
           \/ /\ Tamper(f)
              /\ ViewMarked(f)' = ViewMarked(f)
              /\ ViewTrail(f) # <<>>
              /\ ViewTrail(f)' = Front(ViewTrail(f))
           \/ /\ Tamper(f)
              /\ ViewTrail(f)' = ViewTrail(f)
              /\ \E lines \in SUBSET ViewMarked(f) : ViewMarked(f)' = ViewMarked(f) \ lines
<1>0. TypeOK /\ LocalsInv /\ LocksInv /\ LocksInv'
  BY DEF StoreInv
<1>t. ASSUME NEW v \in Writers, lock'[f] = v, lock[f] # v PROVE ~HasRecorded(v)'
  <2>1. pc'[v] = "ignore"
    BY <1>t, LockTaken
  <2> QED BY <2>1 DEF HasRecorded, HasWritten
<1>1. ASSUME NEW w \in Writers, lock[f] = w
      PROVE  \/ Unseen(f)
             \/ /\ BuildResult(w)
                /\ Seen(w, f)
                /\ ViewTrail(f)' = Append(ViewTrail(f), my[w].key)
             \/ /\ pc[w] \in InsideLock
                /\ pc'[w] = "idle"
                /\ Seen(w, f)
  <2>0. pc[w] \in InsideLock /\ File(w) = f /\ my[w].key \in Keys
    BY <1>0, <1>1, FileType DEF LocksInv, InsideLock
  <2>1. ~Tamper(f)
    BY <1>1, NobodyAssumption DEF Tamper
  <2>2. ASSUME NEW v \in Writers, RecordKey(v) \/ WriteEntry(v), File(v) = f PROVE v = w
    <3>1. pc[v] \in InsideLock
      BY <2>2 DEF RecordKey, WriteEntry, Goto, InsideLock, Stages
    <3> QED BY <1>0, <2>0, <2>2, <3>1, Alone
  <2>v. /\ ViewTrail(f) = IF HasWritten(w) THEN my[w].prior ELSE disk[f].md
        /\ ViewMarked(f) = IF HasRecorded(w) THEN disk[f].keys \ {my[w].key} ELSE disk[f].keys
    BY <1>1 DEF ViewTrail, ViewMarked
  <2>i. /\ HasWritten(w) => HasRecorded(w) /\ disk[f].md = Append(my[w].prior, my[w].key)
        /\ HasRecorded(w) => my[w].key \in disk[f].keys
    BY <2>0 DEF ViewInv, HasRecorded
  <2>3. ASSUME lock'[f] = w
        PROVE  /\ ViewTrail(f)' = IF HasWritten(w)' THEN my'[w].prior ELSE disk'[f].md
               /\ ViewMarked(f)' = IF HasRecorded(w)' THEN disk'[f].keys \ {my'[w].key}
                                   ELSE disk'[f].keys
    BY <2>3 DEF ViewTrail, ViewMarked
  <2>4. ASSUME lock'[f] # w
        PROVE  ViewTrail(f)' = disk'[f].md /\ ViewMarked(f)' = disk'[f].keys
    <3>1. ~(lock'[f] \in Writers /\ HasRecorded(lock[f])')
      BY <1>1, <1>t, <2>4
    <3> QED BY <3>1 DEF ViewTrail, ViewMarked, HasRecorded
  <2>5. ASSUME lock'[f] # w, disk'[f] = disk[f]
        PROVE  \/ ~HasRecorded(w) /\ Unseen(f)
               \/ HasRecorded(w) /\ Seen(w, f)
    <3>1. CASE ~HasRecorded(w)
      BY <2>4, <2>5, <2>i, <2>v, <3>1 DEF Unseen
    <3>2. CASE HasRecorded(w)
      BY <2>0, <2>4, <2>5, <2>i, <2>v, <3>2 DEF Seen
    <3> QED BY <3>1, <3>2
  <2>6. CASE pc'[w] = pc[w] /\ my'[w] = my[w] /\ File(w)' = File(w)
    <3>1. lock'[f] = w /\ disk'[f] = disk[f]
      BY <1>0, <2>0, <2>6, OwnFileStays DEF LocksInv
    <3>2. (HasWritten(w)' <=> HasWritten(w)) /\ (HasRecorded(w)' <=> HasRecorded(w))
      BY <2>6 DEF HasWritten, HasRecorded
    <3> QED BY <2>3, <2>6, <2>v, <3>1, <3>2 DEF Unseen
  <2>7. CASE pc'[w] = "idle"
    <3>1. lock'[f] # w
      BY <1>0, <2>7 DEF LocksInv, InsideLock
    <3>2. ~RecordKey(w) /\ ~WriteEntry(w)
      BY <1>0, <2>7 DEF RecordKey, WriteEntry, Goto, TypeOK
    <3>3. disk'[f] = disk[f]
      BY <2>1, <2>2, <3>2, DiskStep
    <3> QED BY <2>0, <2>5, <2>7, <3>1, <3>3
  <2>8. CASE BuildResult(w)
    BY <2>0, <2>8, ResultSeen
  <2>9. CASE Advance(w) /\ ~BuildResult(w)
    <3>1. my'[w].key = my[w].key /\ File(w)' = f
      BY <1>0, <2>0, <2>9, AdvanceKeepsKey
    <3>2. pc'[w] \in InsideLock
      BY <1>0, <2>9
      DEF Advance, Acquire, EnsureLockIgnore, ReadWithoutGit, ReadMd, NoOrphan, RecoverOrphan,
          RecordKey, WriteEntry, StagePaths, LockIndex, WriteIndex, WriteTree, SetHead, Goto,
          InsideLock, Stages, TypeOK
    <3>3. lock'[f] = w
      BY <1>0, <3>1, <3>2 DEF LocksInv
    <3>4. /\ HasRecorded(w)' =>
                \/ HasRecorded(w) /\ disk'[f].keys = disk[f].keys
                \/ /\ ~HasRecorded(w)
                   /\ my[w].key \notin disk[f].keys
                   /\ disk'[f].keys = disk[f].keys \cup {my[w].key}
          /\ ~HasRecorded(w)' => ~HasRecorded(w) /\ disk'[f].keys = disk[f].keys
          /\ HasWritten(w)' =>
                \/ HasWritten(w) /\ my'[w].prior = my[w].prior
                \/ ~HasWritten(w) /\ my'[w].prior = disk[f].md
          /\ ~HasWritten(w)' => ~HasWritten(w) /\ disk'[f].md = disk[f].md
      BY <2>0, <2>9, InsideUnseen
    <3>5. ViewTrail(f)' = ViewTrail(f)
      BY <2>3, <2>v, <3>3, <3>4
    <3>6. ViewMarked(f)' = ViewMarked(f)
      BY <2>3, <2>v, <3>1, <3>3, <3>4
    <3> QED BY <3>5, <3>6 DEF Unseen
  <2>10. pc[w] # "idle"
    BY <2>0 DEF InsideLock
  <2> QED BY <1>0, <2>6, <2>7, <2>8, <2>9, <2>10, WriterStep
<1>2. ASSUME lock[f] \notin Writers
      PROVE  \/ Unseen(f)
             \/ /\ Tamper(f)
                /\ ViewMarked(f)' = ViewMarked(f)
                /\ ViewTrail(f) # <<>>
                /\ ViewTrail(f)' = Front(ViewTrail(f))
             \/ /\ Tamper(f)
                /\ ViewTrail(f)' = ViewTrail(f)
                /\ \E lines \in SUBSET ViewMarked(f) : ViewMarked(f)' = ViewMarked(f) \ lines
  <2>1. ViewTrail(f) = disk[f].md /\ ViewMarked(f) = disk[f].keys
    BY <1>2 DEF ViewTrail, ViewMarked
  <2>2. ViewTrail(f)' = disk'[f].md /\ ViewMarked(f)' = disk'[f].keys
    BY <1>2, <1>t DEF ViewTrail, ViewMarked, HasRecorded
  <2>3. ASSUME NEW v \in Writers, RecordKey(v) \/ WriteEntry(v), File(v) = f PROVE FALSE
    <3>1. pc[v] \in InsideLock
      BY <2>3 DEF RecordKey, WriteEntry, Goto, InsideLock, Stages
    <3> QED BY <1>0, <1>2, <2>3, <3>1 DEF LocksInv
  <2> QED BY <2>1, <2>2, <2>3, DiskStep DEF Unseen, Became
<1> QED BY <1>1, <1>2

\* A call is under way in the view exactly when it is in the code.
LEMMA ViewCalls ==
    ASSUME LocalsInv, NEW w \in Writers
    PROVE  /\ ViewCall(w) = AtomicView!Idle <=> pc[w] = "idle"
           /\ pc[w] \notin {"idle", "export"}
                => ViewCall(w) = [state |-> "called", key |-> my[w].key]
           /\ pc[w] = "export" => ViewCall(w) = [state |-> "committed", key |-> my[w].key]
<1>1. pc[w] = "idle" => my[w].key = NoKey
  BY DEF LocalsInv, Blank
<1> QED BY <1>1 DEF ViewCall, AtomicView!Idle

\* Every step of the store is a step of atomic appends.
LEMMA AtomicStep ==
    ASSUME StoreInv, StoreInv', ViewInv, [Next]_vars
    PROVE  [AtomicView!Next]_(AtomicView!vars)
<1>0. TypeOK /\ LocalsInv /\ LocalsInv'
  BY DEF StoreInv
<1> DEFINE trail == [f \in Files |-> ViewTrail(f)]
           marked == [f \in Files |-> ViewMarked(f)]
           calls == [w \in Writers |-> ViewCall(w)]
<1>1. ASSUME NEW w \in Writers, NEW k \in Keys, Call(w, k) PROVE AtomicView!Call(w, k)
  <2>1. \A v \in Writers \ {w} : pc'[v] = pc[v] /\ my'[v] = my[v]
    BY <1>0, <1>1, OthersStay
  <2>2. pc[w] = "idle" /\ pc'[w] = "locking" /\ my'[w].key = k
    BY <1>0, <1>1 DEF Call, Goto, TypeOK, Locals
  <2>3. ASSUME NEW f \in Files PROVE Unseen(f)
    <3>1. \A v \in Writers : ~BuildResult(v) /\ ~(pc[v] \in InsideLock /\ pc'[v] = "idle")
      BY <1>0, <2>1, <2>2 DEF BuildResult, Goto, InsideLock, TypeOK
    <3>2. ~Tamper(f)
      BY <2>2 DEF Tamper
    <3> QED BY <3>1, <3>2, ViewStep
  <2>4. ViewCall(w) = AtomicView!Idle /\ ViewCall(w)' = [state |-> "called", key |-> k]
    BY <1>0, <2>2, ViewCalls DEF ViewCall
  <2>5. \A v \in Writers \ {w} : ViewCall(v)' = ViewCall(v)
    BY <2>1 DEF ViewCall
  <2>6. calls' = [calls EXCEPT ![w] = [state |-> "called", key |-> k]]
    BY <2>4, <2>5
  <2>7. trail' = trail /\ marked' = marked
    BY <2>3 DEF Unseen
  <2> QED BY <2>4, <2>6, <2>7 DEF AtomicView!Call
<1>2. ASSUME NEW w \in Writers, BuildResult(w) PROVE AtomicView!Commit(w)
  <2>g. PICK g \in Files : g = File(w)
    BY <1>0, <1>2, FileType DEF BuildResult, Goto
  <2> DEFINE k == my[w].key
  <2>1. \A v \in Writers \ {w} : pc'[v] = pc[v] /\ my'[v] = my[v]
    BY <1>0, <1>2, OthersStay DEF Step
  <2>2. pc[w] = "result" /\ pc'[w] = "export" /\ my' = my
    BY <1>0, <1>2 DEF BuildResult, Goto, TypeOK
  <2>3. Seen(w, g) /\ ViewTrail(g)' = Append(ViewTrail(g), k)
    BY <1>2, <2>g, ResultSeen
  <2>4. ASSUME NEW f \in Files, f # g PROVE Unseen(f)
    <3>1. \A v \in Writers : ~(pc[v] \in InsideLock /\ pc'[v] = "idle")
      BY <2>1, <2>2 DEF InsideLock
    <3>2. \A v \in Writers : BuildResult(v) => v = w
      BY <1>0, <2>1 DEF BuildResult, Goto, TypeOK
    <3>3. \A v \in Writers : ~(BuildResult(v) /\ Seen(v, f))
      BY <2>4, <2>g, <3>2 DEF Seen
    <3>4. ~Tamper(f)
      BY <2>2 DEF Tamper
    <3> QED BY <3>1, <3>3, <3>4, ViewStep
  <2>5. /\ ViewCall(w) = [state |-> "called", key |-> k]
        /\ ViewCall(w)' = [state |-> "committed", key |-> k]
    BY <1>0, <2>2, ViewCalls DEF ViewCall
  <2>6. \A v \in Writers \ {w} : ViewCall(v)' = ViewCall(v)
    BY <2>1 DEF ViewCall
  <2>7. calls' = [calls EXCEPT ![w].state = "committed"]
    <3>1. ViewCall(w)' = [ViewCall(w) EXCEPT !.state = "committed"]
      BY <2>5
    <3> QED BY <2>6, <3>1
  <2>8. /\ g = FileOf[k] /\ k \notin marked[g]
        /\ trail' = [trail EXCEPT ![g] = Append(@, k)]
        /\ marked' = [marked EXCEPT ![g] = @ \cup {k}]
    BY <2>3, <2>4, <2>g DEF Seen, Unseen, File
  <2>9. calls[w].state = "called" /\ calls[w].key = k
    BY <2>5
  <2> HIDE DEF trail, marked, calls, k
  <2>10. AtomicView!Records(w, g)
    BY <2>8, <2>9 DEF AtomicView!Records, trail, marked, calls
  <2> QED BY <2>3, <2>7, <2>10 DEF AtomicView!Commit, calls
<1>3. ASSUME NEW f \in Files, Tamper(f)
      PROVE  AtomicView!Edit(f) \/ UNCHANGED AtomicView!vars
  <2>1. pc' = pc /\ my' = my /\ lock' = lock
    BY <1>3 DEF Tamper
  <2>2. calls' = calls
    BY <2>1 DEF ViewCall
  <2>3. ASSUME NEW g \in Files, g # f PROVE Unseen(g)
    <3>1. disk'[g] = disk[g]
      BY <1>0, <1>3, <2>3 DEF Tamper, CutLog, EditSidecar, TypeOK
    <3> QED BY <2>1, <3>1 DEF Unseen, ViewTrail, ViewMarked, HasWritten, HasRecorded
  <2>4. /\ \A w \in Writers : ~BuildResult(w)
        /\ \A w \in Writers : ~(pc[w] \in InsideLock /\ pc'[w] = "idle")
    BY <1>0, <2>1 DEF BuildResult, Goto, InsideLock, TypeOK
  <2>5. CASE Unseen(f)
    <3>1. trail' = trail /\ marked' = marked
      BY <2>3, <2>5 DEF Unseen
    <3> QED BY <2>2, <3>1 DEF AtomicView!vars
  <2>6. CASE /\ ViewMarked(f)' = ViewMarked(f)
             /\ ViewTrail(f) # <<>>
             /\ ViewTrail(f)' = Front(ViewTrail(f))
    <3>1. trail' = [trail EXCEPT ![f] = Front(@)] /\ marked' = marked /\ trail[f] # <<>>
      BY <2>3, <2>6 DEF Unseen
    <3> QED BY <2>2, <3>1 DEF AtomicView!Edit, AtomicView!Front, Front
  <2>7. ASSUME ViewTrail(f)' = ViewTrail(f), NEW lines \in SUBSET ViewMarked(f),
               ViewMarked(f)' = ViewMarked(f) \ lines
        PROVE  AtomicView!Edit(f)
    <3>1. marked' = [marked EXCEPT ![f] = @ \ lines] /\ trail' = trail
      BY <2>3, <2>7 DEF Unseen
    <3>2. lines \in SUBSET marked[f]
      OBVIOUS
    <3> HIDE DEF marked, trail
    <3>3. \E some \in SUBSET marked[f] :
             marked' = [marked EXCEPT ![f] = @ \ some] /\ trail' = trail
      BY <3>1, <3>2
    <3> QED BY <2>2, <3>3 DEF AtomicView!Edit, marked, trail
  <2> QED BY <2>4, <2>5, <2>6, <2>7, ViewStep
<1>4. CASE /\ \A w \in Writers, k \in Keys : ~Call(w, k)
           /\ \A w \in Writers : ~BuildResult(w)
           /\ \A f \in Files : ~Tamper(f)
  <2> DEFINE ended == {w \in Writers : pc[w] # "idle" /\ pc'[w] = "idle"}
  <2>1. ASSUME NEW w \in Writers
        PROVE  ViewCall(w)' = IF w \in ended THEN AtomicView!Idle ELSE ViewCall(w)
    <3>1. CASE pc'[w] = "idle"
      BY <1>0, <3>1, ViewCalls DEF ViewCall, LocalsInv, AtomicView!Idle, Blank
    <3>2. CASE pc'[w] = pc[w] /\ my'[w] = my[w] /\ pc[w] # "idle"
      BY <3>2 DEF ViewCall
    <3>3. CASE Advance(w)
      <4>1. pc'[w] # "export"
        BY <1>0, <1>4, <3>3
        DEF Advance, Acquire, EnsureLockIgnore, ReadWithoutGit, ReadMd, NoOrphan,
            RecoverOrphan, RecordKey, WriteEntry, StagePaths, LockIndex, WriteIndex,
            WriteTree, SetHead, Goto, TypeOK
      <4> QED BY <1>0, <3>3, <4>1, AdvanceKeepsKey DEF ViewCall
    <3>4. CASE pc[w] = "idle" /\ pc'[w] = "locking"
      <4>1. PICK v \in Writers : (\E k \in Keys : Call(v, k)) \/ Step(v) \/ Fail(v)
        BY <1>4, <3>4 DEF Next, Crash, Tamper, vars
      <4>2. v = w
        BY <1>0, <3>4, <4>1, OthersStay
      <4> QED BY <1>4, <3>4, <4>1, <4>2
          DEF Step, CommitStep, Fail, Acquire, LockTimeout, EnsureLockIgnore, ReadWithoutGit,
              ReadMd, NoOrphan, RefuseOrphan, RecoverOrphan, SkipDuplicate, RecordKey,
              WriteEntry, StagePaths, LockIndex, IndexLocked, WriteIndex, WriteTree, SetHead,
              BuildResult, Export, Goto, InsideLock
    <3> QED BY <1>0, <3>1, <3>2, <3>3, <3>4, WriterStep
  <2>2. \A w \in ended : ViewCall(w) # AtomicView!Idle
    BY <1>0, ViewCalls
  <2>3. ASSUME NEW f \in Files
        PROVE  Unseen(f) \/ \E w \in ended : pc[w] \in InsideLock /\ Seen(w, f)
    BY <1>4, ViewStep DEF InsideLock
  <2>4. ASSUME NEW f \in Files, NEW w \in ended, pc[w] \in InsideLock, Seen(w, f)
        PROVE  AtomicView!Leaves(w, f)
    <3>1. calls[w] = [state |-> "called", key |-> my[w].key]
      BY <1>0, <2>4, ViewCalls DEF InsideLock
    <3>2. /\ trail[f] = ViewTrail(f) /\ trail'[f] = ViewTrail(f)'
          /\ marked[f] = ViewMarked(f) /\ marked'[f] = ViewMarked(f)'
      OBVIOUS
    <3>3. /\ f = FileOf[my[w].key] /\ my[w].key \notin marked[f]
          /\ marked'[f] = marked[f] \cup {my[w].key}
          /\ trail'[f] \in {trail[f], Append(trail[f], my[w].key)}
      BY <2>4, <3>2 DEF Seen, File
    <3> HIDE DEF trail, marked, calls
    <3> QED BY <3>1, <3>3 DEF AtomicView!Leaves, trail, marked, calls
  <2>5. trail' \in [Files -> Seq(Keys)] /\ marked' \in [Files -> SUBSET Keys]
    <3>1. \A f \in Files : ViewTrail(f)' \in Seq(Keys) /\ ViewMarked(f)' \in SUBSET Keys
      BY DEF StoreInv, TypeOK, ViewTrail, ViewMarked, LogFile, Locals
    <3> QED BY <3>1
  <2>6. \A w \in ended : calls[w] # AtomicView!Idle
    BY <2>2
  <2>7. calls' = [w \in Writers |-> IF w \in ended THEN AtomicView!Idle ELSE calls[w]]
    BY <2>1
  <2>8. \A f \in Files :
          \/ trail'[f] = trail[f] /\ marked'[f] = marked[f]
          \/ \E w \in ended : AtomicView!Leaves(w, f)
    BY <2>3, <2>4 DEF Unseen
  <2> HIDE DEF trail, marked, calls, ended
  <2>9. AtomicView!End(ended)
    BY <2>5, <2>6, <2>7, <2>8 DEF AtomicView!End, trail, marked, calls
  <2>10. ended \in SUBSET Writers
    BY DEF ended
  <2> QED BY <2>9, <2>10 DEF AtomicView!Next
<1> QED BY <1>1, <1>2, <1>3, <1>4 DEF AtomicView!Next

\* An append is one step to all others, for any number of writers, processes
\* and logs, whatever fails, is killed, or is edited between appends: the store
\* implements the atomic append its callers take it for.
THEOREM AppendsAreAtomic == Spec => AppendIsAtomic
<1>1. Init => ViewInv
  BY DEF Init, ViewInv, HasRecorded, HasWritten
<1>2. Init => AtomicView!Init
  <2> SUFFICES ASSUME Init PROVE AtomicView!Init
    OBVIOUS
  <2>1. \A f \in Files : ViewTrail(f) = <<>> /\ ViewMarked(f) = {}
    BY NobodyAssumption DEF Init, ViewTrail, ViewMarked, EmptyFile
  <2>2. \A w \in Writers : ViewCall(w) = AtomicView!Idle
    BY DEF Init, ViewCall, AtomicView!Idle, Blank
  <2> QED BY <2>1, <2>2 DEF AtomicView!Init
<1>3. StoreInv /\ ViewInv /\ [Next]_vars => ViewInv'
  BY ViewInvStep
<1>4. StoreInv /\ StoreInv' /\ ViewInv /\ [Next]_vars => [AtomicView!Next]_(AtomicView!vars)
  BY AtomicStep
<1> QED BY <1>1, <1>2, <1>3, <1>4, StoreInvariant, PTL DEF Spec, AppendIsAtomic, AtomicView!Spec

=============================================================================
