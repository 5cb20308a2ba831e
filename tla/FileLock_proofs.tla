-------------------------- MODULE FileLock_proofs --------------------------
(***************************************************************************)
(* Proofs about the two-layer lock, for any number of threads and          *)
(* processes.  MutualExclusion is not inductive: the fcntl lock alone      *)
(* would be granted to a second thread of its owner, and the thread lock   *)
(* alone says nothing of another process.  LockInv adds who holds which    *)
(* layer at each point of the protocol.                                    *)
(***************************************************************************)
EXTENDS FileLock, TLAPS

\* A thread holds its process's thread lock exactly from the acquire to the
\* release.
ThreadLockInv ==
    \A t \in Threads : threadLock[ProcOf[t]] = t <=> pc[t] \in HoldsThreadLock

\* A descriptor is open exactly from the open to the close.
DescriptorInv ==
    \A t \in Threads : t \in fds <=> pc[t] \in HasDescriptor

LockInv ==
    /\ TypeOK
    /\ ThreadLockInv
    /\ DescriptorInv
    /\ LockHeldThroughout
    /\ NoStaleLock

\* Two threads of one process are never both past the thread lock.
LEMMA OnePerProcess ==
    ASSUME ThreadLockInv, NEW t \in Threads, NEW u \in Threads,
           ProcOf[t] = ProcOf[u],
           pc[t] \in HoldsThreadLock, pc[u] \in HoldsThreadLock
    PROVE  t = u
BY DEF ThreadLockInv

\* The initial state satisfies the strengthened invariant.
LEMMA LockInvInit == Init => LockInv
BY ProcOfAssumption, NoThreadAssumption, NoProcAssumption
   DEF Init, LockInv, TypeOK, Stages, ThreadLockInv, DescriptorInv, HoldsThreadLock,
       HasDescriptor, LockHeldThroughout, NoStaleLock

\* Every step of a thread and every crash preserves the strengthened
\* invariant.  The steps that matter are the three that drop the fcntl lock.
LEMMA LockInvStep == LockInv /\ [Next]_vars => LockInv'
<1> SUFFICES ASSUME LockInv, [Next]_vars PROVE LockInv'
  OBVIOUS
<1> USE ProcOfAssumption, NoThreadAssumption, NoProcAssumption
<1> USE DEF LockInv, TypeOK, Stages, ThreadLockInv, DescriptorInv, HoldsThreadLock,
            HasDescriptor, LockHeldThroughout, NoStaleLock, Goto
<1>1. ASSUME NEW t \in Threads, Enter(t) PROVE LockInv'
  BY <1>1 DEF Enter
<1>2. ASSUME NEW t \in Threads, AcquireThreadLock(t) PROVE LockInv'
  BY <1>2 DEF AcquireThreadLock
<1>3. ASSUME NEW t \in Threads, ThreadLockTimeout(t) PROVE LockInv'
  BY <1>3 DEF ThreadLockTimeout
<1>4. ASSUME NEW t \in Threads, OpenLockFile(t) PROVE LockInv'
  BY <1>4 DEF OpenLockFile
<1>5. ASSUME NEW t \in Threads, OpenFails(t) PROVE LockInv'
  BY <1>5 DEF OpenFails
<1>6. ASSUME NEW t \in Threads, LockGranted(t) PROVE LockInv'
  <2>1. TypeOK' /\ ThreadLockInv' /\ DescriptorInv'
    BY <1>6 DEF LockGranted
  <2>2. NoStaleLock'
    BY <1>6 DEF LockGranted
  <2>3. LockHeldThroughout'
    BY <1>6 DEF LockGranted, Granted
  <2> QED BY <2>1, <2>2, <2>3
<1>7. ASSUME NEW t \in Threads, SpinTimeout(t) PROVE LockInv'
  BY <1>7 DEF SpinTimeout
<1>8. ASSUME NEW t \in Threads, Unlock(t) PROVE LockInv'
  <2>1. TypeOK' /\ ThreadLockInv' /\ DescriptorInv'
    BY <1>8 DEF Unlock, DropFcntl
  <2>2. ASSUME NEW u \in Threads, pc'[u] = "critical" PROVE owner' = ProcOf[u]
    <3>1. u # t /\ pc[u] = "critical" /\ ProcOf[u] = owner
      BY <1>8, <2>2 DEF Unlock
    <3>2. ProcOf[u] # ProcOf[t]
      BY <1>8, <3>1, OnePerProcess DEF Unlock
    <3> QED BY <1>8, <3>1, <3>2 DEF Unlock, DropFcntl
  <2>3. NoStaleLock'
    BY <1>8 DEF Unlock, DropFcntl
  <2> QED BY <2>1, <2>2, <2>3
<1>9. ASSUME NEW t \in Threads, CloseDescriptor(t) PROVE LockInv'
  <2>1. TypeOK' /\ ThreadLockInv' /\ DescriptorInv'
    BY <1>9 DEF CloseDescriptor, DropFcntl
  <2>2. \A u \in Threads : pc[u] = "critical" => ProcOf[u] # ProcOf[t]
    BY <1>9, OnePerProcess DEF CloseDescriptor
  <2>3. owner # ProcOf[t] /\ owner' = owner
    BY <1>9, <2>2 DEF CloseDescriptor, DropFcntl
  <2> QED BY <1>9, <2>1, <2>3 DEF CloseDescriptor
<1>10. ASSUME NEW t \in Threads, ReleaseThreadLock(t) PROVE LockInv'
  BY <1>10 DEF ReleaseThreadLock
<1>11. ASSUME NEW p \in Procs, Crash(p) PROVE LockInv'
  BY <1>11 DEF Crash
<1>12. CASE UNCHANGED vars
  BY <1>12 DEF vars
<1> QED
  BY <1>1, <1>2, <1>3, <1>4, <1>5, <1>6, <1>7, <1>8, <1>9, <1>10, <1>11, <1>12
  DEF Next, Step

\* The strengthened invariant holds in every reachable state: who holds
\* which layer of _FileLock always matches where the threads stand.
THEOREM LockInvariant == Spec => []LockInv
BY LockInvInit, LockInvStep, PTL DEF Spec

\* _FileLock is type correct: no step leaves a variable outside its domain.
THEOREM TypeCorrect == Spec => []TypeOK
<1>1. LockInv => TypeOK
  BY DEF LockInv
<1> QED BY <1>1, LockInvariant, PTL

\* At most one thread, of all processes, is inside the with body.
LEMMA LockInvExcludes == LockInv => MutualExclusion
BY OnePerProcess DEF LockInv, LockHeldThroughout, MutualExclusion, HoldsThreadLock

\* For any number of threads in any number of processes, at most one is in
\* the read-append-commit section of a log file.
THEOREM Exclusion == Spec => []MutualExclusion
BY LockInvariant, LockInvExcludes, PTL

\* Nothing takes the fcntl lock away from a thread in its critical section.
THEOREM HeldThroughout == Spec => []LockHeldThroughout
<1>1. LockInv => LockHeldThroughout
  BY DEF LockInv
<1> QED BY <1>1, LockInvariant, PTL

\* A killed, failed or timed-out thread leaves no lock behind.
THEOREM NoStale == Spec => []NoStaleLock
<1>1. LockInv => NoStaleLock
  BY DEF LockInv
<1> QED BY <1>1, LockInvariant, PTL

\* Every error path of __enter__ gives back what it took: a thread outside
\* holds neither the thread lock nor an open lock file.
THEOREM NothingIsLeaked == Spec => []NothingLeaked
<1>1. LockInv => NothingLeaked
  BY DEF LockInv, ThreadLockInv, DescriptorInv, NothingLeaked, HoldsThreadLock, HasDescriptor
<1> QED BY <1>1, LockInvariant, PTL

----------------------------------------------------------------------------
(* The abstract mutex.  Holder is a CHOOSE, so its characterisation comes  *)
(* first.                                                                  *)

HolderFact ==
    MutualExclusion =>
      /\ \A t \in Threads : pc[t] = "critical" => Holder = t
      /\ (\A t \in Threads : pc[t] # "critical") => Holder = NoThread

\* The holder is whichever thread is inside, and there is none if none is;
\* the second conjunct states it of the next state.
LEMMA HolderIs == HolderFact /\ HolderFact'
<1>1. HolderFact
  BY DEF HolderFact, MutualExclusion, Holder
<1> QED BY <1>1, PTL

\* A step that moves nobody in or out of the section leaves the holder alone.
LEMMA HolderKept ==
    ASSUME MutualExclusion, MutualExclusion',
           \A t \in Threads : pc'[t] = "critical" <=> pc[t] = "critical"
    PROVE  Holder' = Holder
<1>1. CASE \E t \in Threads : pc[t] = "critical"
  <2>1. PICK t \in Threads : pc[t] = "critical"
    BY <1>1
  <2>2. Holder = t
    BY <2>1, HolderIs DEF HolderFact
  <2>3. pc'[t] = "critical" => Holder' = t
    BY HolderIs DEF HolderFact
  <2> QED BY <2>1, <2>2, <2>3
<1>2. CASE \A t \in Threads : pc[t] # "critical"
  <2>1. Holder = NoThread
    BY <1>2, HolderIs DEF HolderFact
  <2>2. (\A t \in Threads : pc'[t] # "critical") => Holder' = NoThread
    BY HolderIs DEF HolderFact
  <2> QED BY <1>2, <2>1, <2>2
<1> QED BY <1>1, <1>2

\* Every step of the two-layer lock is a step of the abstract mutex, or
\* leaves its holder unchanged.
LEMMA StepRefines == LockInv /\ LockInv' /\ [Next]_vars => [AbstractLock!Next]_Holder
<1> SUFFICES ASSUME LockInv, LockInv', [Next]_vars
             PROVE  [AbstractLock!Next]_Holder
  OBVIOUS
<1> USE DEF LockInv, TypeOK, Stages, Goto
<1>a. MutualExclusion /\ MutualExclusion'
  BY LockInvExcludes, PTL
<1>b. ASSUME NEW t \in Threads, pc'[t] = "critical" PROVE Holder' = t
  BY <1>a, <1>b, HolderIs DEF HolderFact
<1>c. (\A t \in Threads : pc'[t] # "critical") => Holder' = NoThread
  BY <1>a, HolderIs DEF HolderFact
<1>1. ASSUME NEW t \in Threads, LockGranted(t) PROVE AbstractLock!Acquire(t)
  <2>1. ASSUME NEW u \in Threads, pc[u] = "critical" PROVE FALSE
    <3>1. ProcOf[u] = ProcOf[t]
      BY <1>1, <2>1, ProcOfAssumption, NoProcAssumption
      DEF LockGranted, Granted, LockHeldThroughout
    <3>2. u = t
      BY <1>1, <2>1, <3>1, OnePerProcess DEF LockGranted, HoldsThreadLock
    <3> QED BY <1>1, <2>1, <3>2 DEF LockGranted
  <2>2. Holder = NoThread
    BY <1>a, <2>1, HolderIs DEF HolderFact
  <2>3. Holder' = t
    BY <1>1, <1>b DEF LockGranted
  <2> QED BY <2>2, <2>3 DEF AbstractLock!Acquire
<1>2. ASSUME NEW t \in Threads, Unlock(t) PROVE AbstractLock!Release(t)
  <2>1. Holder = t
    BY <1>a, <1>2, HolderIs DEF Unlock, HolderFact
  <2>2. \A u \in Threads : pc'[u] # "critical"
    BY <1>a, <1>2 DEF Unlock, MutualExclusion
  <2> QED BY <1>c, <2>1, <2>2 DEF AbstractLock!Release
<1>3. ASSUME NEW p \in Procs, Crash(p) PROVE [AbstractLock!Next]_Holder
  <2>1. CASE \E t \in Threads : pc[t] = "critical" /\ ProcOf[t] = p
    <3>1. PICK t \in Threads : pc[t] = "critical" /\ ProcOf[t] = p
      BY <2>1
    <3>2. Holder = t
      BY <1>a, <3>1, HolderIs DEF HolderFact
    <3>3. \A u \in Threads : pc'[u] # "critical"
      BY <1>a, <1>3, <3>1 DEF Crash, MutualExclusion
    <3> QED BY <1>c, <3>2, <3>3 DEF AbstractLock!Next, AbstractLock!Release
  <2>2. CASE \A t \in Threads : ~(pc[t] = "critical" /\ ProcOf[t] = p)
    <3>1. \A t \in Threads : pc'[t] = "critical" <=> pc[t] = "critical"
      BY <1>3, <2>2 DEF Crash
    <3> QED BY <1>a, <3>1, HolderKept
  <2> QED BY <2>1, <2>2
<1>4. ASSUME NEW t \in Threads,
             \/ Enter(t) \/ AcquireThreadLock(t) \/ ThreadLockTimeout(t)
             \/ OpenLockFile(t) \/ OpenFails(t) \/ SpinTimeout(t)
             \/ CloseDescriptor(t) \/ ReleaseThreadLock(t)
      PROVE  Holder' = Holder
  <2>1. \A u \in Threads : pc'[u] = "critical" <=> pc[u] = "critical"
    BY <1>4 DEF Enter, AcquireThreadLock, ThreadLockTimeout, OpenLockFile, OpenFails,
                SpinTimeout, CloseDescriptor, ReleaseThreadLock
  <2> QED BY <1>a, <2>1, HolderKept
<1>5. CASE UNCHANGED vars
  BY <1>5, <1>a, HolderKept DEF vars
<1> QED
  BY <1>1, <1>2, <1>3, <1>4, <1>5 DEF Next, Step, AbstractLock!Next

\* The two-layer lock implements the abstract mutex the store relies on.
THEOREM Implements == Spec => ImplementsMutex
<1>1. Init => AbstractLock!Init
  BY DEF Init, AbstractLock!Init, Holder
<1> QED
  BY <1>1, LockInvariant, StepRefines, PTL DEF Spec, ImplementsMutex, AbstractLock!Spec
=============================================================================
