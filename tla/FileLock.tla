------------------------------ MODULE FileLock ------------------------------
(***************************************************************************)
(* The two-layer lock of store.py: _FileLock around one lock file.         *)
(*                                                                         *)
(* Layer 1 is a threading.Lock per process, from _PROCESS_LOCK_REGISTRY.   *)
(* Layer 2 is fcntl.lockf on the lock file.  Its POSIX rules are the       *)
(* hazard: the lock belongs to the PROCESS, so a second thread of the      *)
(* owner is granted it again, and closing ANY descriptor the process has   *)
(* on the file drops it.                                                   *)
(*                                                                         *)
(* One lock file is modelled; the registry keys thread locks by resolved   *)
(* path, so locks on different files share no state.  A clock is not       *)
(* modelled: the deadline may have passed at any moment of a wait, which   *)
(* is what a caller sees of `timeout`.                                     *)
(***************************************************************************)
CONSTANTS
    Threads,    \* the threads that call DecisionStore.append
    Procs,      \* the interpreters they run in
    ProcOf,     \* the process of each thread
    NoThread,   \* no thread
    NoProc      \* no process

ASSUME ProcOfAssumption == ProcOf \in [Threads -> Procs]
ASSUME NoThreadAssumption == NoThread \notin Threads
ASSUME NoProcAssumption == NoProc \notin Procs

VARIABLES
    pc,          \* where each thread stands in _FileLock.__enter__ / __exit__
    threadLock,  \* per process: the thread holding the registry's threading.Lock
    fds,         \* the threads that have a descriptor open on the lock file
    owner        \* the process the kernel has granted the fcntl lock to

vars == <<pc, threadLock, fds, owner>>

(***************************************************************************)
(* idle      not using the lock                                            *)
(* waiting   in self._thread_lock.acquire(timeout)                         *)
(* opening   holds the thread lock, about to os.open                       *)
(* spinning  in the lockf(LOCK_EX | LOCK_NB) loop                          *)
(* critical  __enter__ returned, the with body runs                        *)
(* closing   __exit__ has unlocked, about to os.close                      *)
(* expired   the spin loop is past the deadline, about to os.close         *)
(* releasing descriptor closed, about to release the thread lock           *)
(***************************************************************************)
Stages == {"idle", "waiting", "opening", "spinning", "critical", "closing",
           "expired", "releasing"}

HoldsThreadLock == {"opening", "spinning", "critical", "closing", "expired", "releasing"}
HasDescriptor == {"spinning", "critical", "closing", "expired"}

Init ==
    /\ pc = [t \in Threads |-> "idle"]
    /\ threadLock = [p \in Procs |-> NoThread]
    /\ fds = {}
    /\ owner = NoProc

Goto(t, from, to) ==
    /\ pc[t] = from
    /\ pc' = [pc EXCEPT ![t] = to]

----------------------------------------------------------------------------
(* The kernel's side of the advisory lock. *)

\* LOCK_NB is granted when nobody, or the calling process itself, owns it.
Granted(t) == owner \in {NoProc, ProcOf[t]}

\* LOCK_UN and close both act for the whole process.
DropFcntl(t) == owner' = IF owner = ProcOf[t] THEN NoProc ELSE owner

----------------------------------------------------------------------------
(* _FileLock.__enter__ *)

Enter(t) ==
    /\ Goto(t, "idle", "waiting")
    /\ UNCHANGED <<threadLock, fds, owner>>

\* Variant: one threading.Lock per _FileLock instead of one per path.
AcquireOwnThreadLock(t) ==
    /\ Goto(t, "waiting", "opening")
    /\ threadLock' = [threadLock EXCEPT ![ProcOf[t]] = t]
    /\ UNCHANGED <<fds, owner>>

AcquireThreadLock(t) ==
    /\ threadLock[ProcOf[t]] = NoThread
    /\ Goto(t, "waiting", "opening")
    /\ threadLock' = [threadLock EXCEPT ![ProcOf[t]] = t]
    /\ UNCHANGED <<fds, owner>>

\* acquire(timeout) returned False: StoreError, and nothing is held.
ThreadLockTimeout(t) ==
    /\ threadLock[ProcOf[t]] # NoThread
    /\ Goto(t, "waiting", "idle")
    /\ UNCHANGED <<threadLock, fds, owner>>

OpenLockFile(t) ==
    /\ Goto(t, "opening", "spinning")
    /\ fds' = fds \cup {t}
    /\ UNCHANGED <<threadLock, owner>>

\* Variant: the thread lock is kept when os.open raises.
OpenFailsKeepsLock(t) ==
    /\ Goto(t, "opening", "idle")
    /\ UNCHANGED <<threadLock, fds, owner>>

\* os.open raised: the thread lock is given back and the error propagates.
OpenFails(t) ==
    /\ Goto(t, "opening", "releasing")
    /\ UNCHANGED <<threadLock, fds, owner>>

LockGranted(t) ==
    /\ Granted(t)
    /\ Goto(t, "spinning", "critical")
    /\ owner' = ProcOf[t]
    /\ UNCHANGED <<threadLock, fds>>

\* Variant: the thread lock is released before the descriptor is closed.
SpinTimeoutUnlocksFirst(t) ==
    /\ ~Granted(t)
    /\ Goto(t, "spinning", "expired")
    /\ threadLock' = [threadLock EXCEPT ![ProcOf[t]] = NoThread]
    /\ UNCHANGED <<fds, owner>>

\* Variant: the deadline is not looked at.
SpinForever(t) ==
    /\ ~Granted(t)
    /\ pc[t] = "spinning"
    /\ UNCHANGED vars

\* lockf raised and the deadline has passed.  A refused attempt before the
\* deadline only sleeps: it changes nothing.
SpinTimeout(t) ==
    /\ ~Granted(t)
    /\ Goto(t, "spinning", "expired")
    /\ UNCHANGED <<threadLock, fds, owner>>

----------------------------------------------------------------------------
(* _FileLock.__exit__, and the error path that shares its last two steps *)

\* Variant: the descriptor is forgotten, neither unlocked nor closed.
UnlockForgets(t) ==
    /\ Goto(t, "critical", "releasing")
    /\ UNCHANGED <<threadLock, fds, owner>>

Unlock(t) ==
    /\ Goto(t, "critical", "closing")
    /\ DropFcntl(t)
    /\ UNCHANGED <<threadLock, fds>>

CloseDescriptor(t) ==
    /\ \/ Goto(t, "closing", "releasing")
       \/ Goto(t, "expired", "releasing")
    /\ fds' = fds \ {t}
    /\ DropFcntl(t)
    /\ UNCHANGED threadLock

ReleaseThreadLock(t) ==
    /\ Goto(t, "releasing", "idle")
    /\ threadLock' = [threadLock EXCEPT ![ProcOf[t]] = NoThread]
    /\ UNCHANGED <<fds, owner>>

----------------------------------------------------------------------------
(* A process is killed and starts again: its threads, its registry and its *)
(* descriptors are gone, and the kernel drops the locks behind them.       *)
Crash(p) ==
    /\ pc' = [t \in Threads |-> IF ProcOf[t] = p THEN "idle" ELSE pc[t]]
    /\ threadLock' = [threadLock EXCEPT ![p] = NoThread]
    /\ fds' = {t \in fds : ProcOf[t] # p}
    /\ owner' = IF owner = p THEN NoProc ELSE owner

----------------------------------------------------------------------------
\* What a thread does once it has called append: no step of it waits for
\* anything but the lock, and every wait ends in a grant or in a timeout.
Step(t) ==
    \/ AcquireThreadLock(t)
    \/ ThreadLockTimeout(t)
    \/ OpenLockFile(t)
    \/ OpenFails(t)
    \/ LockGranted(t)
    \/ SpinTimeout(t)
    \/ Unlock(t)
    \/ CloseDescriptor(t)
    \/ ReleaseThreadLock(t)

Next ==
    \/ \E t \in Threads : Enter(t) \/ Step(t)
    \/ \E p \in Procs : Crash(p)

Spec == Init /\ [][Next]_vars

\* A running thread is scheduled again; nothing obliges one to call append.
Fairness == \A t \in Threads : WF_vars(Step(t))

FairSpec == Spec /\ Fairness

----------------------------------------------------------------------------
(* Properties *)

TypeOK ==
    /\ pc \in [Threads -> Stages]
    /\ threadLock \in [Procs -> Threads \cup {NoThread}]
    /\ fds \subseteq Threads
    /\ owner \in Procs \cup {NoProc}

\* Two writers are never in the read-append-commit section of one log file
\* at once, whether they share an interpreter or not (_FileLock docstring).
MutualExclusion ==
    \A t, u \in Threads : pc[t] = "critical" /\ pc[u] = "critical" => t = u

\* The critical section runs under the kernel's lock until it is left: no
\* close, unlock or exit of another thread takes it away underneath.
LockHeldThroughout ==
    \A t \in Threads : pc[t] = "critical" => owner = ProcOf[t]

\* The lock file is never left locked with nobody inside: the process that
\* owns it has a thread in the critical section, so a killed or failed
\* writer does not block the others until they time out.
NoStaleLock ==
    owner # NoProc => \E t \in Threads : ProcOf[t] = owner /\ pc[t] = "critical"

\* An error path gives back what it took: a thread that is not using the
\* lock holds neither the thread lock nor a descriptor.
NothingLeaked ==
    \A t \in Threads : pc[t] = "idle" => threadLock[ProcOf[t]] # t /\ t \notin fds

\* Every call of __enter__ ends: the thread gets in, or it raises.
EveryEnterReturns ==
    \A t \in Threads : pc[t] = "waiting" ~> pc[t] \in {"critical", "idle"}

\* The lock implements the abstract mutex: its holder is the thread in the
\* critical section.
Holder ==
    IF \E t \in Threads : pc[t] = "critical"
      THEN CHOOSE t \in Threads : pc[t] = "critical"
      ELSE NoThread

AbstractLock == INSTANCE Mutex WITH Clients <- Threads, NoClient <- NoThread, holder <- Holder

\* Every behaviour of the two-layer lock is one of the abstract mutex.
ImplementsMutex == AbstractLock!Spec
=============================================================================
