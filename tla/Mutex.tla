------------------------------- MODULE Mutex -------------------------------
(***************************************************************************)
(* What the store's critical section needs from its lock: at most one      *)
(* client holds it, a client that does not hold it cannot give it away,    *)
(* and it never passes from one holder to the next without being free in   *)
(* between.  FileLock implements this specification with a thread lock     *)
(* and an fcntl lock; DecisionStore uses one such lock per log file.       *)
(***************************************************************************)
CONSTANTS
    Clients,    \* whoever may hold the lock: the threads of every process
    NoClient    \* the value of holder while the lock is free

VARIABLE holder

TypeOK == holder \in Clients \cup {NoClient}

Init == holder = NoClient

Acquire(c) ==
    /\ holder = NoClient
    /\ holder' = c

\* The holder leaves, by its own doing or because its process died.
Release(c) ==
    /\ holder = c
    /\ holder' = NoClient

Next == \E c \in Clients : Acquire(c) \/ Release(c)

Spec == Init /\ [][Next]_holder
=============================================================================
