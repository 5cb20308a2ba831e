---------------------------- MODULE AtomicAppend ----------------------------
(***************************************************************************)
(* What the callers of DecisionStore.append take it for.  A call takes     *)
(* effect in one step: it records its entry with its key at the end of the *)
(* log, if the key is not there, and returns as committed; or it ends with *)
(* nothing done (a duplicate, a refusal, an error), or leaves a trace of   *)
(* its own, the key or the key with its entry, and raises.  Calls that are *)
(* killed with their process end together.  Somebody may cut a log back or *)
(* take keys out of a sidecar.                                             *)
(*                                                                         *)
(* DecisionStore implements it, and DigestService uses nothing else.       *)
(***************************************************************************)
EXTENDS Sequences, SequencesExt

CONSTANTS
    Callers,  \* threads that call append
    Keys,     \* digest keys; the key stands for the entry rendered for it
    Files,    \* the log files
    FileOf,   \* the log file of each key's channel
    NoKey     \* no key

VARIABLES
    trail,   \* per file: the entries of the Markdown log, in order
    marked,  \* per file: the keys of its sidecar
    calls    \* per caller: what became of the call under way, and its key

vars == <<trail, marked, calls>>

Idle == [state |-> "idle", key |-> NoKey]

Init ==
    /\ trail = [f \in Files |-> <<>>]
    /\ marked = [f \in Files |-> {}]
    /\ calls = [c \in Callers |-> Idle]

Call(c, k) ==
    /\ calls[c] = Idle
    /\ calls' = [calls EXCEPT ![c] = [state |-> "called", key |-> k]]
    /\ UNCHANGED <<trail, marked>>

\* The entry of a call that finds its key in no sidecar.
Records(c, f) ==
    /\ calls[c].state = "called"
    /\ f = FileOf[calls[c].key]
    /\ calls[c].key \notin marked[f]
    /\ marked' = [marked EXCEPT ![f] = @ \cup {calls[c].key}]
    /\ trail' = [trail EXCEPT ![f] = Append(@, calls[c].key)]

Commit(c) ==
    /\ \E f \in Files : Records(c, f)
    /\ calls' = [calls EXCEPT ![c].state = "committed"]

\* What a call that raises may leave in its file.
Leaves(c, f) ==
    /\ calls[c].state = "called"
    /\ f = FileOf[calls[c].key]
    /\ calls[c].key \notin marked[f]
    /\ marked'[f] = marked[f] \cup {calls[c].key}
    /\ trail'[f] \in {trail[f], Append(trail[f], calls[c].key)}

\* One caller is done, or those in a process are killed: at most one of them
\* leaves a trace in a file.
End(callers) ==
    /\ \A c \in callers : calls[c] # Idle
    /\ calls' = [c \in Callers |-> IF c \in callers THEN Idle ELSE calls[c]]
    /\ trail' \in [Files -> Seq(Keys)]
    /\ marked' \in [Files -> SUBSET Keys]
    /\ \A f \in Files :
           \/ trail'[f] = trail[f] /\ marked'[f] = marked[f]
           \/ \E c \in callers : Leaves(c, f)

Edit(f) ==
    /\ \/ /\ trail[f] # <<>>
          /\ trail' = [trail EXCEPT ![f] = Front(@)]
          /\ UNCHANGED marked
       \/ \E lines \in SUBSET marked[f] :
             /\ marked' = [marked EXCEPT ![f] = @ \ lines]
             /\ UNCHANGED trail
    /\ UNCHANGED calls

Next ==
    \/ \E c \in Callers, k \in Keys : Call(c, k)
    \/ \E c \in Callers : Commit(c)
    \/ \E callers \in SUBSET Callers : End(callers)
    \/ \E f \in Files : Edit(f)

Spec == Init /\ [][Next]_vars
=============================================================================
