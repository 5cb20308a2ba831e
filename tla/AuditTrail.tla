----------------------------- MODULE AuditTrail -----------------------------
(***************************************************************************)
(* What the decision log promises its readers, one file at a time: the     *)
(* entries only ever grow at the end, no entry appears twice, an entry is  *)
(* there only with its key in the `.processed` sidecar, and a key that is  *)
(* there without its entry (a lost one) never gets its entry later.  Of    *)
(* the keys that somebody erased from a sidecar only the first holds.      *)
(*                                                                         *)
(* DecisionStore implements it twice: on disk, for every set of files, and *)
(* at HEAD, when the repository holds a single log file.                   *)
(***************************************************************************)
EXTENDS Sequences, SequencesExt

CONSTANTS
    Keys,   \* digest keys; the key stands for the entry rendered for it
    Files   \* the log files

VARIABLES
    trail,   \* per file: the entries of the Markdown log, in order
    marked,  \* per file: the keys of its sidecar
    erased   \* the keys that somebody erased so far

vars == <<trail, marked, erased>>

Init ==
    /\ trail = [f \in Files |-> <<>>]
    /\ marked = [f \in Files |-> {}]
    /\ erased = {}

\* Entries in a log, whatever their order.
Entries(log) == ToSet(log)

RepeatsOnly(log, keys) ==
    \A i, j \in DOMAIN log : log[i] = log[j] => i = j \/ log[i] \in keys

Extends(f) ==
    /\ IsPrefix(trail[f], trail'[f])
    /\ marked[f] \subseteq marked'[f] \cup erased'
    /\ RepeatsOnly(trail'[f], erased')
    /\ Entries(trail'[f]) \subseteq marked'[f] \cup erased'
    /\ \A k \in marked[f] \ erased' : k \in Entries(trail'[f]) => k \in Entries(trail[f])

Next ==
    /\ trail' \in [Files -> Seq(Keys)]
    /\ marked' \in [Files -> SUBSET Keys]
    /\ erased' \in SUBSET Keys
    /\ erased \subseteq erased'
    /\ \A f \in Files : Extends(f)

Spec == Init /\ [][Next]_vars
=============================================================================
