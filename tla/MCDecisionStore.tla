-------------------------- MODULE MCDecisionStore --------------------------
(***************************************************************************)
(* Two writers in two processes, and two or three entries in one or two    *)
(* log files.  The .cfg files choose the bounds.                           *)
(***************************************************************************)
EXTENDS DecisionStore

CONSTANTS w1, w2,      \* writers
          p1, p2,      \* processes
          k1, k2, k3,  \* digest keys
          general, ops \* log files

MCWriters == {w1, w2}
MCProcs == {p1, p2}

\* A command handler and a CLI call in another process.
TwoProcesses == [w \in MCWriters |-> IF w = w1 THEN p1 ELSE p2]

\* The default, the raise policy, and a store without Git.
Default == [commit |-> TRUE, auto |-> TRUE]
Raise == [commit |-> TRUE, auto |-> FALSE]
FilesOnly == [commit |-> FALSE, auto |-> TRUE]

MCDefault == {Default}
MCAllConfigs == {Default, Raise, FilesOnly}

MCOneFile == {general}
MCTwoFiles == {general, ops}
MCTwoKeys == {k1, k2}
MCThreeKeys == {k1, k2, k3}

AllInOne == [k \in MCTwoKeys |-> general]
OneEach == [k \in MCTwoKeys |-> IF k = k1 THEN general ELSE ops]
TwoAndOne == [k \in MCThreeKeys |-> IF k = k3 THEN ops ELSE general]
=============================================================================
