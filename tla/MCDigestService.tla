-------------------------- MODULE MCDigestService --------------------------
(***************************************************************************)
(* Two commands and a rollup, or a command and two rollups, at once over   *)
(* two periods, with a model that may say something or nothing.            *)
(***************************************************************************)
EXTENDS DigestService, TLC

CONSTANTS c1, c2, r1, r2,  \* requests
          A                \* a digest

MCCommands == {c1, c2}
MCRollups == {r1, r2}
MCContents == {A}

\* Bound: of the four requests, any three are invoked.
MCThreeRequests == \E r \in Requests : stage[r] = "idle"

\* Commands are all alike, and so are rollups.
MCSymmetry == Permutations(MCCommands) \cup Permutations(MCRollups)
=============================================================================
