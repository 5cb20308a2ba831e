------------------------- MODULE MCRollupSchedule -------------------------
(***************************************************************************)
(* Two controllers (the thread that wires the bot, and the one that shuts  *)
(* it down) and up to two channels with a rollup.                          *)
(***************************************************************************)
EXTENDS RollupSchedule

CONSTANTS wiring, shutdown  \* the controllers

MCControllers == {wiring, shutdown}
=============================================================================
