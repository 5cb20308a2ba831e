--------------------------- MODULE MCCommandLine ---------------------------
(***************************************************************************)
(* Two calls at a time, over one thread with messages and one without,     *)
(* and two configs that differ in the provider and in the directory.       *)
(***************************************************************************)
EXTENDS CommandLine, TLC

CONSTANTS p1, p2,      \* processes
          t1, t0,      \* threads
          fake, cloud, \* configs
          docs, other  \* directories

MCInvocations == {p1, p2}
MCThreads == {t1, t0}
MCConfigs == {fake, cloud}
MCProviderOf == fake :> "invalid_ids" @@ cloud :> "openai"
MCDirOf == fake :> docs @@ cloud :> other
MCHasPlatforms == {cloud}
MCDrops == {<<"invalid_ids", t1>>}

MCDigestFile(config, fixture, format, commit, out, fail_on_drop) ==
    [command |-> "digest-file", config |-> config, fixture |-> fixture, format |-> format,
     commit |-> commit, out |-> out, fail_on_drop |-> fail_on_drop]

MCReader(command, config, format) ==
    [command |-> command, config |-> config, fixture |-> "empty", format |-> format,
     commit |-> FALSE, out |-> FALSE, fail_on_drop |-> FALSE]

MCOptions ==
    {MCDigestFile(TRUE, "happy", "none", TRUE, FALSE, TRUE),
     MCDigestFile(FALSE, "schema_mismatch", "none", TRUE, TRUE, FALSE),
     MCDigestFile(FALSE, "schema_mismatch_persistent", "none", FALSE, FALSE, FALSE),
     MCDigestFile(FALSE, "invalid_ids", "json", FALSE, TRUE, TRUE),
     MCDigestFile(FALSE, "unheard_of", "none", FALSE, FALSE, FALSE),
     MCDigestFile(TRUE, "happy", "unknown", FALSE, FALSE, FALSE),
     MCReader("search", TRUE, "none"), MCReader("search", TRUE, "unknown"),
     MCReader("rollup", TRUE, "none"), MCReader("run", TRUE, "none")}
=============================================================================
