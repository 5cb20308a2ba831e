----------------------------- MODULE MCFileLock -----------------------------
(***************************************************************************)
(* Three writers in two interpreters: two threads that share a process     *)
(* (a timer thread and a command handler) and one thread of another        *)
(* process, so that both layers of the lock are contended.                 *)
(***************************************************************************)
EXTENDS FileLock

CONSTANTS timer, command, cli,  \* the threads
          bot, shell            \* the processes

MCThreads == {timer, command, cli}
MCProcs == {bot, shell}
MCProcOf == [t \in MCThreads |-> IF t = cli THEN shell ELSE bot]
=============================================================================
