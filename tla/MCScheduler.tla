---------------------------- MODULE MCScheduler ----------------------------
(***************************************************************************)
(* Small instances of Scheduler for TLC: init, the shell and the programs  *)
(* that a table of MAX_PROCESSES leaves room for.                          *)
(***************************************************************************)
EXTENDS SchedulerProcesses, TLC

(* Pages other than init's are interchangeable.                            *)
Pages == Permutations(Proc \ {InitProc})
=============================================================================
