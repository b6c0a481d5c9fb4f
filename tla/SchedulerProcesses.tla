------------------------ MODULE SchedulerProcesses ------------------------
(***************************************************************************)
(* Scheduler implements Processes.  The mapping reads the layer's state off*)
(* the control blocks: who runs is the scheduler's current, except inside  *)
(* set_next_current; who waits has a blocked status - while it runs, the   *)
(* reader between block_read_process and its yield does not wait yet.      *)
(***************************************************************************)
EXTENDS Scheduler

Running == IF kernel = "run" THEN current ELSE NULL
Killed == {p \in Live : st[p] = "DELETE"}
Waiting == {p \in Live : st[p] \in Blocked} \ {Running}

Layer == INSTANCE Processes
    WITH alive <- Live, waiting <- Waiting, killed <- Killed, running <- Running

(* Every step of the scheduler, of the timer and of the process system     *)
(* calls is a step the layer allows, for programs that do not kill         *)
(* themselves.                                                             *)
ImplementsProcesses == Layer!Spec
=============================================================================
