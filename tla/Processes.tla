----------------------------- MODULE Processes -----------------------------
(***************************************************************************)
(* What the scheduler promises to the rest of the kernel and to programs,  *)
(* without the ring, the quantum or the table: processes come and go, one  *)
(* at most has the processor, and who gets it is neither waiting nor       *)
(* killed.  The synchronisation objects are modelled over this layer;      *)
(* Scheduler implements it.                                                *)
(***************************************************************************)
EXTENDS FiniteSets

CONSTANTS Proc, InitProc, NULL

VARIABLES
    alive,    \* the processes that exist
    waiting,  \* those that wait for a wake-up
    killed,   \* those marked for deletion
    running   \* who has the processor; NULL inside the scheduler

vars == <<alive, waiting, killed, running>>

Init ==
    /\ alive = {InitProc}
    /\ waiting = {} /\ killed = {}
    /\ running = InitProc

Spawn(p) ==
    /\ running # NULL
    /\ p \notin alive
    /\ alive' = alive \cup {p}
    /\ UNCHANGED <<waiting, killed, running>>

(* An interrupt or a call of the running process wakes some processes.     *)
Wake(W) ==
    /\ waiting' = waiting \ W
    /\ UNCHANGED <<alive, killed, running>>

(* The running process yields, is preempted or starts to wait.             *)
Leave(W) ==
    /\ running # NULL
    /\ running' = NULL
    /\ \/ waiting' = waiting \ W
       \/ running # InitProc /\ waiting' = (waiting \ W) \cup {running}
    /\ UNCHANGED <<alive, killed>>

Kill(p) ==
    /\ running \notin {NULL, p}
    /\ p \in alive \ {InitProc}
    /\ killed' = killed \cup {p}
    /\ waiting' = waiting \ {p}
    /\ UNCHANGED <<alive, running>>

Exit(W) ==
    /\ running \notin {NULL, InitProc}
    /\ alive' = alive \ {running}
    /\ waiting' = waiting \ W
    /\ running' = NULL
    /\ UNCHANGED killed

Reap(p, W) ==
    /\ running = NULL
    /\ p \in killed
    /\ alive' = alive \ {p}
    /\ killed' = killed \ {p}
    /\ waiting' = waiting \ W
    /\ UNCHANGED running

Switch(p) ==
    /\ running = NULL
    /\ p \in alive \ (waiting \cup killed)
    /\ running' = p
    /\ UNCHANGED <<alive, waiting, killed>>

Next ==
    \/ \E p \in Proc : Spawn(p) \/ Kill(p) \/ Switch(p)
    \/ \E W \in SUBSET waiting :
         \/ Wake(W) \/ Leave(W) \/ Exit(W)
         \/ \E p \in Proc : Reap(p, W)

Spec == Init /\ [][Next]_vars
=============================================================================
