----------------------------- MODULE ProcessList -----------------------------
(***************************************************************************)
(* What ps and print_process show (Userland/SampleCodeModule/commands.c):  *)
(* first the pids, those that get_current_pids finds in the table or those *)
(* that were typed, then each process by its pid, while processes are      *)
(* created, killed and destroyed (Kernel/process.c, process_info.c).       *)
(***************************************************************************)
EXTENDS TableScan, SequencesExt, FiniteSetsExt

CONSTANT MAX_PROCESSES

VARIABLES
    process_table,  \* of each pid: "none", "lives" or "killed"
    n_processes,
    left,           \* the pids still to print
    ps,             \* "idle", "prints" or "done"
    shown,          \* the pids that were printed
    stayed,         \* history: the pids, of those to print, that live since
                    \* it began
    seen            \* history: the pids that somebody had since it began

vars == <<process_table, n_processes, left, ps, shown, stayed, seen>>

Pid == 0 .. MAX_PROCESSES - 1
Live(t) == {i \in Pid : t[i] = "lives"}
Free(t) == {i \in Pid : t[i] = "none"}

(* init, the shell and ps itself stay.                                     *)
Init ==
    /\ process_table = [i \in Pid |-> IF i <= 2 THEN "lives" ELSE "none"]
    /\ n_processes = 3
    /\ left = <<>> /\ ps = "idle"
    /\ shown = {} /\ stayed = {} /\ seen = {}

Watches == stayed' = stayed \cap Live(process_table') /\ seen' = seen \cup Live(process_table')

insert_process ==
    /\ Free(process_table) # {}
    /\ n_processes' = n_processes + 1
    /\ process_table' = [process_table EXCEPT ![Min(Free(process_table))] = "lives"]
    /\ Watches
    /\ UNCHANGED <<left, ps, shown>>

kill_process_Uncounted(i) ==
    /\ i > 2 /\ process_table[i] = "lives"
    /\ process_table' = [process_table EXCEPT ![i] = "killed"]
    /\ n_processes' = n_processes - 1
    /\ Watches
    /\ UNCHANGED <<left, ps, shown>>

(* Itself, at its end, or by another.                                      *)
kill_process(i) ==
    /\ i > 2 /\ process_table[i] = "lives"
    /\ process_table' = [process_table EXCEPT ![i] = "killed"]
    /\ Watches
    /\ UNCHANGED <<n_processes, left, ps, shown>>

destroy_process(i) ==
    /\ process_table[i] = "killed"
    /\ n_processes' = n_processes - 1
    /\ process_table' = [process_table EXCEPT ![i] = "none"]
    /\ Watches
    /\ UNCHANGED <<left, ps, shown>>

(* The first n_processes entries that are in use, killed ones included.    *)
get_current_pids ==
    /\ ps = "idle"
    /\ left' = Scan(Pid \ Free(process_table), MAX_PROCESSES, n_processes)
    /\ ps' = "prints" /\ shown' = {}
    /\ stayed' = Live(process_table) /\ seen' = Live(process_table)
    /\ UNCHANGED <<process_table, n_processes>>

(* With the pids that were typed, in any order.                            *)
print_process(pids) ==
    /\ ps = "idle"
    /\ left' = pids
    /\ ps' = "prints" /\ shown' = {}
    /\ stayed' = Live(process_table) \cap ToSet(pids) /\ seen' = Live(process_table)
    /\ UNCHANGED <<process_table, n_processes>>

(* Nothing, of one that has gone or is marked.                             *)
get_process_info(i) == {i} \cap Live(process_table)

print_single_process ==
    /\ ps = "prints"
    /\ IF left = <<>>
       THEN ps' = "done" /\ UNCHANGED <<left, shown>>
       ELSE /\ left' = Tail(left)
            /\ shown' = shown \cup get_process_info(Head(left))
            /\ UNCHANGED ps
    /\ UNCHANGED <<process_table, n_processes, stayed, seen>>

ps_Ends ==
    /\ ps = "done" /\ ps' = "idle"
    /\ shown' = {} /\ stayed' = {} /\ seen' = {}
    /\ UNCHANGED <<process_table, n_processes, left>>

Next ==
    \/ insert_process
    \/ \E i \in Pid : kill_process(i) \/ destroy_process(i)
    \/ \E i, j \in Pid : print_process(<<i, j>>)
    \/ get_current_pids \/ print_single_process \/ ps_Ends

Spec == Init /\ [][Next]_vars
-----------------------------------------------------------------------------
(* Properties. *)

(* Everybody who was there all along is shown, and nobody who never was,   *)
(* whoever comes and goes between the calls (commands.c:63-98,             *)
(* process.c:113-136, process_info.c:4-31).                                *)
PsShowsWhoStays == ps = "done" => stayed \subseteq shown /\ shown \subseteq seen
=============================================================================
