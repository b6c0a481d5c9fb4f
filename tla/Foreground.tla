----------------------------- MODULE Foreground -----------------------------
(***************************************************************************)
(* How the keyboard goes from a shell to a command and back (Userland/     *)
(* SampleCodeModule/commands.c, executer.c), by system calls between which *)
(* others run, keys are pressed and processes are killed (Kernel/          *)
(* process.c, keyboardDriver.c).                                           *)
(*                                                                         *)
(* A shell may be a command itself, and any command may start others.  The *)
(* code keeps a pointer to the one in the foreground: if it dangles, what  *)
(* the pid stands for here, should the pid be used again, is not what the  *)
(* pointer does, and the property speaks of it no longer.                  *)
(***************************************************************************)
EXTENDS Integers

CONSTANT MAX_PROCESSES

VARIABLES
    foreground,  \* a pid, that nobody may have any more
    ppid,        \* of each pid, or None if nobody has it
    marked,      \* the pids that have been killed
    runs,        \* where the code of each process is: "program", "exec"
                 \* (between execp and set_foreground), "end" or "stopped"
    started,     \* the pid that execp returned to each
    orphans      \* history: somebody went whose child was still there

vars == <<foreground, ppid, marked, runs, started, orphans>>

INIT == 0
SHELL == 1
None == -1
Pid == 1 .. MAX_PROCESSES - 1

process_table == {p \in Pid : ppid[p] # None}
get_process_by_pid(p) == (process_table \ marked) \cap {p}

Init ==
    /\ foreground = SHELL
    /\ ppid = [p \in Pid |-> IF p = SHELL THEN INIT ELSE None]
    /\ marked = {} /\ orphans = FALSE
    /\ runs = [p \in Pid |-> "program"] /\ started = [p \in Pid |-> SHELL]

At(p, place) == p \in process_table /\ runs[p] = place

(* Only init, the pid 0, is refused.                                       *)
set_foreground_force_process(P) ==
    foreground' = IF P = {} THEN foreground ELSE CHOOSE p \in P : TRUE

set_foreground_process(current, P) ==
    set_foreground_force_process(IF foreground = current THEN P ELSE {})

sys_set_foreground(current, p) == set_foreground_process(current, get_process_by_pid(p))

sys_kill(p) == marked' = marked \cup (get_process_by_pid(p) \ {SHELL})

-----------------------------------------------------------------------------
(* execute, of a shell, or execpn, of a program, which gives nobody the    *)
(* keyboard.                                                               *)
execp(p, place) ==
    /\ At(p, "program")
    /\ Pid # process_table
    /\ LET c == CHOOSE c \in Pid \ process_table : \A d \in Pid \ process_table : c <= d
       IN  /\ ppid' = [ppid EXCEPT ![c] = p]
           /\ runs' = [runs EXCEPT ![c] = "program", ![p] = place]
           /\ started' = [started EXCEPT ![p] = c, ![c] = SHELL]
    /\ UNCHANGED <<foreground, marked, orphans>>

execute(p) ==
    /\ At(p, "exec")
    /\ sys_set_foreground(p, started[p])
    /\ runs' = [runs EXCEPT ![p] = "program"]
    /\ started' = [started EXCEPT ![p] = SHELL]
    /\ UNCHANGED <<ppid, marked, orphans>>

set_fg(p, q) ==
    /\ At(p, "program") /\ p # SHELL
    /\ sys_set_foreground(p, q)
    /\ UNCHANGED <<ppid, marked, runs, started, orphans>>

(* Who kills itself still runs until it is switched from, which is not     *)
(* bounded here; the others stop where they are.                           *)
kill_command(p, q) ==
    /\ At(p, "program") /\ p # SHELL
    /\ sys_kill(q)
    /\ runs' = [r \in Pid |-> IF r \in marked' \ (marked \cup {p}) THEN "stopped" ELSE runs[r]]
    /\ UNCHANGED <<foreground, ppid, started, orphans>>

(* set_foreground(ppid()), at the end of a command.                        *)
executer(p) ==
    /\ At(p, "program") /\ p # SHELL
    /\ sys_set_foreground(p, ppid[p])
    /\ runs' = [runs EXCEPT ![p] = "end"]
    /\ UNCHANGED <<ppid, marked, started, orphans>>

Goes(p) ==
    /\ ppid' = [ppid EXCEPT ![p] = None]
    /\ marked' = marked \ {p}
    /\ runs' = [runs EXCEPT ![p] = "program"] /\ started' = [started EXCEPT ![p] = SHELL]
    /\ orphans' = (orphans \/ \E c \in process_table : ppid[c] = p)

destroy_process_KeepsForeground(p) == Goes(p) /\ UNCHANGED foreground

(* By end, or by the scheduler: the process is still the current one.      *)
destroy_process(p) ==
    /\ Goes(p)
    /\ set_foreground_process(p, process_table \cap {ppid[p]})

end(p) ==
    /\ At(p, "end") \/ p \in marked
    /\ destroy_process(p)

(* The escape key.                                                         *)
EscapeKey ==
    /\ foreground \in process_table
    /\ set_foreground_force_process(get_process_by_pid(ppid[foreground]))
    /\ UNCHANGED <<ppid, marked, runs, started, orphans>>

Next ==
    \/ \E p \in Pid :
         \/ execp(p, "program") \/ execp(p, "exec") \/ execute(p)
         \/ executer(p) \/ end(p)
         \/ \E q \in Pid : set_fg(p, q) \/ kill_command(p, q)
    \/ EscapeKey

Spec == Init /\ [][Next]_vars
-----------------------------------------------------------------------------
(* Properties. *)

(* P has the shell and, with a process, all that it has started: the       *)
(* smallest of these sets are those whose parents lead back to the shell.  *)
HoldsFamily(P) == SHELL \in P /\ \A p \in process_table : ppid[p] \in P => p \in P

(* The keyboard is with somebody, whose parents lead back to the shell: it *)
(* comes back when each of them ends or at the escape key, in whatever     *)
(* order a shell hands it over, the command ends, gives it to another or   *)
(* is killed and its pid is used again; as long as nobody goes before a    *)
(* process that it has started (commands.c:108-132, 220-233,               *)
(* executer.c:56-61, process.c:228-240, 316-331, keyboardDriver.c:29-33).  *)
KeyboardComesBack ==
    orphans \/ \A P \in SUBSET Pid : HoldsFamily(P) => foreground \in P
=============================================================================
