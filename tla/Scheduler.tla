----------------------------- MODULE Scheduler -----------------------------
(***************************************************************************)
(* The process table, the round-robin scheduler and the sleep list of the  *)
(* kernel: Kernel/process.c, processManager.c, timer.c, init.c, the        *)
(* interrupt stubs of asm/interrupts.asm and the system calls of           *)
(* systemCalls.c that reach them.                                          *)
(*                                                                         *)
(* Every handler runs behind an interrupt gate (idtLoader.c:38-47), that   *)
(* is, with interrupts off: a system call of the running process, a timer  *)
(* tick or a key press is one step.  The one loop of unknown length,       *)
(* set_next_current, is taken one iteration per step: while "kernel" is    *)
(* not "run" no other action is enabled, as interrupts are off.  The only  *)
(* kernel code that runs with interrupts on is init's (init.c:19-24), whose*)
(* call of sys_exec is therefore split into its statements.                *)
(*                                                                         *)
(* A process is its PCB page, and the list_node that points to a PCB is    *)
(* identified with it: each process has exactly one node from add_process  *)
(* to the removal of both.  Which free page an allocation returns is left  *)
(* open, because every other user of the page allocator takes and returns  *)
(* pages in between.                                                       *)
(*                                                                         *)
(* A definition named X_Y is X with the mistake Y (sys_wait_NoYield, a     *)
(* sleep that does not yield): the properties are tested against it, and   *)
(* nothing else uses it.                                                   *)
(***************************************************************************)
EXTENDS Integers, FiniteSets

CONSTANTS
    Proc,           \* the pages that may hold a process control block
    InitProc,       \* the page of init's control block
    NULL,           \* the C null pointer
    MAX_PROCESSES,  \* length of process_table
    MaxTicks,       \* bound: the longest sleep, in ticks
    MaxQuantum,     \* bound: yields are not explored beyond this quantum
    SelfKill        \* may a process pass its own pid to sys_kill?

ASSUME ProcAssumption == InitProc \in Proc /\ NULL \notin Proc
ASSUME BoundAssumption ==
    /\ MAX_PROCESSES \in Nat /\ MAX_PROCESSES > 1
    /\ MaxTicks \in Nat
    /\ MaxQuantum \in Nat /\ MaxQuantum > 0
ASSUME SelfKillAssumption == SelfKill \in BOOLEAN

QUANTUM == 1
Pid == 0 .. MAX_PROCESSES - 1
Blocked == {"BLOCKED", "BLOCKED_READ", "BLOCKED_FOREGROUND"}
Status == {"READY", "DELETE"} \cup Blocked

VARIABLES
    table,       \* process_table
    st, pid, ppid, \* the fields of each control block
    foreground,
    current, prev, \* the scheduler's two pointers into the ring
    next, quantum, \* the fields of each ring node
    superlock,
    sleeping,    \* the timer's list: set of [p, ticks]
    reading,     \* where each process is in sys_read of standard input:
                 \* not in it ("user"), in its loop, or about to yield in it
    kernel,      \* "run": user code or init; else inside set_next_current,
                 \* called from "next_process" or "end_process"
    boot         \* where init is in init.c:20-23

pcb == <<table, st, pid, ppid, foreground>>
ring == <<current, prev, next, quantum, superlock, kernel>>
vars == <<pcb, ring, sleeping, reading, boot>>

Live == {p \in Proc : \E i \in Pid : table[i] = p}

(* The ring is entered by add_process, after insert_process: between the   *)
(* two the shell is in the table only.                                     *)
InRing == {p \in Live : boot \in {"lock", "link"} => p = InitProc}

-----------------------------------------------------------------------------
(* process.c *)

get_process_by_pid(i) ==
    IF i \in Pid /\ table[i] # NULL /\ st[table[i]] # "DELETE"
    THEN table[i] ELSE NULL

set_foreground_force_process_NoUnblock(p) ==
    /\ foreground' = IF p # NULL /\ pid[p] # 0 THEN p ELSE foreground
    /\ UNCHANGED st

set_foreground_force_process(p) ==
    IF p # NULL /\ pid[p] # 0
    THEN /\ foreground' = p
         /\ st' = [st EXCEPT ![p] = IF @ = "BLOCKED_FOREGROUND" THEN "READY" ELSE @]
    ELSE UNCHANGED <<foreground, st>>

set_foreground_process(p) ==
    IF foreground = current
    THEN set_foreground_force_process(p)
    ELSE UNCHANGED <<foreground, st>>

(* The page keeps its contents until it is handed out again.               *)
destroy_process(p) ==
    /\ IF foreground = p
       THEN set_foreground_process(table[ppid[p]])
       ELSE UNCHANGED <<foreground, st>>
    /\ table' = [table EXCEPT ![pid[p]] = NULL]
    /\ UNCHANGED <<pid, ppid>>

block_process(s, p) == IF s[p] # "DELETE" THEN [s EXCEPT ![p] = "BLOCKED"] ELSE s

unblock_processes_Revives(s, P) ==
    [p \in Proc |-> IF p \in P THEN "READY" ELSE s[p]]

unblock_processes(s, P) ==
    [p \in Proc |-> IF p \in P /\ s[p] # "DELETE" THEN "READY" ELSE s[p]]

(* insert_process takes the first free entry.  A full table is not reached:*)
(* the stack allocator, as long as the table, would have returned 0 before *)
(* and fill_stack would have faulted.                                      *)
FirstFreePid(i) ==
    /\ i \in Pid /\ table[i] = NULL
    /\ \A j \in Pid : j < i => table[j] # NULL

create_process(p) ==
    /\ p \in Proc \ Live
    /\ \E i \in Pid :
         /\ FirstFreePid(i)
         /\ table' = [table EXCEPT ![i] = p]
         /\ pid' = [pid EXCEPT ![p] = i]
         /\ ppid' = [ppid EXCEPT ![p] = pid[current]]
    /\ st' = [st EXCEPT ![p] = "READY"]
    /\ reading' = [reading EXCEPT ![p] = "user"]
    /\ UNCHANGED foreground

-----------------------------------------------------------------------------
(* processManager.c *)

add_process_Unlinked(p) ==
    /\ next' = [next EXCEPT ![current] = p]
    /\ quantum' = [quantum EXCEPT ![p] = QUANTUM]

add_process(p) ==
    /\ next' = [next EXCEPT ![p] = next[current], ![current] = p]
    /\ quantum' = [quantum EXCEPT ![p] = QUANTUM]

(* q is the quantum of every node when next_process is entered.            *)
Keeps(q) == q[current] - 1 > 0 \/ superlock = "LOCKED"

next_process(q) ==
    \/ /\ Keeps(q)
       /\ quantum' = [q EXCEPT ![current] = @ - 1]
       /\ UNCHANGED <<current, prev, next, superlock, kernel>>
    \/ /\ ~Keeps(q)
       /\ quantum' = [q EXCEPT ![current] = QUANTUM]
       /\ prev' = current
       /\ current' = next[current]
       /\ superlock' = "LOCKED"
       /\ kernel' = "next_process"
       /\ UNCHANGED next

yield_process ==
    /\ quantum[next[current]] < MaxQuantum
    /\ next_process([quantum EXCEPT ![next[current]] = @ + 1, ![current] = 0])

Init ==
    /\ table = [i \in Pid |-> IF i = 0 THEN InitProc ELSE NULL]
    /\ st = [p \in Proc |-> "READY"]
    /\ pid = [p \in Proc |-> 0]
    /\ \E garbage \in Pid \cup {MAX_PROCESSES} :   \* init's ppid is never set
         ppid = [p \in Proc |-> IF p = InitProc THEN garbage ELSE 0]
    /\ foreground = InitProc
    /\ current = InitProc /\ prev = InitProc
    /\ next = [p \in Proc |-> p]
    /\ quantum = [p \in Proc |-> QUANTUM]
    /\ superlock = "UNLOCKED"
    /\ sleeping = {}
    /\ reading = [p \in Proc |-> "user"]
    /\ kernel = "run"
    /\ boot = "exec"

-----------------------------------------------------------------------------
(* The loop of set_next_current and the code after it. *)

SkipBlocked ==
    /\ kernel # "run"
    /\ st[current] \in Blocked
    /\ prev' = current
    /\ current' = next[current]
    /\ UNCHANGED <<pcb, next, quantum, superlock, kernel, sleeping, boot, reading>>

ReapDeleted_Stays ==
    /\ kernel # "run"
    /\ st[current] = "DELETE"
    /\ next' = [next EXCEPT ![prev] = next[current]]
    /\ destroy_process(current)
    /\ superlock' = "UNLOCKED"
    /\ UNCHANGED <<current, prev, quantum, kernel, sleeping, boot, reading>>

(* destroy_process takes and releases the table mutex, and every           *)
(* mutex_unlock ends with unset_superlock.                                 *)
ReapDeleted ==
    /\ kernel # "run"
    /\ st[current] = "DELETE"
    /\ next' = [next EXCEPT ![prev] = next[current]]
    /\ destroy_process(current)
    /\ current' = next[current]
    /\ superlock' = "UNLOCKED"
    /\ UNCHANGED <<prev, quantum, kernel, sleeping, boot, reading>>

Resume_Readers ==
    /\ kernel # "run"
    /\ st[current] \in {"READY", "BLOCKED_READ"}
    /\ superlock' = "UNLOCKED"
    /\ kernel' = "run"
    /\ UNCHANGED <<pcb, current, prev, next, quantum, sleeping, boot, reading>>

Resume_Superlocked ==
    /\ kernel # "run"
    /\ st[current] = "READY"
    /\ kernel' = "run"
    /\ UNCHANGED <<pcb, current, prev, next, quantum, superlock, sleeping, boot, reading>>

Resume ==
    /\ kernel # "run"
    /\ st[current] = "READY"
    /\ superlock' = "UNLOCKED"
    /\ quantum' = IF kernel = "end_process"
                  THEN [quantum EXCEPT ![current] = @ + 1] ELSE quantum
    /\ kernel' = "run"
    /\ UNCHANGED <<pcb, current, prev, next, sleeping, boot, reading>>

-----------------------------------------------------------------------------
(* init, with interrupts on. *)

InInit == kernel = "run" /\ current = InitProc

BootCreate(p) ==
    /\ InInit /\ boot = "exec"
    /\ create_process(p)
    /\ boot' = "lock"
    /\ UNCHANGED <<ring, sleeping>>

BootLock ==
    /\ InInit /\ boot = "lock"
    /\ superlock' = "LOCKED"
    /\ boot' = "link"
    /\ UNCHANGED <<pcb, current, prev, next, quantum, kernel, sleeping, reading>>

BootLink ==
    /\ InInit /\ boot = "link"
    /\ add_process(table[1])
    /\ boot' = "unlock"
    /\ UNCHANGED <<pcb, current, prev, superlock, kernel, sleeping, reading>>

BootUnlock ==
    /\ InInit /\ boot = "unlock"
    /\ superlock' = "UNLOCKED"
    /\ boot' = "foreground"
    /\ UNCHANGED <<pcb, current, prev, next, quantum, kernel, sleeping, reading>>

BootForeground ==
    /\ InInit /\ boot = "foreground"
    /\ set_foreground_process(get_process_by_pid(1))
    /\ boot' = "hlt"
    /\ UNCHANGED <<table, pid, ppid, ring, sleeping, reading>>

-----------------------------------------------------------------------------
(* System calls of the running process; init makes none. *)

InUser == kernel = "run" /\ current # InitProc /\ reading[current] = "user"

sys_exec(p) ==
    /\ InUser
    /\ create_process(p)
    /\ add_process(p)
    /\ superlock' = "UNLOCKED"
    /\ UNCHANGED <<current, prev, kernel, sleeping, boot>>

(* The shell, pid 1, loops forever (shell.c:32); every other program ends. *)
sys_end ==
    /\ InUser
    /\ pid[current] # 1
    /\ destroy_process(current)
    /\ next' = [next EXCEPT ![prev] = next[current]]
    /\ current' = next[current]
    /\ kernel' = "end_process"
    /\ superlock' = "UNLOCKED"
    /\ UNCHANGED <<prev, quantum, sleeping, boot, reading>>

Protected(p) == pid[p] = 0 \/ pid[p] = 1

sys_kill(i) ==
    /\ InUser
    /\ get_process_by_pid(i) # NULL
    /\ ~Protected(table[i])
    /\ SelfKill \/ table[i] # current
    /\ st' = [st EXCEPT ![table[i]] = "DELETE"]
    /\ UNCHANGED <<table, pid, ppid, foreground, ring, sleeping, boot, reading>>

sys_yield ==
    /\ InUser
    /\ yield_process
    /\ UNCHANGED <<pcb, sleeping, boot, reading>>

sys_wait_NoYield(ticks) ==
    /\ InUser
    /\ sleeping' = sleeping \cup {[p |-> current, ticks |-> ticks]}
    /\ st' = block_process(st, current)
    /\ UNCHANGED <<table, pid, ppid, foreground, ring, boot, reading>>

(* sleep's assign_quantum is undone by yield_process, which stores 0.      *)
sys_wait(ticks) ==
    /\ InUser
    /\ sleeping' = sleeping \cup {[p |-> current, ticks |-> ticks]}
    /\ st' = block_process(st, current)
    /\ yield_process
    /\ UNCHANGED <<table, pid, ppid, foreground, boot, reading>>

sys_set_foreground(i) ==
    /\ InUser
    /\ get_process_by_pid(i) # NULL
    /\ set_foreground_process(table[i])
    /\ UNCHANGED <<table, pid, ppid, ring, sleeping, boot, reading>>

(* sys_read of standard input: the foreground test is made once, ...       *)
ReadInBackground ==
    /\ InUser
    /\ current # foreground
    /\ st' = [st EXCEPT ![current] = "BLOCKED_FOREGROUND"]
    /\ reading' = [reading EXCEPT ![current] = "loop"]
    /\ yield_process
    /\ UNCHANGED <<table, pid, ppid, foreground, sleeping, boot>>

ReadInForeground ==
    /\ InUser
    /\ current = foreground
    /\ reading' = [reading EXCEPT ![current] = "loop"]
    /\ UNCHANGED <<pcb, ring, sleeping, boot>>

InReadLoop == kernel = "run" /\ reading[current] = "loop"

(* ... then the loop finds the bytes, or waits for a key.  It turns the    *)
(* interrupts on first, so that one may come before the yield.  The buffer *)
(* itself is abstracted: either may happen.                                *)
ReadReturns ==
    /\ InReadLoop
    /\ reading' = [reading EXCEPT ![current] = "user"]
    /\ UNCHANGED <<pcb, ring, sleeping, boot>>

ReadBlocks ==
    /\ InReadLoop
    /\ st' = [st EXCEPT ![current] = "BLOCKED_READ"]
    /\ reading' = [reading EXCEPT ![current] = "yield"]
    /\ UNCHANGED <<table, pid, ppid, foreground, ring, sleeping, boot>>

(* yield_process is one step here too: a tick between its two additions    *)
(* switches as the yield would.                                            *)
ReadYields ==
    /\ kernel = "run" /\ reading[current] = "yield"
    /\ reading' = [reading EXCEPT ![current] = "loop"]
    /\ yield_process
    /\ UNCHANGED <<pcb, sleeping, boot>>

-----------------------------------------------------------------------------
(* Interrupts. *)

Due_Late == {e.p : e \in {s \in sleeping : s.ticks = 0}}

Due == {e.p : e \in {s \in sleeping : s.ticks = 1}}

timer_handler_KeepsExpired ==
    /\ sleeping' = {[p |-> e.p, ticks |-> e.ticks - 1] : e \in sleeping}
    /\ st' = unblock_processes(st, Due)
    /\ UNCHANGED <<table, pid, ppid, foreground>>

(* The order of the list has no effect, and two entries of one process     *)
(* with the same ticks expire together: a set says all that matters.       *)
timer_handler ==
    /\ sleeping' = {[p |-> e.p, ticks |-> e.ticks - 1] :
                      e \in {s \in sleeping : s.ticks > 1}}
    /\ st' = unblock_processes(st, Due)
    /\ UNCHANGED <<table, pid, ppid, foreground>>

(* Ticks are 55 ms apart: the few instructions of init that hold the       *)
(* superlock see at most two of them (bound).                              *)
Tick ==
    /\ kernel = "run"
    /\ superlock = "LOCKED" => quantum[current] >= 0
    /\ timer_handler
    /\ next_process(quantum)
    /\ UNCHANGED <<reading, boot>>

KeyPress ==
    /\ kernel = "run"
    /\ st[foreground] = "BLOCKED_READ"
    /\ st' = unblock_processes(st, {foreground})
    /\ UNCHANGED <<table, pid, ppid, foreground, ring, sleeping, boot, reading>>

EscapeKey ==
    /\ kernel = "run"
    /\ set_foreground_force_process(get_process_by_pid(ppid[foreground]))
    /\ UNCHANGED <<table, pid, ppid, ring, sleeping, boot, reading>>

-----------------------------------------------------------------------------
Dispatch == SkipBlocked \/ ReapDeleted \/ Resume

InitSteps ==
    \/ \E p \in Proc : BootCreate(p)
    \/ BootLock \/ BootLink \/ BootUnlock \/ BootForeground

Interrupts == Tick \/ KeyPress \/ EscapeKey

SystemCalls ==
    \/ \E p \in Proc : sys_exec(p)
    \/ sys_end
    \/ \E i \in Pid : sys_kill(i) \/ sys_set_foreground(i)
    \/ sys_yield
    \/ \E t \in 1 .. MaxTicks : sys_wait(t)
    \/ ReadInBackground \/ ReadInForeground
    \/ ReadReturns \/ ReadBlocks \/ ReadYields

Next == Dispatch \/ InitSteps \/ Interrupts \/ SystemCalls

Spec == Init /\ [][Next]_vars

(* The loop with interrupts off always goes on, and so does init when it   *)
(* has the processor; the timer interrupt keeps arriving.                  *)
Fairness ==
    /\ WF_vars(Dispatch)
    /\ WF_vars(InitSteps)
    /\ WF_vars(Tick)

FairSpec == Spec /\ Fairness
-----------------------------------------------------------------------------
(* Properties. *)

TypeOK ==
    /\ table \in [Pid -> Proc \cup {NULL}]
    /\ st \in [Proc -> Status]
    /\ pid \in [Proc -> Pid]
    /\ ppid \in [Proc -> 0 .. MAX_PROCESSES]
    /\ foreground \in Proc /\ current \in Proc /\ prev \in Proc
    /\ next \in [Proc -> Proc]
    /\ quantum \in [Proc -> Int]
    /\ superlock \in {"LOCKED", "UNLOCKED"}
    /\ sleeping \subseteq [p : Proc, ticks : 1 .. MaxTicks]
    /\ reading \in [Proc -> {"user", "loop", "yield"}]
    /\ kernel \in {"run", "next_process", "end_process"}
    /\ boot \in {"exec", "lock", "link", "unlock", "foreground", "hlt"}

(* A set R of nodes linked by nx is one cycle: nx permutes R, and whatever *)
(* part of R is closed under nx holds init.                                *)
OneCycle(R, nx) ==
    /\ \A p \in R : nx[p] \in R
    /\ \A p, q \in R : nx[p] = nx[q] => p = q
    /\ \A S \in SUBSET R : S # {} /\ (\A p \in S : nx[p] \in S) => InitProc \in S

(* The ring that next_process, end_process, set_next_current and           *)
(* add_process edit stays one cycle through exactly the processes of the   *)
(* table: none is lost, repeated, or left in the ring after its pages were *)
(* returned (processManager.c:44-150).                                     *)
RingIsOneCycle == OneCycle(InRing, next)

(* prev, through which end_process and set_next_current unlink current, is *)
(* its predecessor.  The exception is init before its second turn: there   *)
(* add_process has made prev stale, and init never ends nor is deleted.    *)
PrevPrecedesCurrent ==
    /\ {prev, current} \subseteq InRing
    /\ next[prev] = current \/ (prev = InitProc /\ current = InitProc)

(* User code never runs on a control block that was destroyed or that      *)
(* waits for something, except between sys_read's block_read_process and   *)
(* its yield, where interrupts are on (systemCalls.c:132-134).             *)
RunnerMayRun ==
    kernel = "run" /\ st[current] \in Blocked => reading[current] = "yield"

(* init stays in the table, ready and never reading: it is what lets the   *)
(* loop of set_next_current end when every other process waits.            *)
InitIsReady ==
    table[0] = InitProc /\ st[InitProc] = "READY" /\ reading[InitProc] = "user"

(* Nobody sleeps without an entry that will wake it (timer.c:20-66), even  *)
(* when the pages of killed sleepers are reused.                           *)
SleeperWillWake ==
    \A p \in Live : st[p] = "BLOCKED" => \E e \in sleeping : e.p = p

(* Whoever owns the keyboard is not parked waiting to own it: every way to *)
(* become the foreground process also unblocks (process.c:316-336).        *)
ForegroundIsNotParked ==
    foreground \in Live => st[foreground] # "BLOCKED_FOREGROUND"

(* After boot init never has the keyboard again, whoever ends, is killed   *)
(* or presses escape: nobody would read it.                                *)
InitLeavesForeground == boot = "hlt" => foreground # InitProc

(* However the quantum is moved around by yields, sleeps and ends, a       *)
(* process comes to its turn with at least one tick (processManager.c:44). *)
QuantumIsPositive == \A p \in InRing \ {InitProc} : quantum[p] >= 1

(* Entry i of the table holds the process with pid i, and every process    *)
(* but init has its parent's.                                              *)
TableAgrees ==
    /\ \A i \in Pid : table[i] # NULL => pid[table[i]] = i
    /\ \A p \in Live \ {InitProc} : ppid[p] \in Pid

(* What init's call of sys_exec, with interrupts on, leaves true between   *)
(* its statements: while the shell is not linked the ring is init alone,   *)
(* and only between set_superlock and unset_superlock is the superlock     *)
(* seen taken by a tick.                                                   *)
BootOrder ==
    /\ boot \in {"exec", "lock", "link", "unlock"} => current = InitProc /\ prev = InitProc
    /\ boot \in {"link", "unlock"} => kernel = "run" /\ superlock = "LOCKED"
    /\ kernel = "run" /\ boot \notin {"link", "unlock"} => superlock = "UNLOCKED"
    /\ boot = "exec" => Live = {InitProc}
    /\ boot \in {"lock", "link"} => Live = {InitProc, table[1]}
    /\ boot # "exec" => table[1] \in Proc \ {InitProc} /\ st[table[1]] # "DELETE"

(* The inductive invariant.                                                *)
IInv ==
    /\ TypeOK /\ TableAgrees /\ BootOrder
    /\ InitIsReady /\ RingIsOneCycle /\ PrevPrecedesCurrent /\ RunnerMayRun
    /\ SleeperWillWake /\ ForegroundIsNotParked /\ InitLeavesForeground
    /\ QuantumIsPositive

(* A killed process that is not running keeps its mark until the scheduler *)
(* removes it: no tick, key, foreground change or wake-up revives it.      *)
KilledStaysKilled ==
    [][\A p \in Proc : p \in Live /\ st[p] = "DELETE" /\ p # current
            => st'[p] = "DELETE"]_vars

(* kill_process marks a process so that the scheduler takes it off its     *)
(* structure (process.c:254): the mark is never lost.                      *)
KillIsFinal ==
    [][\A p \in Proc : p \in Live /\ st[p] = "DELETE" => st'[p] = "DELETE"]_vars

(* sleep puts the process in a list with the ticks left until it wakes     *)
(* (timer.c:47): who is woken has no ticks left to wait.                   *)
WokenWhenDue ==
    [][\A p \in Live : st[p] = "BLOCKED" /\ st'[p] = "READY"
            => ~\E e \in sleeping' : e.p = p]_vars

(* "Para devolver el foreground a la Shell, mientras hay un proceso         *)
(* corriendo que lo posee, se puede hacer uso de la tecla ESC" (the report,*)
(* p. 8): as it passes the keyboard to the parent (keyboardDriver.c:31),   *)
(* the chain of parents of the foreground process leads to the shell.      *)
EscapeReachesTheShell ==
    boot = "hlt" => \A S \in SUBSET Live :
        /\ foreground \in S
        /\ \A p \in S : get_process_by_pid(ppid[p]) \in S \cup {NULL}
        => table[1] \in S

(* With interrupts off nothing but the loop of set_next_current itself can *)
(* end it: it always finds a process to run.                               *)
DispatchEnds == kernel # "run" ~> kernel = "run"

(* Round robin: a ready process gets the processor, provided processes     *)
(* stop being created - a new one is put right after its creator, ahead of *)
(* everyone who waits for a turn.                                          *)
ReadyRuns ==
    (<>[][~\E p \in Proc : sys_exec(p)]_vars)
      => \A p \in Proc : (p \in InRing /\ st[p] = "READY")
            ~> (st[p] # "READY" \/ (current = p /\ kernel = "run"))
=============================================================================
