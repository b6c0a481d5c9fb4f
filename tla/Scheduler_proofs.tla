-------------------------- MODULE Scheduler_proofs --------------------------
(***************************************************************************)
(* The inductive invariant IInv of Scheduler, proved for any number of     *)
(* pages, of table entries, of ticks and any quantum, and from it that     *)
(* Scheduler implements Processes for programs that do not kill themselves.*)
(***************************************************************************)
EXTENDS SchedulerProcesses, TLAPS

(* Linking a new node after c keeps a cycle (add_process).                 *)
LEMMA InsertKeepsCycle ==
    ASSUME NEW R, NEW nx, NEW nx2, NEW c, NEW n,
           OneCycle(R, nx), c \in R, n \notin R,
           \A p \in R \ {c} : nx2[p] = nx[p],
           nx2[c] = n, nx2[n] = nx[c]
    PROVE  OneCycle(R \cup {n}, nx2)
<1>1. \A p \in R \cup {n} : nx2[p] \in R \cup {n}
  BY DEF OneCycle
<1>2. \A p, q \in R \cup {n} : nx2[p] = nx2[q] => p = q
  BY DEF OneCycle
<1>3. ASSUME NEW S \in SUBSET (R \cup {n}), S # {}, \A p \in S : nx2[p] \in S
      PROVE  InitProc \in S
  <2> DEFINE T == S \ {n}
  <2>1. T \in SUBSET R
    OBVIOUS
  <2>2. T # {}
    BY <1>3 DEF OneCycle
  <2>3. \A p \in T : nx[p] \in T
    BY <1>3 DEF OneCycle
  <2> QED
    BY <2>1, <2>2, <2>3 DEF OneCycle
<1> QED
  BY <1>1, <1>2, <1>3 DEF OneCycle

(* Unlinking the node c through its predecessor keeps a cycle, as long as  *)
(* c is not init (end_process, set_next_current).                          *)
LEMMA RemoveKeepsCycle ==
    ASSUME NEW R, NEW nx, NEW nx2, NEW b, NEW c,
           OneCycle(R, nx), b \in R, c \in R, c # InitProc, nx[b] = c,
           \A p \in R \ {b} : nx2[p] = nx[p],
           nx2[b] = nx[c]
    PROVE  /\ OneCycle(R \ {c}, nx2)
           /\ b # c
           /\ nx[c] \in R \ {c}
<1>1. b # c
  <2>1. SUFFICES ASSUME b = c PROVE FALSE
    OBVIOUS
  <2>2. {c} \in SUBSET R /\ {c} # {} /\ \A p \in {c} : nx[p] \in {c}
    BY <2>1
  <2> QED
    BY <2>2 DEF OneCycle
<1>2. nx[c] \in R \ {c}
  BY <1>1 DEF OneCycle
<1>3. \A p \in R \ {c} : nx2[p] \in R \ {c}
  BY <1>1, <1>2 DEF OneCycle
<1>4. \A p, q \in R \ {c} : nx2[p] = nx2[q] => p = q
  BY <1>1 DEF OneCycle
<1>5. ASSUME NEW S \in SUBSET (R \ {c}), S # {}, \A p \in S : nx2[p] \in S
      PROVE  InitProc \in S
  <2>1. CASE b \in S
    <3> DEFINE T == S \cup {c}
    <3>1. T \in SUBSET R /\ T # {}
      BY <1>5
    <3>2. \A p \in T : nx[p] \in T
      BY <1>1, <1>5, <2>1
    <3> QED
      BY <3>1, <3>2 DEF OneCycle
  <2>2. CASE b \notin S
    <3>1. S \in SUBSET R /\ \A p \in S : nx[p] \in S
      BY <1>5, <2>2
    <3> QED
      BY <3>1, <1>5 DEF OneCycle
  <2> QED
    BY <2>1, <2>2
<1> QED
  BY <1>1, <1>2, <1>3, <1>4, <1>5 DEF OneCycle

-----------------------------------------------------------------------------
(* What the helpers shared by several actions change. *)

(* Giving the keyboard to a process of the table.                          *)
LEMMA ForegroundEffect ==
    ASSUME TypeOK, NEW p \in Proc \cup {NULL}, set_foreground_force_process(p)
    PROVE  /\ st' \in [Proc -> Status]
           /\ foreground' \in Proc
           /\ \A q \in Proc : st'[q] = st[q] \/ (st[q] = "BLOCKED_FOREGROUND" /\ st'[q] = "READY")
           /\ foreground' = foreground
                \/ (foreground' = p /\ pid[p] # 0 /\ st'[p] # "BLOCKED_FOREGROUND")
           /\ p # NULL /\ pid[p] # 0 => foreground' = p
BY ProcAssumption DEF TypeOK, set_foreground_force_process, Status, Blocked

(* Removing a process other than init from the table.                      *)
LEMMA DestroyEffect ==
    ASSUME TypeOK, TableAgrees, table[0] = InitProc,
           NEW p \in Live \ {InitProc}, destroy_process(p)
    PROVE  /\ table' \in [Pid -> Proc \cup {NULL}]
           /\ Live' = Live \ {p}
           /\ \A i \in Pid : table'[i] = IF i = pid[p] THEN NULL ELSE table[i]
           /\ pid[p] # 0
           /\ st' \in [Proc -> Status]
           /\ foreground' \in Proc
           /\ \A q \in Proc : st'[q] = st[q] \/ (st[q] = "BLOCKED_FOREGROUND" /\ st'[q] = "READY")
           /\ foreground' = foreground
                \/ (pid[foreground'] # 0 /\ st'[foreground'] # "BLOCKED_FOREGROUND")
           /\ pid' = pid /\ ppid' = ppid
<1>1. p \in Proc /\ table[pid[p]] = p /\ pid[p] \in Pid /\ ppid[p] \in Pid
  BY ProcAssumption DEF Live, TableAgrees, TypeOK
<1>2. pid[p] # 0
  BY <1>1
<1>3. /\ table' \in [Pid -> Proc \cup {NULL}]
      /\ \A i \in Pid : table'[i] = IF i = pid[p] THEN NULL ELSE table[i]
      /\ pid' = pid /\ ppid' = ppid
  BY <1>1 DEF destroy_process, TypeOK
<1>4. Live' = Live \ {p}
  <2>1. ASSUME NEW q \in Proc, q # p
        PROVE  q \in Live' <=> q \in Live
    BY <1>1, <1>3, <2>1, ProcAssumption DEF Live, TableAgrees
  <2>2. p \notin Live'
    BY <1>1, <1>3, ProcAssumption DEF Live, TableAgrees
  <2> QED
    BY <2>1, <2>2 DEF Live
<1>5. \/ UNCHANGED <<foreground, st>>
      \/ set_foreground_force_process(table[ppid[p]])
  BY DEF destroy_process, set_foreground_process
<1>6. table[ppid[p]] \in Proc \cup {NULL}
  BY <1>1 DEF TypeOK
<1>7. CASE UNCHANGED <<foreground, st>>
  BY <1>2, <1>3, <1>4, <1>7 DEF TypeOK
<1>8. CASE set_foreground_force_process(table[ppid[p]])
  BY <1>2, <1>3, <1>4, <1>6, <1>8, ForegroundEffect
<1> QED
  BY <1>5, <1>7, <1>8

(* Adding a process to the table.                                          *)
LEMMA CreateEffect ==
    ASSUME TypeOK, TableAgrees, current \in Live, NEW p \in Proc, create_process(p)
    PROVE  /\ p \notin Live /\ Live' = Live \cup {p}
           /\ table' \in [Pid -> Proc \cup {NULL}]
           /\ \A i \in Pid : table[i] # NULL => table'[i] = table[i]
           /\ TableAgrees'
           /\ pid' \in [Proc -> Pid] /\ ppid' \in [Proc -> 0 .. MAX_PROCESSES]
           /\ st' = [st EXCEPT ![p] = "READY"]
           /\ reading' = [reading EXCEPT ![p] = "user"]
           /\ \A q \in Live : pid'[q] = pid[q]
           /\ foreground' = foreground
<1>1. PICK i \in Pid : /\ table[i] = NULL
                       /\ table' = [table EXCEPT ![i] = p]
                       /\ pid' = [pid EXCEPT ![p] = i]
                       /\ ppid' = [ppid EXCEPT ![p] = pid[current]]
  BY DEF create_process, FirstFreePid
<1>2. p \notin Live /\ pid[current] \in Pid /\ pid[current] \in 0 .. MAX_PROCESSES
  BY BoundAssumption DEF create_process, TypeOK, Live, Pid
<1>3. /\ table' \in [Pid -> Proc \cup {NULL}]
      /\ \A j \in Pid : table'[j] = IF j = i THEN p ELSE table[j]
      /\ \A q \in Proc : pid'[q] = IF q = p THEN i ELSE pid[q]
      /\ \A q \in Proc : ppid'[q] = IF q = p THEN pid[current] ELSE ppid[q]
      /\ pid' \in [Proc -> Pid] /\ ppid' \in [Proc -> 0 .. MAX_PROCESSES]
  BY <1>1, <1>2 DEF TypeOK
<1>4. Live' = Live \cup {p}
  BY <1>1, <1>3, ProcAssumption DEF Live
<1>5. TableAgrees'
  <2>1. ASSUME NEW j \in Pid, table'[j] # NULL
        PROVE  pid'[table'[j]] = j
    <3>1. CASE j = i
      BY <1>3, <3>1
    <3>2. CASE j # i
      <4>1. table'[j] = table[j] /\ table[j] \in Proc
        BY <1>3, <2>1, <3>2 DEF TypeOK
      <4>2. table[j] # p
        BY <1>2, <4>1 DEF Live
      <4> QED
        BY <1>3, <2>1, <4>1, <4>2 DEF TableAgrees
    <3> QED
      BY <3>1, <3>2
  <2>2. ASSUME NEW q \in Live' \ {InitProc}
        PROVE  ppid'[q] \in Pid
    BY <1>2, <1>3, <1>4 DEF TableAgrees, Live
  <2> QED
    BY <2>1, <2>2 DEF TableAgrees
<1> QED
  BY <1>1, <1>2, <1>3, <1>4, <1>5 DEF create_process, Live

(* What next_process leaves true, when the table does not change and q is  *)
(* a quantum assignment in which only current may have run out.            *)
LEMMA NextProcessKeeps ==
    ASSUME IInv, kernel = "run",
           NEW q \in [Proc -> Int], \A p \in InRing \ {InitProc, current} : q[p] >= 1,
           next_process(q),
           UNCHANGED <<table, pid, ppid, boot>>,
           \A p \in Proc : st[p] # "DELETE" => st'[p] # "DELETE"
    PROVE  /\ {current', prev'} \subseteq Proc /\ next' \in [Proc -> Proc]
           /\ quantum' \in [Proc -> Int] /\ superlock' \in {"LOCKED", "UNLOCKED"}
           /\ kernel' \in {"run", "next_process", "end_process"}
           /\ Live' = Live /\ TableAgrees' /\ BootOrder'
           /\ RingIsOneCycle' /\ PrevPrecedesCurrent' /\ QuantumIsPositive'
           /\ kernel' = "run" =>
                 current' = current /\ (current # InitProc => q[current] > 1)
<1> USE DEF IInv
<1>1. Live' = Live /\ InRing' = InRing /\ TableAgrees'
  BY DEF Live, InRing, TableAgrees
<1>2. CASE Keeps(q)
  <2>1. /\ quantum' = [q EXCEPT ![current] = @ - 1]
        /\ UNCHANGED <<current, prev, next, superlock, kernel>>
    BY <1>2 DEF next_process
  <2>2. current # InitProc => q[current] > 1
    BY <1>2 DEF Keeps, BootOrder, TypeOK
  <2>3. QuantumIsPositive'
    BY <1>1, <2>1, <2>2 DEF QuantumIsPositive, TypeOK, InRing, Live
  <2>4. BootOrder'
    BY <1>1, <2>1 DEF BootOrder
  <2>5. RingIsOneCycle' /\ PrevPrecedesCurrent'
    BY <1>1, <2>1 DEF RingIsOneCycle, PrevPrecedesCurrent, OneCycle
  <2> QED
    BY <1>1, <2>1, <2>2, <2>3, <2>4, <2>5 DEF TypeOK
<1>3. CASE ~Keeps(q)
  <2>1. /\ quantum' = [q EXCEPT ![current] = QUANTUM]
        /\ prev' = current /\ current' = next[current]
        /\ superlock' = "LOCKED" /\ kernel' = "next_process" /\ next' = next
    BY <1>3 DEF next_process
  <2>2. current \in InRing /\ next[current] \in InRing /\ InRing \subseteq Proc
    BY DEF PrevPrecedesCurrent, RingIsOneCycle, OneCycle, InRing, Live
  <2>3. QuantumIsPositive'
    BY <1>1, <2>1, <2>2 DEF QuantumIsPositive, TypeOK, QUANTUM
  <2>4. boot \notin {"link", "unlock"}
    BY <1>3 DEF Keeps, BootOrder
  <2>5. boot \in {"exec", "lock"} => InRing = {InitProc}
    BY DEF BootOrder, InRing, PrevPrecedesCurrent
  <2>6. BootOrder'
    BY <1>1, <2>1, <2>2, <2>4, <2>5 DEF BootOrder
  <2>7. RingIsOneCycle' /\ PrevPrecedesCurrent'
    BY <1>1, <2>1, <2>2 DEF RingIsOneCycle, PrevPrecedesCurrent, OneCycle
  <2> QED
    BY <1>1, <2>1, <2>2, <2>3, <2>6, <2>7 DEF TypeOK, QUANTUM
<1> QED
  BY <1>2, <1>3

(* yield_process always gives the processor up: it leaves current without  *)
(* quantum, and no process but init runs with the superlock taken.         *)
LEMMA YieldKeeps ==
    ASSUME IInv, kernel = "run", current # InitProc, yield_process,
           UNCHANGED <<table, pid, ppid, boot>>,
           \A p \in Proc : st[p] # "DELETE" => st'[p] # "DELETE"
    PROVE  /\ {current', prev'} \subseteq Proc /\ next' \in [Proc -> Proc]
           /\ quantum' \in [Proc -> Int] /\ superlock' \in {"LOCKED", "UNLOCKED"}
           /\ kernel' \in {"next_process", "end_process"}
           /\ Live' = Live /\ TableAgrees' /\ BootOrder'
           /\ RingIsOneCycle' /\ PrevPrecedesCurrent' /\ QuantumIsPositive'
<1> USE DEF IInv
<1> DEFINE q == [quantum EXCEPT ![next[current]] = @ + 1, ![current] = 0]
<1>1. q \in [Proc -> Int] /\ q[current] = 0
  BY DEF TypeOK
<1>2. \A p \in InRing \ {InitProc, current} : q[p] >= 1
  BY DEF QuantumIsPositive, InRing, Live, TypeOK
<1>3. next_process(q)
  BY DEF yield_process
<1> HIDE DEF q
<1>4. /\ {current', prev'} \subseteq Proc /\ next' \in [Proc -> Proc]
      /\ quantum' \in [Proc -> Int] /\ superlock' \in {"LOCKED", "UNLOCKED"}
      /\ kernel' \in {"run", "next_process", "end_process"}
      /\ Live' = Live /\ TableAgrees' /\ BootOrder'
      /\ RingIsOneCycle' /\ PrevPrecedesCurrent' /\ QuantumIsPositive'
      /\ kernel' = "run" =>
            current' = current /\ (current # InitProc => q[current] > 1)
  BY <1>1, <1>2, <1>3, NextProcessKeeps
<1> QED
  BY <1>1, <1>4

(* A step that touches neither the table, nor the ring, nor the list of    *)
(* sleepers, and deletes neither init nor the shell, can disturb only the  *)
(* three properties that speak of statuses.                                *)
LEMMA StatusFrame ==
    ASSUME IInv,
           UNCHANGED <<table, pid, ppid, ring, sleeping>>,
           boot' = boot \/ (boot = "foreground" /\ boot' = "hlt"),
           st' \in [Proc -> Status], foreground' \in Proc,
           reading' \in [Proc -> {"user", "loop", "yield"}],
           st'[InitProc] = "READY", reading'[InitProc] = "user",
           boot # "exec" => st'[table[1]] # "DELETE",
           boot' = "hlt" => foreground' # InitProc,
           RunnerMayRun', SleeperWillWake', ForegroundIsNotParked'
    PROVE  IInv'
<1> USE DEF IInv, ring
<1>1. Live' = Live /\ InRing' = InRing
  BY DEF Live, InRing
<1>2. TypeOK'
  BY DEF TypeOK
<1>3. TableAgrees' /\ InitIsReady' /\ InitLeavesForeground' /\ QuantumIsPositive'
  BY <1>1 DEF TableAgrees, InitIsReady, InitLeavesForeground, QuantumIsPositive
<1>4. RingIsOneCycle' /\ PrevPrecedesCurrent'
  BY <1>1 DEF RingIsOneCycle, PrevPrecedesCurrent, OneCycle
<1>5. BootOrder'
  BY <1>1 DEF BootOrder
<1> QED
  BY <1>2, <1>3, <1>4, <1>5

-----------------------------------------------------------------------------
(* The steps that change statuses, the foreground or a read's position.    *)

(* Giving the keyboard to a process of the table that is not init keeps the*)
(* invariant: the new owner is also unblocked                              *)
(* (set_foreground_force_process, process.c:321-331).                      *)
LEMMA ForegroundStep ==
    ASSUME IInv, NEW p \in Proc \cup {NULL}, set_foreground_force_process(p),
           UNCHANGED <<table, pid, ppid, ring, sleeping, reading, boot>>
    PROVE  IInv'
<1> USE DEF IInv
<1>1. /\ st' \in [Proc -> Status]
      /\ foreground' \in Proc
      /\ \A q \in Proc : st'[q] = st[q] \/ (st[q] = "BLOCKED_FOREGROUND" /\ st'[q] = "READY")
      /\ foreground' = foreground
           \/ (foreground' = p /\ pid[p] # 0 /\ st'[p] # "BLOCKED_FOREGROUND")
  BY ForegroundEffect
<1>2. Live' = Live /\ pid[InitProc] = 0
  BY ProcAssumption, BoundAssumption DEF Live, InitIsReady, TableAgrees, Pid
<1>3. st'[InitProc] = "READY" /\ reading'[InitProc] = "user" /\ (boot # "exec" => st'[table[1]] # "DELETE")
  BY <1>1, ProcAssumption DEF InitIsReady, BootOrder
<1>4. boot = "hlt" => foreground' # InitProc
  BY <1>1, <1>2 DEF InitLeavesForeground
<1>5. RunnerMayRun' /\ SleeperWillWake' /\ ForegroundIsNotParked'
  BY <1>1, <1>2 DEF RunnerMayRun, SleeperWillWake, ForegroundIsNotParked, ring, TypeOK, Blocked, Live
<1> QED
  BY <1>1, <1>3, <1>4, <1>5, StatusFrame DEF TypeOK

(* The escape key gives the keyboard to the foreground's parent, or to     *)
(* nobody, and keeps the invariant (keyboardDriver.c:30-33).               *)
LEMMA EscapeKeyKeeps == IInv /\ EscapeKey => IInv'
<1> SUFFICES ASSUME IInv, EscapeKey PROVE IInv'
  OBVIOUS
<1>1. get_process_by_pid(ppid[foreground]) \in Proc \cup {NULL}
  BY DEF get_process_by_pid, IInv, TypeOK
<1> QED
  BY <1>1, ForegroundStep DEF EscapeKey

(* sys_set_foreground keeps the invariant: only the foreground process     *)
(* passes the keyboard on (systemCalls.c:282-291).                         *)
LEMMA SetForegroundKeeps ==
    ASSUME IInv, NEW i \in Pid, sys_set_foreground(i) PROVE IInv'
<1>1. table[i] \in Proc \cup {NULL}
  BY DEF IInv, TypeOK
<1>2. CASE set_foreground_force_process(table[i])
  BY <1>1, <1>2, ForegroundStep DEF sys_set_foreground
<1>3. CASE UNCHANGED <<foreground, st>>
  <2>1. IInv'
    BY <1>3, StatusFrame DEF sys_set_foreground, IInv, TypeOK, InitIsReady, BootOrder,
       InitLeavesForeground, RunnerMayRun, SleeperWillWake, ForegroundIsNotParked, ring, Live
  <2> QED
    BY <2>1
<1> QED
  BY <1>2, <1>3 DEF sys_set_foreground, set_foreground_process

(* sys_kill marks any process but init and the shell, and keeps the        *)
(* invariant: a marked sleeper is no longer BLOCKED                        *)
(* (systemCalls.c:293-302).                                                *)
LEMMA KillKeeps ==
    ASSUME IInv, NEW i \in Pid, sys_kill(i) PROVE IInv'
<1> USE DEF IInv
<1>1. table[i] \in Proc /\ pid[table[i]] = i /\ i # 0 /\ i # 1
  BY DEF sys_kill, get_process_by_pid, TypeOK, TableAgrees, Protected
<1>2. st' = [st EXCEPT ![table[i]] = "DELETE"] /\ st' \in [Proc -> Status]
  BY <1>1 DEF sys_kill, TypeOK, Status
<1>3. table[i] # InitProc /\ pid[InitProc] = 0
  BY <1>1, ProcAssumption, BoundAssumption DEF InitIsReady, TableAgrees, Pid
<1>4. boot # "exec" => table[i] # table[1]
  BY <1>1, BoundAssumption, ProcAssumption DEF BootOrder, TableAgrees, Pid
<1>5. Live' = Live
  BY DEF sys_kill, Live
<1>6. RunnerMayRun' /\ SleeperWillWake' /\ ForegroundIsNotParked'
  BY <1>1, <1>2, <1>5 DEF sys_kill, ring, RunnerMayRun, SleeperWillWake, ForegroundIsNotParked,
     TypeOK, Blocked, Live
<1>7. st'[InitProc] = "READY" /\ reading'[InitProc] = "user" /\ (boot # "exec" => st'[table[1]] # "DELETE")
  BY <1>2, <1>3, <1>4, ProcAssumption DEF sys_kill, InitIsReady, BootOrder, TypeOK
<1> QED
  BY <1>2, <1>6, <1>7, StatusFrame DEF sys_kill, TypeOK, InitLeavesForeground

(* A key unblocks the foreground process and keeps the invariant           *)
(* (keyboardDriver.c:35-40).                                               *)
LEMMA KeyPressKeeps == IInv /\ KeyPress => IInv'
<1> SUFFICES ASSUME IInv, KeyPress PROVE IInv'
  OBVIOUS
<1> USE DEF IInv
<1>1. /\ st' \in [Proc -> Status]
      /\ \A p \in Proc : st'[p] = st[p] \/ (st[p] # "DELETE" /\ st'[p] = "READY")
  BY DEF KeyPress, unblock_processes, TypeOK, Status
<1>2. Live' = Live
  BY DEF KeyPress, Live
<1>3. RunnerMayRun' /\ SleeperWillWake' /\ ForegroundIsNotParked'
  <2>1. /\ UNCHANGED <<foreground, ring, sleeping, reading>>
        /\ {foreground, current} \subseteq Proc /\ Live \subseteq Proc
    BY DEF KeyPress, TypeOK, Live
  <2> QED
    BY <1>1, <1>2, <2>1 DEF ring, RunnerMayRun, SleeperWillWake, ForegroundIsNotParked, Blocked
<1>4. st'[InitProc] = "READY" /\ reading'[InitProc] = "user" /\ (boot # "exec" => st'[table[1]] # "DELETE")
  BY <1>1, ProcAssumption DEF KeyPress, InitIsReady, BootOrder
<1> QED
  BY <1>1, <1>3, <1>4, StatusFrame DEF KeyPress, TypeOK, InitLeavesForeground

(* The steps of sys_read that do not give up the processor.                *)
LEMMA ReadStepKeeps == IInv /\ (ReadInForeground \/ ReadReturns \/ ReadBlocks) => IInv'
<1> SUFFICES ASSUME IInv, ReadInForeground \/ ReadReturns \/ ReadBlocks PROVE IInv'
  OBVIOUS
<1> USE DEF IInv
<1>1. CASE ReadInForeground \/ ReadReturns
  <2>1. /\ UNCHANGED <<pcb, ring, sleeping, boot>>
        /\ reading' \in [Proc -> {"user", "loop", "yield"}]
        /\ reading'[InitProc] = "user"
        /\ kernel = "run" /\ st[current] \notin Blocked
    BY <1>1, ProcAssumption DEF ReadInForeground, ReadReturns, InReadLoop, InUser, TypeOK,
       RunnerMayRun, InitIsReady
  <2>2. RunnerMayRun' /\ SleeperWillWake' /\ ForegroundIsNotParked'
    BY <2>1 DEF pcb, ring, RunnerMayRun, SleeperWillWake, ForegroundIsNotParked, Live
  <2> QED
    BY <2>1, <2>2, StatusFrame DEF pcb, TypeOK, InitIsReady, BootOrder, InitLeavesForeground
<1>2. CASE ReadBlocks
  <2>1. /\ st' = [st EXCEPT ![current] = "BLOCKED_READ"]
        /\ st' \in [Proc -> Status]
        /\ reading' = [reading EXCEPT ![current] = "yield"]
        /\ reading' \in [Proc -> {"user", "loop", "yield"}]
        /\ UNCHANGED <<table, pid, ppid, foreground, ring, sleeping, boot>>
        /\ current # InitProc
    BY <1>2 DEF ReadBlocks, InReadLoop, TypeOK, Status, Blocked, InitIsReady
  <2>2. st'[InitProc] = "READY" /\ reading'[InitProc] = "user"
    BY <2>1, ProcAssumption DEF InitIsReady, TypeOK
  <2>3. boot # "exec" => st'[table[1]] # "DELETE"
    BY <2>1 DEF BootOrder, TypeOK
  <2>4. RunnerMayRun' /\ SleeperWillWake' /\ ForegroundIsNotParked'
    BY <2>1 DEF ring, RunnerMayRun, SleeperWillWake, ForegroundIsNotParked, Live, TypeOK
  <2> QED
    BY <2>1, <2>2, <2>3, <2>4, StatusFrame DEF TypeOK, InitLeavesForeground
<1> QED
  BY <1>1, <1>2

-----------------------------------------------------------------------------
(* The steps that end in yield_process, and the timer tick.                *)

(* A step that ends in yield_process and changes only statuses, read       *)
(* positions and the list of sleepers keeps the invariant, when it keeps   *)
(* the parts that speak of these (processManager.c:106-110).               *)
LEMMA YieldFrame ==
    ASSUME IInv, kernel = "run", current # InitProc, yield_process,
           UNCHANGED <<table, pid, ppid, foreground, boot>>,
           st' \in [Proc -> Status], st'[InitProc] = "READY",
           \A p \in Proc : st[p] # "DELETE" => st'[p] # "DELETE",
           reading' \in [Proc -> {"user", "loop", "yield"}], reading'[InitProc] = "user",
           sleeping' \subseteq [p : Proc, ticks : 1 .. MaxTicks],
           SleeperWillWake', ForegroundIsNotParked'
    PROVE  IInv'
<1>1. /\ {current', prev'} \subseteq Proc /\ next' \in [Proc -> Proc]
      /\ quantum' \in [Proc -> Int] /\ superlock' \in {"LOCKED", "UNLOCKED"}
      /\ kernel' \in {"next_process", "end_process"}
      /\ Live' = Live /\ TableAgrees' /\ BootOrder'
      /\ RingIsOneCycle' /\ PrevPrecedesCurrent' /\ QuantumIsPositive'
  BY YieldKeeps
<1>2. TypeOK' /\ InitIsReady' /\ InitLeavesForeground' /\ RunnerMayRun'
  BY <1>1 DEF IInv, TypeOK, InitIsReady, InitLeavesForeground, RunnerMayRun
<1> QED
  BY <1>1, <1>2 DEF IInv

(* sys_yield and the yield inside sys_read keep the invariant              *)
(* (systemCalls.c:134, 253-256).                                           *)
LEMMA YieldStepKeeps == IInv /\ (sys_yield \/ ReadYields) => IInv'
<1> SUFFICES ASSUME IInv, sys_yield \/ ReadYields PROVE IInv'
  OBVIOUS
<1> USE DEF IInv
<1>1. /\ yield_process /\ kernel = "run" /\ current # InitProc
      /\ UNCHANGED <<pcb, sleeping, boot>>
      /\ reading' \in [Proc -> {"user", "loop", "yield"}] /\ reading'[InitProc] = "user"
  BY ProcAssumption DEF sys_yield, ReadYields, InUser, InitIsReady, TypeOK
<1>2. SleeperWillWake' /\ ForegroundIsNotParked'
  BY <1>1 DEF pcb, SleeperWillWake, ForegroundIsNotParked, Live
<1> QED
  BY <1>1, <1>2, YieldFrame DEF pcb, TypeOK, InitIsReady

(* sys_wait keeps the invariant: whoever blocks is in the list of sleepers *)
(* (timer.c:48-66).                                                        *)
LEMMA WaitKeeps ==
    ASSUME IInv, NEW t \in 1 .. MaxTicks, sys_wait(t) PROVE IInv'
<1> USE DEF IInv
<1>1. /\ yield_process /\ kernel = "run" /\ current # InitProc
      /\ sleeping' = sleeping \cup {[p |-> current, ticks |-> t]}
      /\ UNCHANGED <<table, pid, ppid, foreground, boot, reading>>
  BY DEF sys_wait, InUser
<1>2. /\ st' \in [Proc -> Status]
      /\ \A p \in Proc : p # current => st'[p] = st[p]
      /\ st'[current] = IF st[current] = "DELETE" THEN "DELETE" ELSE "BLOCKED"
  BY DEF sys_wait, block_process, TypeOK, Status, Blocked
<1>3. SleeperWillWake'
  <2> SUFFICES ASSUME NEW p \in Live', st'[p] = "BLOCKED"
               PROVE  \E e \in sleeping' : e.p = p
    BY DEF SleeperWillWake
  <2>1. p \in Live /\ p \in Proc
    BY <1>1 DEF Live
  <2>2. CASE p = current
    <3>1. [p |-> current, ticks |-> t] \in sleeping'
      BY <1>1
    <3> QED
      BY <2>2, <3>1
  <2>3. CASE p # current
    BY <1>1, <1>2, <2>1, <2>3 DEF SleeperWillWake
  <2> QED
    BY <2>2, <2>3
<1>4. ForegroundIsNotParked'
  BY <1>1, <1>2 DEF ForegroundIsNotParked, Live, TypeOK
<1> QED
  BY <1>1, <1>2, <1>3, <1>4, YieldFrame, ProcAssumption DEF TypeOK, InitIsReady

(* A read from the background parks a process that is not the foreground,  *)
(* and keeps the invariant (systemCalls.c:122-125).                        *)
LEMMA ReadInBackgroundKeeps == IInv /\ ReadInBackground => IInv'
<1> SUFFICES ASSUME IInv, ReadInBackground PROVE IInv'
  OBVIOUS
<1> USE DEF IInv
<1>1. /\ yield_process /\ kernel = "run" /\ current # InitProc /\ current # foreground
      /\ UNCHANGED <<table, pid, ppid, foreground, boot, sleeping>>
      /\ reading' \in [Proc -> {"user", "loop", "yield"}] /\ reading'[InitProc] = "user"
  BY ProcAssumption DEF ReadInBackground, InUser, TypeOK, InitIsReady
<1>2. /\ st' \in [Proc -> Status]
      /\ \A p \in Proc : p # current => st'[p] = st[p]
      /\ st'[current] = "BLOCKED_FOREGROUND"
  BY DEF ReadInBackground, TypeOK, Status, Blocked
<1>3. SleeperWillWake' /\ ForegroundIsNotParked'
  BY <1>1, <1>2 DEF SleeperWillWake, ForegroundIsNotParked, Live, TypeOK
<1> QED
  BY <1>1, <1>2, <1>3, YieldFrame, ProcAssumption DEF TypeOK, InitIsReady

(* A timer tick keeps the invariant: an entry leaves the list of sleepers  *)
(* only when its process is unblocked (timer.c:20-45).                     *)
LEMMA TickKeeps == IInv /\ Tick => IInv'
<1> SUFFICES ASSUME IInv, Tick PROVE IInv'
  OBVIOUS
<1> USE DEF IInv
<1>1. /\ st' = unblock_processes(st, Due)
      /\ sleeping' = {[p |-> e.p, ticks |-> e.ticks - 1] :
                        e \in {s \in sleeping : s.ticks > 1}}
      /\ UNCHANGED <<table, pid, ppid, foreground, reading, boot>>
      /\ kernel = "run" /\ next_process(quantum)
  BY DEF Tick, timer_handler
<1>2. /\ st' \in [Proc -> Status]
      /\ \A p \in Proc : st'[p] = IF p \in Due /\ st[p] # "DELETE" THEN "READY" ELSE st[p]
  BY <1>1 DEF unblock_processes, TypeOK, Status
<1>3. sleeping' \subseteq [p : Proc, ticks : 1 .. MaxTicks]
  <2> SUFFICES ASSUME NEW e \in sleeping, e.ticks > 1
               PROVE  [p |-> e.p, ticks |-> e.ticks - 1] \in [p : Proc, ticks : 1 .. MaxTicks]
    BY <1>1
  <2>1. e.p \in Proc /\ e.ticks \in 1 .. MaxTicks
    BY DEF TypeOK
  <2> QED
    BY <2>1, BoundAssumption
<1>4. /\ {current', prev'} \subseteq Proc /\ next' \in [Proc -> Proc]
      /\ quantum' \in [Proc -> Int] /\ superlock' \in {"LOCKED", "UNLOCKED"}
      /\ kernel' \in {"run", "next_process", "end_process"}
      /\ Live' = Live /\ TableAgrees' /\ BootOrder'
      /\ RingIsOneCycle' /\ PrevPrecedesCurrent' /\ QuantumIsPositive'
      /\ kernel' = "run" =>
            current' = current /\ (current # InitProc => quantum[current] > 1)
  <2>1. quantum \in [Proc -> Int] /\ \A p \in InRing \ {InitProc, current} : quantum[p] >= 1
    BY DEF TypeOK, QuantumIsPositive
  <2>2. \A p \in Proc : st[p] # "DELETE" => st'[p] # "DELETE"
    BY <1>2
  <2> QED
    BY <1>1, <2>1, <2>2, NextProcessKeeps
<1>5. SleeperWillWake'
  <2> SUFFICES ASSUME NEW p \in Live', st'[p] = "BLOCKED"
               PROVE  \E e \in sleeping' : e.p = p
    BY DEF SleeperWillWake
  <2>1. p \in Live /\ p \in Proc /\ p \notin Due /\ st[p] = "BLOCKED"
    BY <1>2, <1>4 DEF Live
  <2>2. PICK e \in sleeping : e.p = p
    BY <2>1 DEF SleeperWillWake
  <2>3. e.ticks \in 1 .. MaxTicks /\ e.ticks # 1
    BY <2>1, <2>2 DEF TypeOK, Due
  <2>4. [p |-> e.p, ticks |-> e.ticks - 1] \in sleeping'
    BY <1>1, <2>3, BoundAssumption
  <2> QED
    BY <2>2, <2>4
<1>6. ForegroundIsNotParked' /\ InitLeavesForeground' /\ InitIsReady'
  BY <1>1, <1>2, <1>4, ProcAssumption
  DEF ForegroundIsNotParked, InitLeavesForeground, InitIsReady, TypeOK
<1>7. RunnerMayRun'
  BY <1>1, <1>2, <1>4 DEF RunnerMayRun, TypeOK, Blocked
<1>8. TypeOK'
  BY <1>1, <1>2, <1>3, <1>4 DEF TypeOK
<1> QED
  BY <1>4, <1>5, <1>6, <1>7, <1>8

-----------------------------------------------------------------------------
(* The loop of set_next_current, and the end of a process. *)

(* Passing over a blocked node of the ring keeps the invariant             *)
(* (processManager.c:137-148).                                             *)
LEMMA SkipBlockedKeeps == IInv /\ SkipBlocked => IInv'
<1> SUFFICES ASSUME IInv, SkipBlocked PROVE IInv'
  OBVIOUS
<1> USE DEF IInv
<1>1. /\ kernel # "run" /\ st[current] \in Blocked
      /\ prev' = current /\ current' = next[current]
      /\ UNCHANGED <<pcb, next, quantum, superlock, kernel, sleeping, boot, reading>>
  BY DEF SkipBlocked
<1>2. Live' = Live /\ InRing' = InRing
  BY <1>1 DEF Live, InRing, pcb
<1>3. current \in InRing /\ next[current] \in InRing /\ current # InitProc /\ InRing \subseteq Proc
  BY <1>1 DEF PrevPrecedesCurrent, RingIsOneCycle, OneCycle, InitIsReady, InRing, Live, Blocked
<1>4. TypeOK' /\ PrevPrecedesCurrent'
  BY <1>1, <1>2, <1>3 DEF TypeOK, PrevPrecedesCurrent, pcb
<1>5. TableAgrees' /\ InitIsReady' /\ InitLeavesForeground' /\ QuantumIsPositive'
      /\ SleeperWillWake' /\ ForegroundIsNotParked' /\ RunnerMayRun'
  BY <1>1, <1>2 DEF TableAgrees, InitIsReady, InitLeavesForeground, QuantumIsPositive,
     SleeperWillWake, ForegroundIsNotParked, RunnerMayRun, pcb
<1>6. RingIsOneCycle'
  BY <1>1, <1>2 DEF RingIsOneCycle, OneCycle
<1>7. BootOrder'
  BY <1>1, <1>2, <1>3 DEF BootOrder, pcb
<1> QED
  BY <1>4, <1>5, <1>6, <1>7

(* The end of set_next_current keeps the invariant: what runs next is ready*)
(* and has at least a tick (processManager.c:60-67, 127-133).              *)
LEMMA ResumeKeeps == IInv /\ Resume => IInv'
<1> SUFFICES ASSUME IInv, Resume PROVE IInv'
  OBVIOUS
<1> USE DEF IInv
<1>1. /\ kernel # "run" /\ st[current] = "READY"
      /\ superlock' = "UNLOCKED" /\ kernel' = "run"
      /\ quantum' \in [Proc -> Int]
      /\ \A p \in Proc : quantum'[p] >= quantum[p]
      /\ UNCHANGED <<pcb, current, prev, next, sleeping, boot, reading>>
  BY DEF Resume, TypeOK
<1>2. Live' = Live /\ InRing' = InRing /\ InRing \subseteq Proc
  BY <1>1 DEF Live, InRing, pcb
<1>3. TypeOK' /\ TableAgrees' /\ InitIsReady' /\ InitLeavesForeground'
      /\ SleeperWillWake' /\ ForegroundIsNotParked'
  BY <1>1, <1>2 DEF TypeOK, TableAgrees, InitIsReady, InitLeavesForeground,
     SleeperWillWake, ForegroundIsNotParked, pcb
<1>4. QuantumIsPositive'
  BY <1>1, <1>2 DEF QuantumIsPositive, TypeOK
<1>5. RingIsOneCycle' /\ PrevPrecedesCurrent'
  BY <1>1, <1>2 DEF RingIsOneCycle, OneCycle, PrevPrecedesCurrent
<1>6. BootOrder' /\ RunnerMayRun'
  BY <1>1, <1>2 DEF BootOrder, RunnerMayRun, Blocked, pcb
<1> QED
  BY <1>3, <1>4, <1>5, <1>6

(* Destroying current and unlinking its node.                              *)
LEMMA UnlinkKeeps ==
    ASSUME IInv, current # InitProc, pid[current] # 1,
           destroy_process(current),
           next' \in [Proc -> Proc],
           \A p \in Proc \ {prev} : next'[p] = next[p],
           next'[prev] = next[current],
           current' = next[current],
           superlock' = "UNLOCKED",
           kernel' \in {"next_process", "end_process"},
           UNCHANGED <<prev, quantum, sleeping, boot, reading>>
    PROVE  IInv'
<1> USE DEF IInv
<1>1. boot \in {"foreground", "hlt"} /\ InRing = Live /\ current \in Live /\ prev \in Live
      /\ next[prev] = current /\ Live \subseteq Proc
  BY DEF BootOrder, TypeOK, InRing, PrevPrecedesCurrent, Live
<1>2. /\ table' \in [Pid -> Proc \cup {NULL}]
      /\ Live' = Live \ {current}
      /\ \A i \in Pid : table'[i] = IF i = pid[current] THEN NULL ELSE table[i]
      /\ pid[current] # 0
      /\ st' \in [Proc -> Status]
      /\ foreground' \in Proc
      /\ \A q \in Proc : st'[q] = st[q] \/ (st[q] = "BLOCKED_FOREGROUND" /\ st'[q] = "READY")
      /\ foreground' = foreground
           \/ (pid[foreground'] # 0 /\ st'[foreground'] # "BLOCKED_FOREGROUND")
      /\ pid' = pid /\ ppid' = ppid
  BY <1>1, DestroyEffect DEF InitIsReady
<1>3. InRing' = InRing \ {current}
  BY <1>1, <1>2 DEF InRing
<1>4. /\ OneCycle(InRing \ {current}, next')
      /\ prev # current
      /\ next[current] \in InRing \ {current}
  <2>1. /\ \A p \in InRing \ {prev} : next'[p] = next[p]
        /\ next'[prev] = next[current]
    BY <1>1
  <2>2. OneCycle(InRing, next)
    BY DEF RingIsOneCycle
  <2>3. prev \in InRing /\ current \in InRing /\ current # InitProc /\ next[prev] = current
    BY <1>1
  <2> QED
    BY <2>1, <2>2, <2>3, RemoveKeepsCycle
<1>5. RingIsOneCycle' /\ PrevPrecedesCurrent'
  <2>1. RingIsOneCycle'
    BY <1>3, <1>4 DEF RingIsOneCycle, OneCycle
  <2>2. PrevPrecedesCurrent'
    BY <1>1, <1>3, <1>4 DEF PrevPrecedesCurrent, TypeOK
  <2> QED
    BY <2>1, <2>2
<1>6. TypeOK'
  BY <1>1, <1>2, <1>4 DEF TypeOK
<1>7. TableAgrees'
  BY <1>1, <1>2 DEF TableAgrees, Live
<1>8. InitIsReady'
  BY <1>2, BoundAssumption, ProcAssumption DEF InitIsReady, Pid
<1>9. BootOrder'
  BY <1>1, <1>2, BoundAssumption DEF BootOrder, Pid
<1>10. RunnerMayRun' /\ QuantumIsPositive'
  BY <1>1, <1>3 DEF RunnerMayRun, QuantumIsPositive
<1>11. SleeperWillWake' /\ ForegroundIsNotParked'
  <2>1. SleeperWillWake'
    BY <1>1, <1>2 DEF SleeperWillWake
  <2>2. ForegroundIsNotParked'
    <3>1. CASE foreground' = foreground
      <4>1. foreground' \in Live' => foreground \in Live /\ foreground \in Proc
        BY <1>1, <1>2, <3>1
      <4> QED
        BY <1>2, <3>1, <4>1 DEF ForegroundIsNotParked
    <3>2. CASE st'[foreground'] # "BLOCKED_FOREGROUND"
      BY <3>2 DEF ForegroundIsNotParked
    <3> QED
      BY <1>2, <3>1, <3>2
  <2> QED
    BY <2>1, <2>2
<1>12. InitLeavesForeground'
  <2>1. pid[InitProc] = 0
    BY BoundAssumption, ProcAssumption DEF InitIsReady, TableAgrees, Pid
  <2> QED
    BY <1>2, <2>1 DEF InitLeavesForeground
<1> QED
  BY <1>5, <1>6, <1>7, <1>8, <1>9, <1>10, <1>11, <1>12

(* Removing a marked process from the ring and from the table keeps the    *)
(* invariant (processManager.c:140-148).                                   *)
LEMMA ReapDeletedKeeps == IInv /\ ReapDeleted => IInv'
<1> SUFFICES ASSUME IInv, ReapDeleted PROVE IInv'
  OBVIOUS
<1> USE DEF IInv
<1>1. kernel # "run" /\ st[current] = "DELETE" /\ current # InitProc
  BY DEF ReapDeleted, InitIsReady
<1>2. pid[current] # 1
  <2>1. boot # "exec" /\ current \in Live
    BY <1>1 DEF BootOrder, PrevPrecedesCurrent, InRing
  <2>2. table[pid[current]] = current
    BY <2>1, ProcAssumption DEF TableAgrees, Live
  <2> QED
    BY <1>1, <2>1, <2>2 DEF BootOrder
<1>3. kernel' \in {"next_process", "end_process"}
  BY <1>1 DEF ReapDeleted, TypeOK
<1>4. /\ next' \in [Proc -> Proc]
      /\ \A p \in Proc \ {prev} : next'[p] = next[p]
      /\ next'[prev] = next[current]
  BY DEF ReapDeleted, TypeOK
<1> QED
  BY <1>1, <1>2, <1>3, <1>4, UnlinkKeeps DEF ReapDeleted

(* The end of the running process keeps the invariant                      *)
(* (processManager.c:113-134).                                             *)
LEMMA EndKeeps == IInv /\ sys_end => IInv'
<1> SUFFICES ASSUME IInv, sys_end PROVE IInv'
  OBVIOUS
<1>1. current # InitProc /\ pid[current] # 1
  BY DEF sys_end, InUser
<1>2. /\ next' \in [Proc -> Proc]
      /\ \A p \in Proc \ {prev} : next'[p] = next[p]
      /\ next'[prev] = next[current]
  BY DEF sys_end, IInv, TypeOK
<1> QED
  BY <1>1, <1>2, UnlinkKeeps DEF sys_end

-----------------------------------------------------------------------------
(* Creating a process, from the shell or any other program. *)

(* sys_exec keeps the invariant: the new process enters the table and the  *)
(* ring in one step (processManager.c:70-82).                              *)
LEMMA ExecKeeps == ASSUME IInv, NEW p \in Proc, sys_exec(p) PROVE IInv'
<1> USE DEF IInv
<1>1. /\ current # InitProc /\ kernel = "run"
      /\ create_process(p) /\ add_process(p)
      /\ superlock' = "UNLOCKED"
      /\ UNCHANGED <<current, prev, kernel, sleeping, boot>>
  BY DEF sys_exec, InUser
<1>2. boot \in {"foreground", "hlt"} /\ InRing = Live /\ {current, prev} \subseteq Live
      /\ next[prev] = current /\ Live \subseteq Proc
  BY <1>1 DEF BootOrder, TypeOK, InRing, PrevPrecedesCurrent, Live
<1>3. /\ p \notin Live /\ Live' = Live \cup {p}
      /\ table' \in [Pid -> Proc \cup {NULL}]
      /\ \A i \in Pid : table[i] # NULL => table'[i] = table[i]
      /\ TableAgrees'
      /\ pid' \in [Proc -> Pid] /\ ppid' \in [Proc -> 0 .. MAX_PROCESSES]
      /\ st' = [st EXCEPT ![p] = "READY"]
      /\ reading' = [reading EXCEPT ![p] = "user"]
      /\ \A q \in Live : pid'[q] = pid[q]
      /\ foreground' = foreground
  BY <1>1, <1>2, CreateEffect
<1>4. InRing' = InRing \cup {p}
  BY <1>1, <1>2, <1>3 DEF InRing
<1>5. /\ next' \in [Proc -> Proc] /\ quantum' \in [Proc -> Int]
      /\ next'[current] = p /\ next'[p] = next[current]
      /\ \A q \in InRing \ {current} : next'[q] = next[q]
      /\ quantum'[p] = 1 /\ \A q \in Proc \ {p} : quantum'[q] = quantum[q]
  BY <1>1, <1>2, <1>3 DEF add_process, TypeOK, QUANTUM
<1>6. RingIsOneCycle'
  <2>1. OneCycle(InRing, next)
    BY DEF RingIsOneCycle
  <2>2. OneCycle(InRing \cup {p}, next')
    BY <1>2, <1>3, <1>5, <2>1, InsertKeepsCycle
  <2> QED
    BY <1>4, <2>2 DEF RingIsOneCycle, OneCycle
<1>7. PrevPrecedesCurrent'
  <2>1. prev # current
    <3>1. prev = current => /\ {current} \in SUBSET InRing /\ {current} # {}
                            /\ \A q \in {current} : next[q] \in {current}
      BY <1>2
    <3> QED
      BY <1>1, <3>1 DEF RingIsOneCycle, OneCycle
  <2> QED
    BY <1>1, <1>2, <1>4, <1>5, <2>1 DEF PrevPrecedesCurrent
<1>8. TypeOK'
  BY <1>1, <1>3, <1>5 DEF TypeOK, Status
<1>9. InitIsReady'
  <2>1. InitProc \in Live /\ 0 \in Pid
    BY ProcAssumption, BoundAssumption DEF InitIsReady, Live, Pid
  <2> QED
    BY <1>3, <2>1, ProcAssumption DEF InitIsReady, TypeOK
<1>10. RunnerMayRun' /\ QuantumIsPositive'
  BY <1>1, <1>2, <1>3, <1>4, <1>5 DEF RunnerMayRun, QuantumIsPositive, TypeOK
<1>11. SleeperWillWake' /\ ForegroundIsNotParked' /\ InitLeavesForeground'
  BY <1>1, <1>2, <1>3 DEF SleeperWillWake, ForegroundIsNotParked, InitLeavesForeground, TypeOK
<1>12. BootOrder'
  <2>1. 1 \in Pid /\ table[1] \in Live /\ table[1] \in Proc /\ table[1] # NULL
    BY <1>2, BoundAssumption, ProcAssumption DEF BootOrder, Live, Pid
  <2>2. table'[1] = table[1] /\ st'[table[1]] = st[table[1]]
    BY <1>3, <2>1 DEF TypeOK
  <2> QED
    BY <1>1, <1>2, <2>1, <2>2 DEF BootOrder
<1> QED
  BY <1>3, <1>6, <1>7, <1>8, <1>9, <1>10, <1>11, <1>12

-----------------------------------------------------------------------------
(* The statements of init. *)

(* init's creation of the shell, not yet in the ring, keeps the invariant  *)
(* (init.c:20).                                                            *)
LEMMA BootCreateKeeps == ASSUME IInv, NEW p \in Proc, BootCreate(p) PROVE IInv'
<1> USE DEF IInv
<1>1. /\ kernel = "run" /\ boot = "exec" /\ boot' = "lock"
      /\ create_process(p)
      /\ UNCHANGED <<current, prev, next, quantum, superlock, kernel, sleeping>>
      /\ Live = {InitProc} /\ current = InitProc /\ prev = InitProc
      /\ superlock = "UNLOCKED"
  BY DEF BootCreate, InInit, BootOrder, ring
<1>2. /\ p \notin Live /\ Live' = Live \cup {p}
      /\ table' \in [Pid -> Proc \cup {NULL}]
      /\ \A i \in Pid : table[i] # NULL => table'[i] = table[i]
      /\ TableAgrees'
      /\ pid' \in [Proc -> Pid] /\ ppid' \in [Proc -> 0 .. MAX_PROCESSES]
      /\ st' = [st EXCEPT ![p] = "READY"]
      /\ reading' = [reading EXCEPT ![p] = "user"]
      /\ \A q \in Live : pid'[q] = pid[q]
      /\ foreground' = foreground
  BY <1>1, CreateEffect
<1>3. table'[1] = p
  <2>1. 0 \in Pid /\ 1 \in Pid
    BY BoundAssumption DEF Pid
  <2>2. table[1] = NULL
    BY <1>1, <2>1, ProcAssumption DEF TableAgrees, InitIsReady, TypeOK, Live
  <2>3. PICK i \in Pid : /\ FirstFreePid(i)
                         /\ table' = [table EXCEPT ![i] = p]
    BY <1>1 DEF create_process
  <2>4. i = 1
    BY <2>1, <2>2, <2>3, ProcAssumption DEF FirstFreePid, InitIsReady, Pid
  <2> QED
    BY <2>3, <2>4 DEF TypeOK
<1>4. InRing = {InitProc} /\ InRing' = {InitProc}
  BY <1>1, <1>2 DEF InRing
<1>5. RingIsOneCycle' /\ PrevPrecedesCurrent' /\ QuantumIsPositive'
  BY <1>1, <1>4 DEF RingIsOneCycle, OneCycle, PrevPrecedesCurrent, QuantumIsPositive
<1>6. TypeOK'
  BY <1>1, <1>2 DEF TypeOK, Status
<1>7. InitIsReady'
  <2>1. 0 \in Pid /\ table[0] # NULL
    BY ProcAssumption, BoundAssumption DEF InitIsReady, Pid
  <2> QED
    BY <1>1, <1>2, <2>1, ProcAssumption DEF InitIsReady, TypeOK
<1>8. RunnerMayRun' /\ SleeperWillWake' /\ ForegroundIsNotParked' /\ InitLeavesForeground'
  <2>1. st'[p] = "READY" /\ \A q \in Live : st'[q] = st[q]
    BY <1>2 DEF TypeOK, Live
  <2> QED
    BY <1>1, <1>2, <1>7, <2>1 DEF RunnerMayRun, SleeperWillWake, ForegroundIsNotParked,
       InitLeavesForeground, InitIsReady, Blocked
<1>9. BootOrder'
  BY <1>1, <1>2, <1>3 DEF BootOrder, TypeOK
<1> QED
  BY <1>2, <1>5, <1>6, <1>7, <1>8, <1>9

(* Taking and releasing the superlock around init's add_process keeps the  *)
(* invariant (processManager.c:84-104).                                    *)
LEMMA BootLockKeeps == IInv /\ (BootLock \/ BootUnlock) => IInv'
<1> SUFFICES ASSUME IInv, BootLock \/ BootUnlock PROVE IInv'
  OBVIOUS
<1> USE DEF IInv
<1>1. /\ kernel = "run" /\ current = InitProc
      /\ UNCHANGED <<pcb, current, prev, next, quantum, kernel, sleeping, reading>>
      /\ \/ boot = "lock" /\ boot' = "link" /\ superlock' = "LOCKED"
         \/ boot = "unlock" /\ boot' = "foreground" /\ superlock' = "UNLOCKED"
  BY DEF BootLock, BootUnlock, InInit
<1>2. Live' = Live /\ InRing' = InRing
  BY <1>1 DEF Live, InRing, pcb
<1>3. TypeOK' /\ TableAgrees' /\ InitIsReady' /\ InitLeavesForeground'
      /\ SleeperWillWake' /\ ForegroundIsNotParked' /\ RunnerMayRun' /\ QuantumIsPositive'
  BY <1>1, <1>2 DEF TypeOK, TableAgrees, InitIsReady, InitLeavesForeground,
     SleeperWillWake, ForegroundIsNotParked, RunnerMayRun, QuantumIsPositive, pcb
<1>4. RingIsOneCycle' /\ PrevPrecedesCurrent'
  BY <1>1, <1>2 DEF RingIsOneCycle, OneCycle, PrevPrecedesCurrent
<1>5. BootOrder'
  BY <1>1, <1>2 DEF BootOrder, pcb
<1> QED
  BY <1>3, <1>4, <1>5

(* Linking the shell after init keeps the invariant                        *)
(* (processManager.c:84-104).                                              *)
LEMMA BootLinkKeeps == IInv /\ BootLink => IInv'
<1> SUFFICES ASSUME IInv, BootLink PROVE IInv'
  OBVIOUS
<1> USE DEF IInv
<1> DEFINE shell == table[1]
<1>1. /\ kernel = "run" /\ boot = "link" /\ boot' = "unlock"
      /\ add_process(shell)
      /\ UNCHANGED <<pcb, current, prev, superlock, kernel, sleeping, reading>>
      /\ current = InitProc /\ prev = InitProc /\ superlock = "LOCKED"
      /\ Live = {InitProc, shell} /\ shell \in Proc \ {InitProc}
      /\ st[shell] # "DELETE"
  BY DEF BootLink, InInit, BootOrder
<1>2. Live' = Live /\ InRing = {InitProc} /\ InRing' = {InitProc} \cup {shell}
  BY <1>1 DEF Live, InRing, pcb
<1>3. /\ next' \in [Proc -> Proc] /\ quantum' \in [Proc -> Int]
      /\ next'[InitProc] = shell /\ next'[shell] = next[InitProc]
      /\ quantum'[shell] = 1
  BY <1>1, ProcAssumption DEF add_process, TypeOK, QUANTUM
<1>4. RingIsOneCycle'
  <2>1. OneCycle({InitProc}, next)
    BY <1>2 DEF RingIsOneCycle
  <2>2. OneCycle({InitProc} \cup {shell}, next')
    BY <1>1, <1>3, <2>1, InsertKeepsCycle
  <2> QED
    BY <1>2, <2>2 DEF RingIsOneCycle, OneCycle
<1>5. TypeOK' /\ TableAgrees' /\ InitIsReady' /\ InitLeavesForeground'
      /\ SleeperWillWake' /\ ForegroundIsNotParked' /\ RunnerMayRun'
  BY <1>1, <1>2, <1>3 DEF TypeOK, TableAgrees, InitIsReady, InitLeavesForeground,
     SleeperWillWake, ForegroundIsNotParked, RunnerMayRun, pcb
<1>6. PrevPrecedesCurrent' /\ QuantumIsPositive'
  BY <1>1, <1>2, <1>3 DEF PrevPrecedesCurrent, QuantumIsPositive
<1>7. BootOrder'
  BY <1>1, <1>2 DEF BootOrder, pcb
<1> QED
  BY <1>4, <1>5, <1>6, <1>7

(* Giving the keyboard to the shell keeps the invariant, and from then on  *)
(* init does not have it (init.c:21).                                      *)
LEMMA BootForegroundKeeps == IInv /\ BootForeground => IInv'
<1> SUFFICES ASSUME IInv, BootForeground PROVE IInv'
  OBVIOUS
<1> USE DEF IInv
<1> DEFINE shell == table[1]
<1>1. /\ boot = "foreground" /\ boot' = "hlt" /\ current = InitProc /\ kernel = "run"
      /\ set_foreground_process(get_process_by_pid(1))
      /\ UNCHANGED <<table, pid, ppid, ring, sleeping, reading>>
  BY DEF BootForeground, InInit
<1>2. shell \in Proc \ {InitProc} /\ get_process_by_pid(1) = shell /\ pid[shell] = 1
  BY <1>1, BoundAssumption, ProcAssumption DEF BootOrder, get_process_by_pid, TableAgrees, Pid
<1>3. Live' = Live /\ {current, foreground} \subseteq Proc /\ Live \subseteq Proc
  BY <1>1 DEF Live, TypeOK
<1>4. CASE foreground = InitProc
  <2>1. set_foreground_force_process(shell)
    BY <1>1, <1>2, <1>4 DEF set_foreground_process, set_foreground_force_process
  <2>2. /\ st' \in [Proc -> Status]
        /\ \A q \in Proc : st'[q] = st[q] \/ (st[q] = "BLOCKED_FOREGROUND" /\ st'[q] = "READY")
        /\ foreground' = shell /\ st'[shell] # "BLOCKED_FOREGROUND"
    <3>1. shell \in Proc \cup {NULL} /\ pid[shell] # 0 /\ shell # NULL /\ shell # foreground
      BY <1>2, <1>4, ProcAssumption
    <3> HIDE DEF shell
    <3> QED
      BY <2>1, <3>1, ForegroundEffect
  <2>3. RunnerMayRun' /\ SleeperWillWake' /\ ForegroundIsNotParked'
    BY <1>1, <1>3, <2>2 DEF RunnerMayRun, SleeperWillWake, ForegroundIsNotParked, ring, Blocked
  <2>4. st'[InitProc] = "READY" /\ reading'[InitProc] = "user" /\ st'[shell] # "DELETE"
    BY <1>1, <1>2, <2>2, ProcAssumption DEF InitIsReady, BootOrder
  <2> QED
    BY <1>1, <1>2, <2>2, <2>3, <2>4, StatusFrame DEF TypeOK
<1>5. CASE foreground # InitProc
  <2>1. UNCHANGED <<foreground, st>>
    BY <1>1, <1>5 DEF set_foreground_process
  <2>2. RunnerMayRun' /\ SleeperWillWake' /\ ForegroundIsNotParked'
    BY <1>1, <1>3, <2>1 DEF RunnerMayRun, SleeperWillWake, ForegroundIsNotParked, ring
  <2> QED
    BY <1>1, <1>5, <2>1, <2>2, StatusFrame DEF TypeOK, InitIsReady, BootOrder
<1> QED
  BY <1>4, <1>5

-----------------------------------------------------------------------------
(* The invariant. *)

(* The state in which the kernel starts init satisfies the invariant,      *)
(* whatever garbage init's ppid holds.                                     *)
LEMMA InitHolds == Init => IInv
<1> SUFFICES ASSUME Init PROVE IInv
  OBVIOUS
<1> USE DEF Init
<1>1. 0 \in Pid /\ Pid \subseteq 0 .. MAX_PROCESSES /\ MAX_PROCESSES \in 0 .. MAX_PROCESSES
  BY BoundAssumption DEF Pid
<1>2. TypeOK
  <2>1. ppid \in [Proc -> 0 .. MAX_PROCESSES]
    BY <1>1
  <2> QED
    BY <1>1, <2>1, ProcAssumption DEF TypeOK, Status, Blocked, QUANTUM
<1>3. Live = {InitProc} /\ InRing = {InitProc}
  BY <1>1, ProcAssumption DEF Live, InRing
<1>4. TableAgrees /\ InitIsReady
  BY <1>1, <1>3, ProcAssumption DEF TableAgrees, InitIsReady
<1>5. RingIsOneCycle /\ PrevPrecedesCurrent /\ QuantumIsPositive
  BY <1>3, ProcAssumption DEF RingIsOneCycle, OneCycle, PrevPrecedesCurrent, QuantumIsPositive
<1>6. RunnerMayRun /\ SleeperWillWake /\ ForegroundIsNotParked /\ InitLeavesForeground
  BY ProcAssumption DEF RunnerMayRun, SleeperWillWake, ForegroundIsNotParked,
     InitLeavesForeground, Blocked, Live
<1>7. BootOrder
  BY <1>3 DEF BootOrder
<1> QED
  BY <1>2, <1>4, <1>5, <1>6, <1>7 DEF IInv

(* A step that changes nothing keeps the invariant.                        *)
LEMMA StutterKeeps == IInv /\ UNCHANGED vars => IInv'
<1> SUFFICES ASSUME IInv, UNCHANGED vars PROVE IInv'
  OBVIOUS
<1>1. RunnerMayRun' /\ SleeperWillWake' /\ ForegroundIsNotParked'
  BY DEF IInv, vars, pcb, ring, RunnerMayRun, SleeperWillWake, ForegroundIsNotParked, Live
<1> QED
  BY <1>1, StatusFrame DEF IInv, vars, pcb, TypeOK, InitIsReady, BootOrder, InitLeavesForeground

(* Every step preserves the invariant.                                     *)
LEMMA NextKeeps == IInv /\ [Next]_vars => IInv'
<1> SUFFICES ASSUME IInv, [Next]_vars PROVE IInv'
  OBVIOUS
<1>1. CASE Dispatch
  BY <1>1, SkipBlockedKeeps, ReapDeletedKeeps, ResumeKeeps DEF Dispatch
<1>2. CASE InitSteps
  BY <1>2, BootCreateKeeps, BootLockKeeps, BootLinkKeeps, BootForegroundKeeps DEF InitSteps
<1>3. CASE Interrupts
  BY <1>3, TickKeeps, KeyPressKeeps, EscapeKeyKeeps DEF Interrupts
<1>4. CASE SystemCalls
  BY <1>4, ExecKeeps, EndKeeps, KillKeeps, SetForegroundKeeps, YieldStepKeeps, WaitKeeps,
     ReadInBackgroundKeeps, ReadStepKeeps DEF SystemCalls
<1>5. CASE UNCHANGED vars
  BY <1>5, StutterKeeps
<1> QED
  BY <1>1, <1>2, <1>3, <1>4, <1>5 DEF Next

(* The inductive invariant holds in every reachable state.                 *)
THEOREM Invariance == Spec => []IInv
<1> QED
  BY InitHolds, NextKeeps, PTL DEF Spec

(* Every variable keeps its type: no pid out of the table, no sleeper      *)
(* listed with no ticks left.                                              *)
THEOREM TypeCorrect == Spec => []TypeOK
<1>1. IInv => TypeOK
  BY DEF IInv
<1> QED
  BY <1>1, Invariance, PTL

(* The ring is one cycle through exactly the processes of the table, for   *)
(* any number of processes (processManager.c:44-150).                      *)
THEOREM RingTheorem == Spec => []RingIsOneCycle
<1>1. IInv => RingIsOneCycle
  BY DEF IInv
<1> QED
  BY <1>1, Invariance, PTL

(* Only a ready process, or one about to yield in sys_read, runs.          *)
THEOREM RunnerTheorem == Spec => []RunnerMayRun
<1>1. IInv => RunnerMayRun
  BY DEF IInv
<1> QED
  BY <1>1, Invariance, PTL

(* Every sleeper of the table is in the list of sleepers (timer.c).        *)
THEOREM SleeperTheorem == Spec => []SleeperWillWake
<1>1. IInv => SleeperWillWake
  BY DEF IInv
<1> QED
  BY <1>1, Invariance, PTL

(* The foreground process never waits to become it (process.c:316-336).    *)
THEOREM ParkedTheorem == Spec => []ForegroundIsNotParked
<1>1. IInv => ForegroundIsNotParked
  BY DEF IInv
<1> QED
  BY <1>1, Invariance, PTL

(* Once init has given the keyboard to the shell it never has it back.     *)
THEOREM KeyboardTheorem == Spec => []InitLeavesForeground
<1>1. IInv => InitLeavesForeground
  BY DEF IInv
<1> QED
  BY <1>1, Invariance, PTL

(* Every process of the ring but init has a tick to run when its turn      *)
(* comes (processManager.c:44-128).                                        *)
THEOREM QuantumTheorem == Spec => []QuantumIsPositive
<1>1. IInv => QuantumIsPositive
  BY DEF IInv
<1> QED
  BY <1>1, Invariance, PTL

-----------------------------------------------------------------------------
(* The mark of a killed process. *)

(* No step takes the mark off a process that is not running.               *)
LEMMA MarkStays ==
    ASSUME IInv, Next, NEW p \in Live, st[p] = "DELETE", p # current
    PROVE  st'[p] = "DELETE"
<1> USE DEF IInv
<1>1. p \in Proc
  BY DEF Live
<1>2. ASSUME UNCHANGED st PROVE st'[p] = "DELETE"
  BY <1>2
<1>3. ASSUME NEW q \in Proc \cup {NULL}, set_foreground_force_process(q)
      PROVE  st'[p] = "DELETE"
  BY <1>1, <1>3, ForegroundEffect
<1>4. ASSUME NEW q \in Proc \cup {NULL}, set_foreground_process(q)
      PROVE  st'[p] = "DELETE"
  BY <1>2, <1>3, <1>4 DEF set_foreground_process
<1>5. ASSUME destroy_process(current), current \in Proc, ppid[current] \in Pid
      PROVE  st'[p] = "DELETE"
  <2>1. table[ppid[current]] \in Proc \cup {NULL}
    BY <1>5 DEF TypeOK
  <2> QED
    BY <1>2, <1>4, <1>5, <2>1 DEF destroy_process
<1>6. ASSUME NEW P, st' = unblock_processes(st, P) PROVE st'[p] = "DELETE"
  BY <1>1, <1>6 DEF unblock_processes
<1>7. CASE Dispatch
  <2>1. st[current] = "DELETE" => current \in Live \ {InitProc}
    BY DEF InitIsReady, PrevPrecedesCurrent, InRing
  <2>2. st[current] = "DELETE" => current \in Proc /\ ppid[current] \in Pid
    BY <2>1 DEF TableAgrees, TypeOK
  <2> QED
    BY <1>2, <1>5, <1>7, <2>2 DEF Dispatch, SkipBlocked, ReapDeleted, Resume, pcb
<1>8. CASE InitSteps
  <2>1. ASSUME NEW q \in Proc, BootCreate(q) PROVE st'[p] = "DELETE"
    BY <1>1, <2>1 DEF BootCreate, create_process, TypeOK
  <2>2. CASE BootLock \/ BootLink \/ BootUnlock
    BY <1>2, <2>2 DEF BootLock, BootLink, BootUnlock, pcb
  <2>3. CASE BootForeground
    <3>1. get_process_by_pid(1) \in Proc \cup {NULL}
      BY DEF get_process_by_pid, TypeOK
    <3> QED
      BY <1>4, <2>3, <3>1 DEF BootForeground
  <2> QED
    BY <1>8, <2>1, <2>2, <2>3 DEF InitSteps
<1>9. CASE Interrupts
  <2>1. get_process_by_pid(ppid[foreground]) \in Proc \cup {NULL}
    BY DEF get_process_by_pid, TypeOK
  <2> QED
    BY <1>3, <1>6, <1>9, <2>1 DEF Interrupts, Tick, timer_handler, KeyPress, EscapeKey
<1>10. CASE SystemCalls
  <2>1. ASSUME NEW q \in Proc, sys_exec(q) PROVE st'[p] = "DELETE"
    BY <1>1, <2>1 DEF sys_exec, create_process, TypeOK
  <2>2. CASE sys_end
    <3>1. current \in Live \ {InitProc}
      BY <2>2 DEF sys_end, InUser, PrevPrecedesCurrent, InRing
    <3> QED
      BY <1>5, <2>2, <3>1 DEF sys_end, TableAgrees, TypeOK
  <2>3. ASSUME NEW i \in Pid, sys_kill(i) PROVE st'[p] = "DELETE"
    BY <1>1, <2>3 DEF sys_kill, TypeOK
  <2>4. ASSUME NEW i \in Pid, sys_set_foreground(i) PROVE st'[p] = "DELETE"
    <3>1. table[i] \in Proc \cup {NULL}
      BY DEF TypeOK
    <3> QED
      BY <1>4, <2>4, <3>1 DEF sys_set_foreground
  <2>5. ASSUME NEW t \in 1 .. MaxTicks, sys_wait(t) PROVE st'[p] = "DELETE"
    BY <1>1, <2>5 DEF sys_wait, block_process, TypeOK
  <2>6. CASE sys_yield \/ ReadInForeground \/ ReadReturns \/ ReadYields
    BY <1>2, <2>6 DEF sys_yield, ReadInForeground, ReadReturns, ReadYields, pcb
  <2>7. CASE ReadInBackground \/ ReadBlocks
    BY <1>1, <2>7 DEF ReadInBackground, ReadBlocks, TypeOK
  <2> QED
    BY <1>10, <2>1, <2>2, <2>3, <2>4, <2>5, <2>6, <2>7 DEF SystemCalls
<1> QED
  BY <1>7, <1>8, <1>9, <1>10 DEF Next

(* A killed process that is not running keeps its mark until the scheduler *)
(* removes it.                                                             *)
THEOREM KilledTheorem == Spec => KilledStaysKilled
<1>1. IInv /\ [Next]_vars
        => [\A p \in Proc : p \in Live /\ st[p] = "DELETE" /\ p # current
                => st'[p] = "DELETE"]_vars
  BY MarkStays
<1> QED
  BY <1>1, Invariance, PTL DEF Spec, KilledStaysKilled

-----------------------------------------------------------------------------
(* What the layer of Processes sees of a step. *)

(* Without self-kills no marked process runs.                              *)
RunnerIsNotKilled == kernel = "run" => st[current] # "DELETE"

PInv == IInv /\ RunnerIsNotKilled

(* A wake-up as the control blocks show it.                                *)
Woken(p) == st[p] \in Blocked /\ st'[p] = "READY"

(* No page is NULL, so that somebody runs exactly outside the dispatcher.  *)
LEMMA LayerState ==
    ASSUME IInv
    PROVE  /\ current \in Live /\ Live \subseteq Proc /\ InitProc \in Live
           /\ Running # NULL <=> kernel = "run"
           /\ kernel = "run" => Running = current
           /\ Killed \subseteq Live /\ Waiting \subseteq Live
           /\ \A p \in Live : /\ p \in Killed <=> st[p] = "DELETE"
                              /\ p \in Waiting <=> st[p] \in Blocked /\ p # Running
<1>1. current \in Live /\ Live \subseteq Proc
  BY DEF IInv, PrevPrecedesCurrent, InRing, Live
<1>2. InitProc \in Live
  BY ProcAssumption, BoundAssumption DEF IInv, InitIsReady, Live, Pid
<1> QED
  BY <1>1, <1>2, ProcAssumption DEF Running, Killed, Waiting

(* A step that wakes processes, or none, and gives no processor away.      *)
LEMMA WakesOnly ==
    ASSUME IInv, IInv', UNCHANGED <<table, current, kernel>>,
           \A p \in Live : st'[p] = st[p] \/ Woken(p)
    PROVE  \E W \in SUBSET Waiting : Layer!Wake(W)
<1> DEFINE W == {p \in Waiting : Woken(p)}
<1>1. Live' = Live /\ Running' = Running
  BY DEF Live, Running
<1>2. Killed' = Killed
  BY <1>1 DEF Killed, Woken, Blocked
<1>3. Waiting' = Waiting \ W
  BY <1>1 DEF Waiting, Woken, Blocked
<1>4. Layer!Wake(W)
  BY <1>1, <1>2, <1>3 DEF Layer!Wake
<1> QED
  BY <1>4

(* A step that gives the processor up, perhaps to wait.                    *)
LEMMA Leaves ==
    ASSUME PInv, IInv', UNCHANGED table, kernel = "run", kernel' # "run",
           \A p \in Live \ {current} : st'[p] = st[p] \/ Woken(p),
           st'[current] # "DELETE", current = InitProc => st'[current] \notin Blocked
    PROVE  \E W \in SUBSET Waiting : Layer!Leave(W)
<1> DEFINE W == {p \in Waiting : Woken(p)}
<1>1. Live' = Live /\ current \in Live /\ Running = current
  BY LayerState DEF PInv, Live
<1>2. Running # NULL /\ Running' = NULL
  BY LayerState DEF PInv, Running
<1>3. Killed' = Killed
  BY <1>1 DEF Killed, Woken, Blocked, PInv, RunnerIsNotKilled
<1>4. \A p \in Live : p # NULL
  BY ProcAssumption DEF Live
<1>5. CASE st'[current] \in Blocked
  <2>1. Waiting' = (Waiting \ W) \cup {Running}
    BY <1>1, <1>2, <1>4, <1>5 DEF Waiting, Woken, Blocked
  <2>2. Layer!Leave(W)
    BY <1>1, <1>2, <1>3, <1>5, <2>1 DEF Layer!Leave
  <2> QED
    BY <2>2
<1>6. CASE st'[current] \notin Blocked
  <2>1. Waiting' = Waiting \ W
    BY <1>1, <1>2, <1>4, <1>6 DEF Waiting, Woken, Blocked
  <2>2. Layer!Leave(W)
    BY <1>1, <1>2, <1>3, <2>1 DEF Layer!Leave
  <2> QED
    BY <2>2
<1> QED
  BY <1>5, <1>6

(* Making a process is a step of the layer (process.c).                    *)
LEMMA CreateSpawns ==
    ASSUME PInv, IInv', kernel = "run", NEW p \in Proc, create_process(p),
           UNCHANGED <<current, kernel>>
    PROVE  Layer!Spawn(p)
<1>1. /\ p \notin Live /\ Live' = Live \cup {p}
      /\ st' = [st EXCEPT ![p] = "READY"] /\ st \in [Proc -> Status]
  BY LayerState, CreateEffect DEF PInv, IInv, TypeOK
<1>2. /\ Running = current /\ Running' = Running /\ Running # NULL
      /\ Live \subseteq Proc
  BY LayerState DEF PInv, Running
<1>3. \A q \in Live : q # p /\ st'[q] = st[q]
  BY <1>1, <1>2
<1>4. st'[p] = "READY"
  BY <1>1
<1>5. Killed' = Killed /\ Waiting' = Waiting
  BY <1>1, <1>2, <1>3, <1>4 DEF Killed, Waiting, Blocked
<1> QED
  BY <1>1, <1>2, <1>5 DEF Layer!Spawn

(* Removing current from the table, which may unpark whoever gets the      *)
(* keyboard, is an exit or a reaping.                                      *)
LEMMA DestroyGoes ==
    ASSUME PInv, IInv', current # InitProc, destroy_process(current), kernel' # "run"
    PROVE  /\ kernel = "run" => \E W \in SUBSET Waiting : Layer!Exit(W)
           /\ kernel # "run" /\ st[current] = "DELETE" =>
                 \E W \in SUBSET Waiting : Layer!Reap(current, W)
<1> DEFINE W == {p \in Waiting : p = current \/ Woken(p)}
<1>1. /\ current \in Live \ {InitProc} /\ Live \subseteq Proc
      /\ kernel = "run" => Running = current
      /\ Running # NULL <=> kernel = "run"
  BY LayerState DEF PInv
<1>2. /\ Live' = Live \ {current}
      /\ \A q \in Proc : st'[q] = st[q] \/ (st[q] = "BLOCKED_FOREGROUND" /\ st'[q] = "READY")
  BY <1>1, DestroyEffect DEF PInv, IInv, InitIsReady
<1>3. Running' = NULL /\ \A p \in Live : p # NULL
  BY ProcAssumption DEF Running, Live
<1>4. Killed' = Killed \ {current}
  BY <1>1, <1>2 DEF Killed
<1>5. Waiting' = Waiting \ W
  BY <1>1, <1>2, <1>3 DEF Waiting, Woken, Blocked, Running
<1>6. ASSUME kernel = "run" PROVE Layer!Exit(W)
  <2>1. Killed' = Killed
    BY <1>4, <1>6 DEF Killed, PInv, RunnerIsNotKilled
  <2> QED
    BY <1>1, <1>2, <1>3, <1>5, <1>6, <2>1 DEF Layer!Exit
<1>7. ASSUME kernel # "run", st[current] = "DELETE" PROVE Layer!Reap(current, W)
  <2>1. current \in Killed
    BY <1>1, <1>7 DEF Killed
  <2> QED
    BY <1>1, <1>2, <1>3, <1>4, <1>5, <1>7, <2>1 DEF Layer!Reap
<1> QED
  BY <1>6, <1>7

-----------------------------------------------------------------------------
(* Every step is a step of the layer. *)

LayerStep == [Layer!Next]_(Layer!vars)

(* Steps that the layer does not see.                                      *)
LEMMA Unseen ==
    ASSUME UNCHANGED <<table, st, kernel>>, kernel = "run" => current' = current
    PROVE  LayerStep
BY DEF LayerStep, Layer!vars, Live, Killed, Waiting, Running

(* A wake-up is one.                                                       *)
LEMMA WakeIsAStep ==
    ASSUME IInv, IInv', UNCHANGED <<table, current, kernel>>,
           \A p \in Live : st'[p] = st[p] \/ Woken(p)
    PROVE  LayerStep
BY WakesOnly DEF LayerStep, Layer!Next

LEMMA LeaveIsAStep ==
    ASSUME PInv, IInv', UNCHANGED table, kernel = "run", kernel' # "run",
           \A p \in Live \ {current} : st'[p] = st[p] \/ Woken(p),
           st'[current] # "DELETE", current = InitProc => st'[current] \notin Blocked
    PROVE  LayerStep
BY Leaves DEF LayerStep, Layer!Next

(* Whoever yields leaves (yield_process).                                  *)
LEMMA YieldLeaves ==
    ASSUME PInv, kernel = "run", current # InitProc, yield_process,
           UNCHANGED <<table, pid, ppid, boot>>,
           \A p \in Proc : st[p] # "DELETE" => st'[p] # "DELETE"
    PROVE  kernel' # "run"
<1>1. kernel' \in {"next_process", "end_process"}
  BY YieldKeeps DEF PInv
<1> QED
  BY <1>1

(* The keyboard moves, and its new owner stops waiting for it.             *)
LEMMA KeyboardWakes ==
    ASSUME IInv, NEW p \in Proc \cup {NULL},
           set_foreground_force_process(p) \/ set_foreground_process(p)
    PROVE  \A q \in Live : st'[q] = st[q] \/ Woken(q)
<1>1. CASE set_foreground_force_process(p)
  BY <1>1, ForegroundEffect, LayerState DEF IInv, Woken, Blocked
<1>2. CASE UNCHANGED <<foreground, st>>
  BY <1>2
<1> QED
  BY <1>1, <1>2 DEF set_foreground_process

(* The loop of set_next_current reaps, skips and resumes.                  *)
LEMMA DispatchImplements ==
    ASSUME PInv, IInv', Dispatch PROVE LayerStep
<1>1. CASE SkipBlocked
  BY <1>1, Unseen DEF SkipBlocked, pcb
<1>2. CASE ReapDeleted
  <2>1. current # InitProc
    BY <1>2 DEF ReapDeleted, PInv, IInv, InitIsReady
  <2>2. \E W \in SUBSET Waiting : Layer!Reap(current, W)
    BY <1>2, <2>1, DestroyGoes DEF ReapDeleted
  <2>3. current \in Proc
    BY DEF PInv, IInv, TypeOK
  <2> QED
    BY <2>2, <2>3 DEF LayerStep, Layer!Next
<1>3. CASE Resume
  <2>1. /\ UNCHANGED <<table, st, current>>
        /\ kernel # "run" /\ kernel' = "run" /\ st[current] = "READY"
    BY <1>3 DEF Resume, pcb
  <2>2. current \in Live /\ current \in Proc /\ Running = NULL
    BY <2>1, LayerState DEF PInv
  <2>3. Live' = Live /\ Killed' = Killed /\ Running' = current
    BY <2>1 DEF Live, Killed, Running
  <2>4. Waiting' = Waiting /\ current \notin Waiting \cup Killed
    BY <2>1, <2>2, <2>3, ProcAssumption DEF Waiting, Killed, Blocked, Live
  <2>5. Layer!Switch(current)
    BY <2>2, <2>3, <2>4 DEF Layer!Switch
  <2> QED
    BY <2>2, <2>5 DEF LayerStep, Layer!Next
<1> QED
  BY <1>1, <1>2, <1>3 DEF Dispatch

(* Booting makes the shell and gives it the keyboard.                      *)
LEMMA InitImplements ==
    ASSUME PInv, IInv', InitSteps PROVE LayerStep
<1>1. ASSUME NEW p \in Proc, BootCreate(p) PROVE LayerStep
  <2>1. Layer!Spawn(p)
    BY <1>1, CreateSpawns DEF BootCreate, InInit, ring
  <2> QED
    BY <2>1 DEF LayerStep, Layer!Next
<1>2. CASE BootLock \/ BootLink \/ BootUnlock
  BY <1>2, Unseen DEF BootLock, BootLink, BootUnlock, pcb
<1>3. CASE BootForeground
  <2>1. get_process_by_pid(1) \in Proc \cup {NULL}
    BY DEF get_process_by_pid, PInv, IInv, TypeOK
  <2>2. \A q \in Live : st'[q] = st[q] \/ Woken(q)
    BY <1>3, <2>1, KeyboardWakes DEF BootForeground, PInv
  <2> QED
    BY <1>3, <2>2, WakeIsAStep DEF BootForeground, PInv, ring
<1> QED
  BY <1>1, <1>2, <1>3 DEF InitSteps

(* Ticks and keys wake; a tick may also take the processor away.           *)
LEMMA InterruptImplements ==
    ASSUME PInv, IInv', Interrupts PROVE LayerStep
<1>1. ASSUME NEW P, st' = unblock_processes(st, P)
      PROVE  /\ \A p \in Proc : p \in P \/ st'[p] = st[p]
             /\ \A p \in Proc : st'[p] = st[p] \/ (st[p] # "DELETE" /\ st'[p] = "READY")
  BY <1>1 DEF unblock_processes
<1>2. st \in [Proc -> Status] /\ Live \subseteq Proc /\ current \in Proc
  BY LayerState DEF PInv, IInv, TypeOK
<1>3. ASSUME NEW P, st' = unblock_processes(st, P)
      PROVE  \A p \in Live : st'[p] = st[p] \/ Woken(p)
  BY <1>1, <1>2, <1>3 DEF Woken, Status
<1>4. CASE KeyPress
  BY <1>3, <1>4, WakeIsAStep DEF KeyPress, PInv, ring
<1>5. CASE EscapeKey
  <2>1. get_process_by_pid(ppid[foreground]) \in Proc \cup {NULL}
    BY DEF get_process_by_pid, PInv, IInv, TypeOK
  <2>2. \A q \in Live : st'[q] = st[q] \/ Woken(q)
    BY <1>5, <2>1, KeyboardWakes DEF EscapeKey, PInv
  <2> QED
    BY <1>5, <2>2, WakeIsAStep DEF EscapeKey, PInv, ring
<1>6. CASE Tick
  <2>1. /\ kernel = "run" /\ table' = table /\ st' = unblock_processes(st, Due)
        /\ next_process(quantum)
    BY <1>6 DEF Tick, timer_handler
  <2>2. \A p \in Live : st'[p] = st[p] \/ Woken(p)
    BY <1>3, <2>1
  <2>3. CASE kernel' = "run"
    <3>1. UNCHANGED <<current, kernel>>
      BY <2>1, <2>3 DEF next_process
    <3> QED
      BY <2>1, <2>2, <3>1, WakeIsAStep DEF PInv
  <2>4. CASE kernel' # "run"
    <3>1. st[current] # "DELETE" /\ (current = InitProc => st[current] = "READY")
      BY <2>1 DEF PInv, RunnerIsNotKilled, IInv, InitIsReady
    <3>2. st'[current] # "DELETE" /\ (current = InitProc => st'[current] \notin Blocked)
      BY <1>1, <1>2, <2>1, <3>1 DEF Blocked
    <3> QED
      BY <2>1, <2>2, <2>4, <3>2, LeaveIsAStep
  <2> QED
    BY <2>3, <2>4
<1> QED
  BY <1>4, <1>5, <1>6 DEF Interrupts

(* What the running process asks for.                                      *)
LEMMA CallImplements ==
    ASSUME ~SelfKill, PInv, IInv', SystemCalls PROVE LayerStep
<1>1. /\ st \in [Proc -> Status] /\ Live \subseteq Proc /\ current \in Live
      /\ st[InitProc] = "READY" /\ reading[InitProc] = "user"
      /\ kernel = "run" => st[current] # "DELETE"
  BY LayerState DEF PInv, IInv, TypeOK, InitIsReady, RunnerIsNotKilled
<1>2. ASSUME NEW p \in Proc, sys_exec(p) PROVE LayerStep
  <2>1. Layer!Spawn(p)
    BY <1>2, CreateSpawns DEF sys_exec, InUser
  <2> QED
    BY <2>1 DEF LayerStep, Layer!Next
<1>3. CASE sys_end
  <2>1. \E W \in SUBSET Waiting : Layer!Exit(W)
    BY <1>3, DestroyGoes DEF sys_end, InUser
  <2> QED
    BY <2>1 DEF LayerStep, Layer!Next
<1>4. ASSUME NEW i \in Pid, sys_kill(i) PROVE LayerStep
  <2> DEFINE p == table[i]
  <2>1. p \in Live /\ p # NULL /\ pid[p] = i /\ i # 0
    BY <1>4, ProcAssumption
       DEF sys_kill, get_process_by_pid, Protected, PInv, IInv, TypeOK, TableAgrees, Live
  <2>2. p # InitProc /\ p # current
    BY <1>4, <2>1, BoundAssumption, ProcAssumption
       DEF sys_kill, PInv, IInv, InitIsReady, TableAgrees, Pid
  <2>3. /\ kernel = "run" /\ UNCHANGED <<table, current, kernel>>
        /\ st' = [st EXCEPT ![p] = "DELETE"]
    BY <1>4 DEF sys_kill, InUser, ring
  <2> HIDE DEF p
  <2>4. Live' = Live /\ Running' = Running /\ Running = current /\ Running # NULL
    BY <2>3, LayerState DEF Live, Running, PInv
  <2>5. st'[p] = "DELETE" /\ \A q \in Live \ {p} : st'[q] = st[q]
    BY <1>1, <2>1, <2>3
  <2>6. Killed' = Killed \cup {p}
    BY <2>1, <2>4, <2>5 DEF Killed
  <2>7. Waiting' = Waiting \ {p}
    BY <2>1, <2>4, <2>5 DEF Waiting, Blocked
  <2>8. Layer!Kill(p)
    BY <2>1, <2>2, <2>4, <2>6, <2>7 DEF Layer!Kill
  <2> QED
    BY <1>1, <2>1, <2>8 DEF LayerStep, Layer!Next
<1>5. ASSUME NEW i \in Pid, sys_set_foreground(i) PROVE LayerStep
  <2>1. table[i] \in Proc \cup {NULL}
    BY DEF PInv, IInv, TypeOK
  <2>2. \A q \in Live : st'[q] = st[q] \/ Woken(q)
    BY <1>5, <2>1, KeyboardWakes DEF sys_set_foreground, PInv
  <2> QED
    BY <1>5, <2>2, WakeIsAStep DEF sys_set_foreground, PInv, ring
<1>6. CASE sys_yield \/ ReadYields
  <2>1. /\ kernel = "run" /\ current # InitProc /\ yield_process
        /\ UNCHANGED <<table, st, pid, ppid, boot>>
    BY <1>1, <1>6 DEF sys_yield, ReadYields, InUser, pcb
  <2>2. kernel' # "run"
    BY <2>1, YieldLeaves
  <2> QED
    BY <1>1, <2>1, <2>2, LeaveIsAStep
<1>7. ASSUME NEW s \in Blocked, st' = [st EXCEPT ![current] = s], kernel = "run",
             current # InitProc, yield_process, UNCHANGED <<table, pid, ppid, boot>>
      PROVE  LayerStep
  <2>1. st'[current] = s /\ \A q \in Proc \ {current} : st'[q] = st[q]
    BY <1>1, <1>7
  <2>2. s # "DELETE"
    BY <1>7 DEF Blocked
  <2>3. kernel' # "run"
    BY <1>7, <2>1, <2>2, YieldLeaves
  <2> QED
    BY <1>1, <1>7, <2>1, <2>2, <2>3, LeaveIsAStep
<1>8. ASSUME NEW t \in 1 .. MaxTicks, sys_wait(t) PROVE LayerStep
  <2>1. st' = [st EXCEPT ![current] = "BLOCKED"] /\ "BLOCKED" \in Blocked
    BY <1>1, <1>8 DEF sys_wait, InUser, block_process, Blocked
  <2> QED
    BY <1>7, <1>8, <2>1 DEF sys_wait, InUser
<1>9. CASE ReadInBackground
  <2>1. "BLOCKED_FOREGROUND" \in Blocked
    BY DEF Blocked
  <2> QED
    BY <1>7, <1>9, <2>1 DEF ReadInBackground, InUser
<1>10. CASE ReadInForeground \/ ReadReturns
  BY <1>10, Unseen DEF ReadInForeground, ReadReturns, pcb, ring
<1>11. CASE ReadBlocks
  <2>1. /\ kernel = "run" /\ UNCHANGED <<table, current, kernel>>
        /\ st' = [st EXCEPT ![current] = "BLOCKED_READ"]
    BY <1>11 DEF ReadBlocks, InReadLoop, ring
  <2>2. Live' = Live /\ Running' = Running /\ Running = current
    BY <2>1 DEF Live, Running
  <2>3. st'[current] = "BLOCKED_READ" /\ \A q \in Live \ {current} : st'[q] = st[q]
    BY <1>1, <2>1
  <2>4. Killed' = Killed /\ Waiting' = Waiting
    BY <1>1, <2>1, <2>2, <2>3 DEF Killed, Waiting, Blocked
  <2> QED
    BY <2>2, <2>4 DEF LayerStep, Layer!vars
<1> QED
  BY <1>2, <1>3, <1>4, <1>5, <1>6, <1>8, <1>9, <1>10, <1>11 DEF SystemCalls

(* The layer starts as the scheduler does.                                 *)
LEMMA LayerStarts == Init => Layer!Init /\ RunnerIsNotKilled
<1> SUFFICES ASSUME Init PROVE Layer!Init /\ RunnerIsNotKilled
  OBVIOUS
<1>1. Live = {InitProc}
  BY ProcAssumption, BoundAssumption DEF Init, Live, Pid
<1>2. \A p \in Proc : st[p] = "READY"
  BY DEF Init
<1>3. Running = InitProc /\ Killed = {} /\ Waiting = {}
  BY <1>1, <1>2, ProcAssumption DEF Init, Running, Killed, Waiting, Blocked
<1> QED
  BY <1>1, <1>2, <1>3, ProcAssumption DEF Init, Layer!Init, RunnerIsNotKilled

(* A running process is marked by nobody but itself.                       *)
LEMMA RunnerStaysUnkilled ==
    ~SelfKill => (PInv /\ [Next]_vars => RunnerIsNotKilled')
<1> SUFFICES ASSUME ~SelfKill, PInv, [Next]_vars, kernel' = "run" PROVE st'[current'] # "DELETE"
  BY DEF RunnerIsNotKilled
<1>1. current \in Proc /\ current \in Live /\ st \in [Proc -> Status] /\ (kernel = "run" => st[current] # "DELETE")
  BY LayerState DEF PInv, IInv, TypeOK, RunnerIsNotKilled
<1>2. ASSUME NEW p \in Proc \cup {NULL}, kernel = "run", current' = current,
             set_foreground_force_process(p) \/ set_foreground_process(p)
      PROVE  st'[current'] # "DELETE"
  BY <1>1, <1>2, KeyboardWakes DEF PInv, Woken
<1>3. ASSUME UNCHANGED <<st, current, kernel>> PROVE st'[current'] # "DELETE"
  BY <1>1, <1>3
<1>4. CASE Dispatch
  BY <1>1, <1>4 DEF Dispatch, SkipBlocked, ReapDeleted, Resume, pcb
<1>5. CASE InitSteps
  <2>1. ASSUME NEW p \in Proc, BootCreate(p) PROVE st'[current'] # "DELETE"
    BY <1>1, <2>1 DEF BootCreate, create_process, ring, InInit
  <2>2. get_process_by_pid(1) \in Proc \cup {NULL}
    BY DEF get_process_by_pid, PInv, IInv, TypeOK
  <2> QED
    BY <1>2, <1>3, <1>5, <2>1, <2>2
       DEF InitSteps, BootLock, BootLink, BootUnlock, BootForeground, InInit, pcb, ring
<1>6. CASE Interrupts
  <2>1. get_process_by_pid(ppid[foreground]) \in Proc \cup {NULL}
    BY DEF get_process_by_pid, PInv, IInv, TypeOK
  <2>2. ASSUME NEW P, st' = unblock_processes(st, P), kernel = "run", current' = current
        PROVE  st'[current'] # "DELETE"
    BY <1>1, <2>2 DEF unblock_processes
  <2>3. CASE Tick
    BY <2>2, <2>3 DEF Tick, timer_handler, next_process
  <2> QED
    BY <1>2, <1>6, <2>1, <2>2, <2>3 DEF Interrupts, KeyPress, EscapeKey, ring
<1>7. CASE SystemCalls
  <2>1. ASSUME NEW p \in Proc, sys_exec(p) PROVE st'[current'] # "DELETE"
    BY <1>1, <2>1 DEF sys_exec, create_process, InUser
  <2>2. ASSUME NEW i \in Pid, sys_kill(i) PROVE st'[current'] # "DELETE"
    BY <1>1, <2>2 DEF sys_kill, InUser, ring
  <2>3. ASSUME NEW i \in Pid, sys_set_foreground(i) PROVE st'[current'] # "DELETE"
    <3>1. table[i] \in Proc \cup {NULL}
      BY DEF PInv, IInv, TypeOK
    <3> QED
      BY <1>2, <2>3, <3>1 DEF sys_set_foreground, InUser, ring
  <2>4. ASSUME NEW t \in 1 .. MaxTicks, sys_wait(t) PROVE st'[current'] # "DELETE"
    BY <1>1, <2>4 DEF sys_wait, block_process, InUser, yield_process, next_process
  <2>5. CASE sys_end
    BY <2>5 DEF sys_end
  <2>6. CASE sys_yield \/ ReadYields
    BY <1>1, <2>6 DEF sys_yield, ReadYields, InUser, yield_process, next_process, pcb
  <2>7. CASE ReadInForeground \/ ReadReturns
    BY <1>3, <2>7 DEF ReadInForeground, ReadReturns, pcb, ring
  <2>8. CASE ReadInBackground \/ ReadBlocks
    BY <1>1, <2>8 DEF ReadInBackground, ReadBlocks, yield_process, next_process, ring
  <2> QED
    BY <1>7, <2>1, <2>2, <2>3, <2>4, <2>5, <2>6, <2>7, <2>8 DEF SystemCalls
<1>8. CASE UNCHANGED vars
  BY <1>3, <1>8 DEF vars, pcb, ring
<1> QED
  BY <1>4, <1>5, <1>6, <1>7, <1>8 DEF Next

-----------------------------------------------------------------------------
(* What the layer promises. *)

(* Refinement: without self-kills every step of table, ring, timer, boot   *)
(* and system calls is a step of Processes, or one that it does not see.   *)
THEOREM SchedulerIsProcesses ==
    ASSUME ~SelfKill
    PROVE  Spec => ImplementsProcesses
<1>1. Init => PInv /\ Layer!Init
  BY InitHolds, LayerStarts DEF PInv
<1>2. PInv /\ [Next]_vars => PInv'
  BY NextKeeps, RunnerStaysUnkilled DEF PInv
<1>3. PInv /\ PInv' /\ [Next]_vars => [Layer!Next]_(Layer!vars)
  <2> SUFFICES ASSUME PInv, PInv', [Next]_vars PROVE LayerStep
    BY DEF LayerStep
  <2>1. CASE UNCHANGED vars
    BY <2>1, Unseen DEF vars, pcb, ring
  <2> QED
    BY <2>1, DispatchImplements, InitImplements, InterruptImplements, CallImplements DEF Next, PInv
<1> QED
  BY <1>1, <1>2, <1>3, PTL DEF Spec, ImplementsProcesses, Layer!Spec

(* Without self-kills a kill is final: no step at all takes the mark off,  *)
(* where otherwise sys_read does (process.c:312-314).                      *)
THEOREM KillsAreFinal ==
    ASSUME ~SelfKill
    PROVE  Spec => KillIsFinal
<1>1. Init => PInv
  BY InitHolds, LayerStarts DEF PInv
<1>2. PInv /\ [Next]_vars => PInv'
  BY NextKeeps, RunnerStaysUnkilled DEF PInv
<1>3. PInv /\ [Next]_vars
        => [\A p \in Proc : p \in Live /\ st[p] = "DELETE" => st'[p] = "DELETE"]_vars
  <2> SUFFICES ASSUME PInv, Next, NEW p \in Live, st[p] = "DELETE", p = current
               PROVE  st'[p] = "DELETE"
    BY MarkStays DEF PInv
  <2>1. kernel # "run"
    BY DEF PInv, RunnerIsNotKilled
  <2>2. Dispatch
    BY <2>1 DEF Next, InitSteps, Interrupts, SystemCalls, BootCreate, BootLock, BootLink,
       BootUnlock, BootForeground, InInit, Tick, KeyPress, EscapeKey, sys_exec, sys_end,
       sys_kill, sys_set_foreground, sys_yield, sys_wait, ReadInBackground, ReadInForeground,
       ReadReturns, ReadBlocks, ReadYields, InUser, InReadLoop
  <2>3. p \in Proc /\ p # InitProc
    BY DEF Live, PInv, IInv, InitIsReady
  <2>4. CASE ReapDeleted
    <3>1. \A q \in Proc : st'[q] = st[q] \/ (st[q] = "BLOCKED_FOREGROUND" /\ st'[q] = "READY")
      BY <2>3, <2>4, DestroyEffect DEF ReapDeleted, PInv, IInv, InitIsReady
    <3> QED
      BY <2>3, <3>1
  <2> QED
    BY <2>2, <2>4 DEF Dispatch, SkipBlocked, Resume, pcb
<1> QED
  BY <1>1, <1>2, <1>3, PTL DEF Spec, KillIsFinal
=============================================================================
