---------------------------- MODULE KernelMutex ----------------------------
(***************************************************************************)
(* The mutexes of Kernel/kernelMutex.c, used by processes that come, go    *)
(* and are killed.                                                         *)
(*                                                                         *)
(* The code runs with interrupts off up to the yield of mutex_lock, so a   *)
(* system call is one step, and the return of a mutex_lock that waited is  *)
(* another: it happens when the scheduler runs the process again, that is, *)
(* when it is ready (Processes).  lock_array never has to wait.  Names are *)
(* left out: opening a name that is found before the first closed entry    *)
(* changes nothing, and any other name takes that entry.                   *)
(*                                                                         *)
(* A definition named X_Y is X with the mistake Y: the properties are      *)
(* tested against it, and nothing else uses it.                            *)
(*                                                                         *)
(* holds says which mutexes each program believes it has, from the returns *)
(* of its own calls: the kernel keeps no owner, and a mutex_close tells    *)
(* nobody.                                                                 *)
(***************************************************************************)
EXTENDS Integers, FiniteSets, Sequences, SequencesExt

CONSTANTS
    Proc,      \* the pages that may hold a process control block
    NULL,
    MAX_MUTEXES,
    PageReuse  \* may a new process get a page that a queue still points to?

ASSUME MutexAssumption ==
    /\ MAX_MUTEXES \in Nat
    /\ Proc \cap Int = {} /\ NULL \notin Proc \cup Int
    /\ PageReuse \in BOOLEAN

Key == 0 .. MAX_MUTEXES - 1

VARIABLES
    state, locked, queue, \* the fields of open_mutexes
    alive,     \* the processes, from creation to destruction
    st,        \* the status of each control block, destroyed or not
    at,        \* the mutex whose mutex_lock a process has yet to return from
    holds,     \* the mutexes a program believes it has
    lost,      \* history: the open mutexes whose holder is gone
    misused    \* history: the mutexes that were closed while somebody used them,
               \* or that a wake-up found closed, until they are opened with
               \* nobody who believes to have them

mutexes == <<state, locked, queue>>
vars == <<mutexes, alive, st, at, holds, lost, misused>>

Init ==
    /\ state = [k \in Key |-> "CLOSED"]
    /\ locked = [k \in Key |-> "UNLOCKED"]
    /\ queue = [k \in Key |-> <<>>]
    /\ alive \in SUBSET Proc \ {{}}
    /\ st = [p \in Proc |-> "READY"]
    /\ at = [p \in Proc |-> NULL]
    /\ holds = [p \in Proc |-> {}]
    /\ lost = {}
    /\ misused = {}

is_open(k) == k \in Key /\ state[k] = "OPEN"

block_process(s, p) == IF s[p] # "DELETE" THEN [s EXCEPT ![p] = "BLOCKED"] ELSE s

unblock_processes(s, P) ==
    [p \in Proc |-> IF p \in P /\ s[p] # "DELETE" THEN "READY" ELSE s[p]]

enqueue_First(q, p) == <<p>> \o q

enqueue(q, p) == Append(q, p)

(* p runs its program.                                                     *)
Runs(p) == p \in alive /\ st[p] = "READY" /\ at[p] = NULL

(* What p's program believes to have, or will as soon as it runs.          *)
Has(p) == holds[p] \cup (IF st[p] = "BLOCKED" THEN {} ELSE {at[p]} \cap Key)

-----------------------------------------------------------------------------
mutex_open(p, k) ==
    /\ Runs(p)
    /\ ~is_open(k) /\ \A j \in Key : j < k => is_open(j)
    /\ state' = [state EXCEPT ![k] = "OPEN"]
    /\ locked' = [locked EXCEPT ![k] = "UNLOCKED"]
    /\ queue' = [queue EXCEPT ![k] = <<>>]
    /\ misused' = IF \E q \in Proc : k \in Has(q) THEN misused ELSE misused \ {k}
    /\ UNCHANGED <<alive, st, at, holds, lost>>

Misuses(k) ==
    misused' = IF \E q \in Proc : k \in holds[q] \cup {at[q]} THEN misused \cup {k} ELSE misused

mutex_close_NoUnblock(p, k) ==
    /\ Runs(p)
    /\ is_open(k)
    /\ queue' = [queue EXCEPT ![k] = <<>>]
    /\ state' = [state EXCEPT ![k] = "CLOSED"]
    /\ lost' = lost \ {k}
    /\ Misuses(k)
    /\ UNCHANGED <<locked, alive, st, at, holds>>

(* Every waiter is released, and its mutex_lock will return 1 as if it had *)
(* the mutex; whoever locked it goes on as before.  Closing is for mutexes *)
(* nobody uses (the report, p. 7): the code does not check, so it may      *)
(* happen at any time here.                                                *)
mutex_close(p, k) ==
    /\ Runs(p)
    /\ is_open(k)
    /\ st' = unblock_processes(st, ToSet(queue[k]))
    /\ queue' = [queue EXCEPT ![k] = <<>>]
    /\ state' = [state EXCEPT ![k] = "CLOSED"]
    /\ lost' = lost \ {k}
    /\ Misuses(k)
    /\ UNCHANGED <<locked, alive, at, holds>>

(* Programs do not lock a mutex they have (external).                      *)
mutex_lock(p, k) ==
    /\ Runs(p) /\ is_open(k)
    /\ k \notin holds[p]
    /\ locked' = [locked EXCEPT ![k] = "LOCKED"]
    /\ IF locked[k] = "UNLOCKED"
       THEN /\ holds' = [holds EXCEPT ![p] = @ \cup {k}]
            /\ UNCHANGED <<queue, st, at>>
       ELSE /\ queue' = [queue EXCEPT ![k] = enqueue(@, p)]
            /\ st' = block_process(st, p)
            /\ at' = [at EXCEPT ![p] = k]
            /\ UNCHANGED holds
    /\ UNCHANGED <<state, alive, lost, misused>>

(* After the yield nothing is looked at again.                             *)
LockReturns(p) ==
    /\ p \in alive /\ st[p] = "READY" /\ at[p] # NULL
    /\ at' = [at EXCEPT ![p] = NULL]
    /\ holds' = [holds EXCEPT ![p] = @ \cup {at[p]}]
    /\ UNCHANGED <<mutexes, alive, st, lost, misused>>

Turn_NoSkip(k) == 1

(* The place in the queue of the first waiter that is not marked; one past *)
(* the end when there is none.                                             *)
Turn(k) ==
    CHOOSE i \in 1 .. Len(queue[k]) + 1 :
        /\ i <= Len(queue[k]) => st[queue[k][i]] # "DELETE"
        /\ \A j \in 1 .. i - 1 : st[queue[k][j]] = "DELETE"

(* Who gets the mutex next, if anybody.                                    *)
NextOwner(k) == {queue[k][i] : i \in {Turn(k)} \cap DOMAIN queue[k]}

Unlocks_NotHandedOver(p, k) ==
    /\ holds' = [holds EXCEPT ![p] = @ \ {k}]
    /\ queue' = [queue EXCEPT ![k] = SubSeq(@, Turn(k) + 1, Len(@))]
    /\ locked' = [locked EXCEPT ![k] = "UNLOCKED"]

(* The mutex goes to the first waiter and stays locked.                    *)
Unlocks(p, k) ==
    /\ holds' = [holds EXCEPT ![p] = @ \ {k}]
    /\ queue' = [queue EXCEPT ![k] = SubSeq(@, Turn(k) + 1, Len(@))]
    /\ locked' = [locked EXCEPT ![k] = IF NextOwner(k) = {} THEN "UNLOCKED" ELSE "LOCKED"]

(* p gives up a mutex that is closed: only p's own idea of it changes.     *)
GivesUp(p, k) ==
    /\ ~is_open(k)
    /\ holds' = [holds EXCEPT ![p] = @ \ {k}]
    /\ UNCHANGED <<queue, locked, st>>

mutex_unlock_Forgets(p, k) ==
    /\ Runs(p) /\ k \in holds[p]
    /\ \/ GivesUp(p, k)
       \/ is_open(k) /\ Unlocks(p, k) /\ UNCHANGED st
    /\ UNCHANGED <<state, alive, at, lost, misused>>

(* Programs unlock what they believe to have (external); the code unlocks  *)
(* whatever is open, even if since then another process has locked it.     *)
mutex_unlock(p, k) ==
    /\ Runs(p) /\ k \in holds[p]
    /\ \/ GivesUp(p, k)
       \/ is_open(k) /\ Unlocks(p, k) /\ st' = unblock_processes(st, NextOwner(k))
    /\ UNCHANGED <<state, alive, at, lost, misused>>

-----------------------------------------------------------------------------
(* Processes (process.c, processManager.c; see Scheduler). *)

Gone(p) ==
    /\ lost' = lost \cup {k \in Has(p) : is_open(k)}
    /\ holds' = [holds EXCEPT ![p] = {}]
    /\ at' = [at EXCEPT ![p] = NULL]

(* A waiter that is killed stays in the queue.                             *)
kill_process(p, q) ==
    /\ Runs(p) /\ q \in alive \ {p} /\ st[q] # "DELETE"
    /\ st' = [st EXCEPT ![q] = "DELETE"]
    /\ Gone(q)
    /\ UNCHANGED <<mutexes, alive, misused>>

end_process(p) ==
    /\ Runs(p)
    /\ alive' = alive \ {p}
    /\ Gone(p)
    /\ UNCHANGED <<mutexes, st, misused>>

(* The scheduler destroys a marked process; its page keeps the mark.       *)
destroy_process(p) ==
    /\ p \in alive /\ st[p] = "DELETE"
    /\ alive' = alive \ {p}
    /\ UNCHANGED <<mutexes, st, at, holds, lost, misused>>

(* A killed waiter's page may be taken again while a queue points to it:   *)
(* the allocator does not know.  What mutex_unlock finds there is then the *)
(* status of another process.  PageReuse = FALSE leaves such programs out. *)
create_process(p) ==
    /\ p \notin alive
    /\ PageReuse \/ \A k \in Key : p \notin ToSet(queue[k])
    /\ alive' = alive \cup {p}
    /\ st' = [st EXCEPT ![p] = "READY"]
    /\ UNCHANGED <<mutexes, at, holds, lost, misused>>

Next ==
    \/ \E p \in Proc, k \in Key :
         mutex_open(p, k) \/ mutex_close(p, k) \/ mutex_lock(p, k) \/ mutex_unlock(p, k)
    \/ \E p \in Proc : LockReturns(p) \/ end_process(p) \/ destroy_process(p) \/ create_process(p)
    \/ \E p, q \in Proc : kill_process(p, q)

Spec == Init /\ [][Next]_vars

(* A ready process gets to run (Scheduler, ReadyRuns), and programs unlock *)
(* what they have locked.                                                  *)
Fairness ==
    \A p \in Proc :
        /\ WF_vars(LockReturns(p))
        /\ \A k \in Key : WF_vars(mutex_unlock(p, k))

FairSpec == Spec /\ Fairness
-----------------------------------------------------------------------------
(* Properties. *)

TypeOK ==
    /\ state \in [Key -> {"OPEN", "CLOSED"}]
    /\ locked \in [Key -> {"LOCKED", "UNLOCKED"}]
    /\ queue \in [Key -> Seq(Proc)]
    /\ alive \subseteq Proc
    /\ st \in [Proc -> {"READY", "BLOCKED", "DELETE"}]
    /\ at \in [Proc -> Key \cup {NULL}]
    /\ holds \in [Proc -> SUBSET Key]
    /\ lost \subseteq Key /\ misused \subseteq Key
    /\ \A k \in Key : ~is_open(k) => queue[k] = <<>>

(* Two programs never believe to have the same mutex: the hand-over in     *)
(* mutex_unlock, which unlocks, wakes a waiter and locks again, lets nobody*)
(* in between, even when waiters are killed (kernelMutex.c:99-153).  A     *)
(* mutex that was closed in use is excepted until it is opened with nobody *)
(* left who believes to have it: its released waiters all do, an old holder*)
(* may unlock what another has locked since, and then two do have it       *)
(* (kernelMutex.c:78-97, 129-153).                                         *)
MutualExclusion ==
    \A p, q \in Proc : p # q => Has(p) \cap Has(q) \subseteq misused

(* An open mutex is locked only while somebody has it or went away with    *)
(* it, so that no unlock is forgotten, and it is locked all that time, so  *)
(* that no hand-over is lost - this one unless it was closed in use.       *)
LockedForSomebody ==
    \A k \in Key : is_open(k) =>
        LET taken == k \in lost \cup UNION {Has(p) : p \in Proc}
        IN  /\ locked[k] = "LOCKED" => taken
            /\ taken /\ k \notin misused => locked[k] = "LOCKED"

(* Nobody sleeps outside a queue: a process is blocked exactly while the   *)
(* queue of the open mutex it waits for has it, once - "si se bloquea y no *)
(* encola ... nunca desbloqueara" (kernelMutex.c:109-112).                 *)
BlockedIsQueued ==
    \A p \in Proc, k \in Key :
        (p \in alive /\ st[p] = "BLOCKED" /\ at[p] = k)
          <=> (st[p] # "DELETE" /\ \E i \in DOMAIN queue[k] :
                 queue[k][i] = p /\ \A j \in DOMAIN queue[k] : queue[k][j] = p => j = i)

(* Who waits for a mutex is woken (kernelMutex.c:136-146), provided        *)
(* programs neither wait for a mutex while they have another one nor end   *)
(* or die with one.                                                        *)
WaiterIsServed ==
    [](lost = {} /\ \A p \in Proc : at[p] # NULL => holds[p] = {})
      => \A p \in Proc : st[p] = "BLOCKED" ~> st[p] # "BLOCKED"

-----------------------------------------------------------------------------
(* The abstraction: the processes that wait for a lock are those of its    *)
(* queue that were not killed.                                             *)

(* Who died with a mutex, and whoever used one that was closed.            *)
Nobody == MAX_MUTEXES
Anybody == MAX_MUTEXES + 1

Owner == [k \in Key |->
    IF k \in misused THEN Anybody
    ELSE IF k \in lost THEN Nobody
    ELSE IF \E p \in Proc : k \in Has(p) THEN CHOOSE p \in Proc : k \in Has(p)
    ELSE NULL]

Before(k, p, q) ==
    /\ st[p] # "DELETE" /\ st[q] # "DELETE"
    /\ \E i, j \in DOMAIN queue[k] : i <= j /\ queue[k][i] = p /\ queue[k][j] = q

Line == [k \in Key |-> {x \in Proc \X Proc : Before(k, x[1], x[2])}]

Lock == INSTANCE FifoLock WITH owner <- Owner, line <- Line

(* Every step of the mutexes and of the processes is a step of a lock with *)
(* one owner, until it is closed in use, and always with a first-come,     *)
(* first-served line (kernelMutex.c:78-153).                               *)
ImplementsFifoLock == Lock!Spec
=============================================================================
