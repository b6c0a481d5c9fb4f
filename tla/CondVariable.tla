---------------------------- MODULE CondVariable ----------------------------
(***************************************************************************)
(* The condition variables of Kernel/condVariable.c, over the mutexes.     *)
(*                                                                         *)
(* cond_wait is two steps: up to its yield with interrupts off, and from   *)
(* the wake-up on, when it locks the mutex again (it may then wait for it  *)
(* like any mutex_lock).  The mutex that guards each queue is left out: it *)
(* is only used with interrupts off and is never found locked.             *)
(***************************************************************************)
EXTENDS KernelMutex

CONSTANT MAX_COND_VAR

VARIABLES
    cstate, process_queue, \* the fields of open_conds
    waits                  \* the condition and the mutex of a cond_wait that
                           \* has not been given the processor again

cvars == <<cstate, process_queue, waits>>
allvars == <<vars, cvars>>

Cond == 0 .. MAX_COND_VAR - 1

CondInit ==
    /\ Init
    /\ cstate = [c \in Cond |-> "CLOSED"]
    /\ process_queue = [c \in Cond |-> <<>>]
    /\ waits = [p \in Proc |-> NULL]

is_open_cond(c) == c \in Cond /\ cstate[c] = "OPEN"

sync_enqueue(c, p) == process_queue' = [process_queue EXCEPT ![c] = enqueue(@, p)]
sync_dequeue(c) == process_queue' = [process_queue EXCEPT ![c] = SubSeq(@, 2, Len(@))]

(* p runs its program, outside cond_wait.                                  *)
Calls(p) == Runs(p) /\ waits[p] = NULL

cond_open(p, c) ==
    /\ Calls(p)
    /\ ~is_open_cond(c) /\ \A d \in Cond : d < c => is_open_cond(d)
    /\ cstate' = [cstate EXCEPT ![c] = "OPEN"]
    /\ process_queue' = [process_queue EXCEPT ![c] = <<>>]
    /\ UNCHANGED <<vars, waits>>

(* Programs wait with the mutex in their hands, or so they believe: it may *)
(* have been closed (external).  What its unlock returns is not looked at. *)
cond_wait(p, c, k) ==
    /\ Calls(p) /\ is_open_cond(c)
    /\ k \in holds[p]
    /\ \/ is_open(k) /\ Unlocks(p, k)
       \/ ~is_open(k) /\ holds' = [holds EXCEPT ![p] = @ \ {k}] /\ UNCHANGED <<queue, locked>>
    /\ st' = block_process(unblock_processes(st, IF is_open(k) THEN NextOwner(k) ELSE {}), p)
    /\ sync_enqueue(c, p)
    /\ waits' = [waits EXCEPT ![p] = [cond |-> c, lock |-> k]]
    /\ UNCHANGED <<state, alive, at, lost, misused, cstate>>

Woken(p) == p \in alive /\ st[p] = "READY" /\ waits[p] # NULL

(* The mutex was closed meanwhile: p goes on as if it had it.              *)
GoesOnWithout(p, k) ==
    /\ ~is_open(k)
    /\ holds' = [holds EXCEPT ![p] = @ \cup {k}]
    /\ misused' = misused \cup {k}
    /\ UNCHANGED <<mutexes, alive, st, at, lost>>

CondWaitGoesOn_NoQueue(p) ==
    /\ Woken(p)
    /\ waits' = [waits EXCEPT ![p] = NULL]
    /\ LET k == waits[p].lock
       IN  \/ GoesOnWithout(p, k)
           \/ /\ is_open(k)
              /\ holds' = [holds EXCEPT ![p] = @ \cup {k}]
              /\ locked' = [locked EXCEPT ![k] = "LOCKED"]
              /\ UNCHANGED <<state, queue, alive, st, at, lost, misused>>
    /\ UNCHANGED <<cstate, process_queue>>

(* After the yield: mutex_lock, whose result is not looked at.             *)
CondWaitGoesOn(p) ==
    /\ Woken(p)
    /\ waits' = [waits EXCEPT ![p] = NULL]
    /\ mutex_lock(p, waits[p].lock) \/ GoesOnWithout(p, waits[p].lock)
    /\ UNCHANGED <<cstate, process_queue>>

cond_signal_Newest(p, c) ==
    /\ Calls(p) /\ is_open_cond(c)
    /\ LET q == process_queue[c]
           n == Len(q)
       IN  /\ st' = unblock_processes(st, {q[i] : i \in {n} \cap DOMAIN q})
           /\ process_queue' = [process_queue EXCEPT ![c] = SubSeq(q, 1, n - 1)]
    /\ UNCHANGED <<mutexes, alive, at, holds, lost, misused, cstate, waits>>

(* The first of the queue is woken, if it was not killed: the signal does  *)
(* not go to the next one, unlike an unlock.                               *)
cond_signal(p, c) ==
    /\ Calls(p) /\ is_open_cond(c)
    /\ LET q == process_queue[c]
       IN  st' = unblock_processes(st, {q[i] : i \in {1} \cap DOMAIN q})
    /\ sync_dequeue(c)
    /\ UNCHANGED <<mutexes, alive, at, holds, lost, misused, cstate, waits>>

cond_broadcast(p, c) ==
    /\ Calls(p) /\ is_open_cond(c)
    /\ st' = unblock_processes(st, ToSet(process_queue[c]))
    /\ process_queue' = [process_queue EXCEPT ![c] = <<>>]
    /\ UNCHANGED <<mutexes, alive, at, holds, lost, misused, cstate, waits>>

cond_close_NoBroadcast(p, c) ==
    /\ Calls(p) /\ is_open_cond(c)
    /\ process_queue' = [process_queue EXCEPT ![c] = <<>>]
    /\ cstate' = [cstate EXCEPT ![c] = "CLOSED"]
    /\ UNCHANGED <<vars, waits>>

cond_close(p, c) ==
    /\ Calls(p) /\ is_open_cond(c)
    /\ st' = unblock_processes(st, ToSet(process_queue[c]))
    /\ process_queue' = [process_queue EXCEPT ![c] = <<>>]
    /\ cstate' = [cstate EXCEPT ![c] = "CLOSED"]
    /\ UNCHANGED <<mutexes, alive, at, holds, lost, misused, waits>>

-----------------------------------------------------------------------------
(* The calls of KernelMutex and the ends of processes, in programs that    *)
(* also wait for conditions.  A killed waiter stays in the queue.          *)

MutexCalls(p, k) ==
    /\ waits[p] = NULL
    /\ mutex_open(p, k) \/ mutex_close(p, k) \/ mutex_lock(p, k) \/ mutex_unlock(p, k)
    /\ UNCHANGED cvars

Ends(p) ==
    /\ waits[p] = NULL /\ end_process(p)
    /\ UNCHANGED cvars

Kills(p, q) ==
    /\ waits[p] = NULL /\ kill_process(p, q)
    /\ waits' = [waits EXCEPT ![q] = NULL]
    /\ UNCHANGED <<cstate, process_queue>>

Creates(p) ==
    /\ PageReuse \/ \A c \in Cond : p \notin ToSet(process_queue[c])
    /\ create_process(p)
    /\ UNCHANGED cvars

CondNext ==
    \/ \E p \in Proc, c \in Cond :
         \/ cond_open(p, c) \/ cond_signal(p, c) \/ cond_broadcast(p, c) \/ cond_close(p, c)
         \/ \E k \in Key : cond_wait(p, c, k)
    \/ \E p \in Proc, k \in Key : MutexCalls(p, k)
    \/ \E p \in Proc :
         \/ CondWaitGoesOn(p) \/ Ends(p) \/ Creates(p)
         \/ LockReturns(p) /\ UNCHANGED cvars
         \/ destroy_process(p) /\ UNCHANGED cvars
    \/ \E p, q \in Proc : Kills(p, q)

CondSpec == CondInit /\ [][CondNext]_allvars

(* As in KernelMutex: ready processes run, and programs unlock.            *)
CondFairness ==
    \A p \in Proc :
        /\ WF_allvars(LockReturns(p) /\ UNCHANGED cvars)
        /\ WF_allvars(CondWaitGoesOn(p))
        /\ \A k \in Key : WF_allvars(waits[p] = NULL /\ mutex_unlock(p, k) /\ UNCHANGED cvars)

-----------------------------------------------------------------------------
(* Properties. *)

Asleep(p, c) == p \in alive /\ st[p] = "BLOCKED" /\ waits[p] # NULL /\ waits[p].cond = c

(* Nobody sleeps where no signal, broadcast or close can find it: who is   *)
(* blocked in cond_wait is in the queue of that open condition, once, and  *)
(* the queue has nobody else but the killed (condVariable.c:74-87, 98-125).*)
SleeperIsQueued ==
    \A p \in Proc, c \in Cond :
        Asleep(p, c) <=> (st[p] # "DELETE" /\ \E i \in DOMAIN process_queue[c] :
            process_queue[c][i] = p
            /\ \A j \in DOMAIN process_queue[c] : process_queue[c][j] = p => j = i)

(* Waiting leaves the mutex to the others and takes it back: at no time do *)
(* two have it, and it is never left locked by somebody who sleeps         *)
(* (cond_wait, "recupere mutex de zona critica", condVariable.c:82).  A    *)
(* mutex closed in use is excepted as in KernelMutex, and so is one whose  *)
(* sleeper wakes up to find it closed and goes on without it.              *)
MutexSurvivesWaiting == MutualExclusion /\ LockedForSomebody

(* If a condition goes on being signalled every sleeper returns from       *)
(* cond_wait, killed sleepers in the queue or not, as long as nobody goes  *)
(* away with a mutex (condVariable.c:89-99).                               *)
SignalsReachEveryone ==
    \A c \in Cond :
        ([](lost = {}) /\ []<><<\E p \in Proc : cond_signal(p, c)>>_allvars)
          => \A p \in Proc : (waits[p] # NULL /\ waits[p].cond = c)
                               ~> (waits[p] = NULL /\ at[p] = NULL)
=============================================================================
