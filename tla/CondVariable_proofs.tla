------------------------- MODULE CondVariable_proofs -------------------------
(***************************************************************************)
(* The mutexes of KernelMutex and the condition variables of CondVariable, *)
(* for any number of processes, mutexes and conditions, where no page that *)
(* a queue still points to is given to a new process: an inductive         *)
(* invariant of the mutexes, and what follows from it; then that it goes   *)
(* on holding when programs also wait for conditions, and that with what   *)
(* is added to it for the queues of the conditions it is inductive.        *)
(***************************************************************************)
EXTENDS CondVariable, OrderLemmas

-----------------------------------------------------------------------------
(* The mutexes. *)

(* A queue has nobody twice.                                               *)
QueuedOnce ==
    \A k \in Key : \A i, j \in DOMAIN queue[k] : queue[k][i] = queue[k][j] => i = j

(* Who is in a queue sleeps there, or was killed.                          *)
QueuedSleeps ==
    \A k \in Key : \A i \in DOMAIN queue[k] :
        \/ st[queue[k][i]] = "DELETE"
        \/ queue[k][i] \in alive /\ st[queue[k][i]] = "BLOCKED" /\ at[queue[k][i]] = k

(* Who is blocked in mutex_lock is in the queue of that mutex.             *)
SleeperIsInLine ==
    \A p \in Proc : (st[p] = "BLOCKED" /\ at[p] # NULL) =>
        at[p] \in Key /\ \E i \in DOMAIN queue[at[p]] : queue[at[p]][i] = p

(* The dead and the marked have nothing and wait for nothing.              *)
GoneHaveNothing ==
    \A p \in Proc : (p \notin alive \/ st[p] = "DELETE") => at[p] = NULL /\ holds[p] = {}

(* A mutex is with one process, or lost with the one who had it.           *)
OneOwner ==
    \A k \in Key \ misused, p \in Proc : k \in Has(p) =>
        k \notin lost /\ \A q \in Proc : k \in Has(q) => q = p

Taken(k) == k \in lost \/ \E p \in Proc : k \in Has(p)

(* Only open mutexes are taken, and those are the locked ones; what was    *)
(* closed in use may be taken while it is closed, or unlocked.             *)
LockedIsTaken ==
    \A k \in Key :
        /\ k \in lost => is_open(k)
        /\ Taken(k) => is_open(k) \/ k \in misused
        /\ is_open(k) /\ locked[k] = "LOCKED" => Taken(k)
        /\ is_open(k) /\ Taken(k) => locked[k] = "LOCKED" \/ k \in misused

MInv ==
    /\ TypeOK
    /\ QueuedOnce /\ QueuedSleeps /\ SleeperIsInLine
    /\ GoneHaveNothing /\ OneOwner /\ LockedIsTaken

(* In KernelMutex nobody sleeps anywhere else.                             *)
SleepsInLock == \A p \in Proc : st[p] = "BLOCKED" => at[p] # NULL

IInv == MInv /\ SleepsInLock

-----------------------------------------------------------------------------
(* Lemmas. *)

(* The first waiter that is not marked exists, or there is none and Turn   *)
(* is one past the end (the loop of mutex_unlock, kernelMutex.c:136-146).  *)
LEMMA TurnIsFirst ==
    ASSUME TypeOK, NEW k \in Key
    PROVE  /\ Turn(k) \in 1 .. Len(queue[k]) + 1
           /\ Turn(k) <= Len(queue[k]) => st[queue[k][Turn(k)]] # "DELETE"
           /\ \A j \in 1 .. Turn(k) - 1 : st[queue[k][j]] = "DELETE"
<1> DEFINE q == queue[k]
           Good(i) == /\ i <= Len(q) => st[q[i]] # "DELETE"
                      /\ \A j \in 1 .. i - 1 : st[q[j]] = "DELETE"
<1>1. q \in Seq(Proc) /\ Len(q) \in Nat
  BY DEF TypeOK
<1>2. \E i \in 1 .. Len(q) + 1 : Good(i)
  <2> DEFINE T == {i \in 1 .. Len(q) : st[q[i]] # "DELETE"}
  <2>1. CASE T = {}
    <3>1. Good(Len(q) + 1)
      BY <1>1, <2>1
    <3> QED
      BY <1>1, <3>1
  <2>2. CASE T # {}
    <3>1. T \in SUBSET Nat
      OBVIOUS
    <3>2. PICK m \in T : \A n \in T : m <= n
      BY <2>2, <3>1, SmallestOf
    <3>3. Good(m)
      <4>1. m \in 1 .. Len(q) /\ st[q[m]] # "DELETE"
        OBVIOUS
      <4>2. ASSUME NEW j \in 1 .. m - 1 PROVE st[q[j]] = "DELETE"
        BY <1>1, <3>2, <4>1
      <4> QED
        BY <4>1, <4>2
    <3> QED
      BY <3>3
  <2> QED
    BY <2>1, <2>2
<1>3. Turn(k) = CHOOSE i \in 1 .. Len(q) + 1 : Good(i)
  BY DEF Turn
<1> HIDE DEF Good
<1>4. Turn(k) \in 1 .. Len(q) + 1 /\ Good(Turn(k))
  BY <1>2, <1>3
<1> QED
  BY <1>4 DEF Good

(* What an unlock does: it drops the marked at the front of the queue and  *)
(* the waiter after them, who gets the mutex; with no such waiter the      *)
(* queue is left empty and the mutex unlocked.                             *)
LEMMA UnlockEffect ==
    ASSUME TypeOK, NEW p \in Proc, NEW k \in Key, Unlocks(p, k)
    PROVE  /\ queue' \in [Key -> Seq(Proc)]
           /\ locked' \in [Key -> {"LOCKED", "UNLOCKED"}]
           /\ holds' = [holds EXCEPT ![p] = @ \ {k}]
           /\ \A j \in Key \ {k} : queue'[j] = queue[j] /\ locked'[j] = locked[j]
           /\ \A i \in DOMAIN queue'[k] :
                Turn(k) + i \in DOMAIN queue[k] /\ queue'[k][i] = queue[k][Turn(k) + i]
           /\ \A i \in DOMAIN queue[k] : i > Turn(k) =>
                i - Turn(k) \in DOMAIN queue'[k] /\ queue'[k][i - Turn(k)] = queue[k][i]
           /\ \/ /\ Turn(k) \in DOMAIN queue[k]
                 /\ NextOwner(k) = {queue[k][Turn(k)]}
                 /\ locked'[k] = "LOCKED"
              \/ /\ Turn(k) = Len(queue[k]) + 1 /\ NextOwner(k) = {}
                 /\ queue'[k] = <<>> /\ locked'[k] = "UNLOCKED"
<1> DEFINE q == queue[k]
           t == Turn(k)
<1>1. q \in Seq(Proc) /\ Len(q) \in Nat /\ DOMAIN q = 1 .. Len(q)
  BY DEF TypeOK
<1>2. t \in 1 .. Len(q) + 1
  BY TurnIsFirst
<1>3. queue' = [queue EXCEPT ![k] = SubSeq(q, t + 1, Len(q))]
  BY DEF Unlocks, TypeOK
<1>4. queue'[k] = SubSeq(q, t + 1, Len(q))
  BY <1>3 DEF TypeOK
<1>5. NextOwner(k) = {q[i] : i \in {t} \cap DOMAIN q}
  BY DEF NextOwner
<1> HIDE DEF q, t
<1>6. /\ queue'[k] \in Seq(Proc)
      /\ t >= Len(q) => queue'[k] = <<>>
      /\ \A i \in DOMAIN queue'[k] : t + i \in DOMAIN q /\ queue'[k][i] = q[t + i]
      /\ \A i \in DOMAIN q : i > t => i - t \in DOMAIN queue'[k] /\ queue'[k][i - t] = q[i]
  BY <1>1, <1>2, <1>4, DropFirst
<1>7. /\ queue' \in [Key -> Seq(Proc)]
      /\ \A j \in Key \ {k} : queue'[j] = queue[j] /\ locked'[j] = locked[j]
      /\ locked' \in [Key -> {"LOCKED", "UNLOCKED"}]
      /\ locked'[k] = IF NextOwner(k) = {} THEN "UNLOCKED" ELSE "LOCKED"
  BY <1>3, <1>4, <1>6 DEF Unlocks, TypeOK
<1>8. \/ /\ t \in DOMAIN q /\ NextOwner(k) = {q[t]} /\ locked'[k] = "LOCKED"
      \/ /\ t = Len(q) + 1 /\ NextOwner(k) = {} /\ queue'[k] = <<>> /\ locked'[k] = "UNLOCKED"
  <2>1. CASE t \in DOMAIN q
    <3>1. NextOwner(k) = {q[t]}
      BY <1>5, <2>1
    <3> QED
      BY <1>7, <2>1, <3>1
  <2>2. CASE t \notin DOMAIN q
    <3>1. t = Len(q) + 1 /\ NextOwner(k) = {}
      BY <1>1, <1>2, <1>5, <2>2
    <3> QED
      BY <1>1, <1>6, <1>7, <3>1
  <2> QED
    BY <2>1, <2>2
<1> QED
  BY <1>6, <1>7, <1>8 DEF Unlocks, q, t

(* NULL is no mutex.                                                       *)
LEMMA KeyFacts == NULL \notin Key
BY MutexAssumption DEF Key

(* Who has a mutex, one by one.                                            *)
LEMMA HasMember ==
    \A r, j : j \in Has(r) <=>
        j \in holds[r] \/ (st[r] # "BLOCKED" /\ at[r] = j /\ j \in Key)
BY DEF Has

(* No step of this kind changes who has what.                              *)
SameOwners == \A r \in Proc, j \in Key : j \in Has(r)' <=> j \in Has(r)

-----------------------------------------------------------------------------
(* The steps. *)

(* The invariant holds at the start, when no mutex is open.                *)
LEMMA InitIsFine == Init => IInv
<1> SUFFICES ASSUME Init PROVE IInv
  OBVIOUS
<1>1. TypeOK
  BY DEF Init, TypeOK, is_open
<1>2. QueuedOnce /\ QueuedSleeps
  BY DEF Init, QueuedOnce, QueuedSleeps
<1>3. SleeperIsInLine /\ GoneHaveNothing /\ SleepsInLock
  BY DEF Init, SleeperIsInLine, GoneHaveNothing, SleepsInLock
<1>4. \A k \in Key : ~Taken(k) /\ ~is_open(k)
  BY KeyFacts, HasMember DEF Init, Taken, is_open
<1>5. OneOwner /\ LockedIsTaken
  BY <1>4 DEF OneOwner, LockedIsTaken, Taken
<1> QED
  BY <1>1, <1>2, <1>3, <1>5 DEF IInv, MInv

(* Opening a mutex keeps the invariant: nobody has the entry that is taken *)
(* (mutex_open, kernelMutex.c:53-76).                                      *)
LEMMA OpenKeeps ==
    ASSUME MInv, NEW p \in Proc, NEW k \in Key, mutex_open(p, k)
    PROVE  /\ MInv' /\ SameOwners /\ queue' = queue
           /\ \A j \in Key : j \in misused' <=>
                j \in misused /\ (j = k => \E r \in Proc : k \in Has(r))
           /\ k \notin lost
<1> USE DEF MInv
<1>1. /\ ~is_open(k) /\ UNCHANGED <<alive, st, at, holds, lost>>
      /\ state' = [state EXCEPT ![k] = "OPEN"]
      /\ locked' = [locked EXCEPT ![k] = "UNLOCKED"]
      /\ queue' = [queue EXCEPT ![k] = <<>>]
      /\ misused' = IF \E r \in Proc : k \in Has(r) THEN misused ELSE misused \ {k}
  BY DEF mutex_open
<1>2. queue[k] = <<>> /\ queue' = queue
  BY <1>1 DEF TypeOK
<1>3. \A j \in Key : /\ is_open(j)' <=> is_open(j) \/ j = k
                     /\ locked'[j] = IF j = k THEN "UNLOCKED" ELSE locked[j]
  BY <1>1 DEF is_open, TypeOK
<1>4. TypeOK'
  BY <1>1, <1>2, <1>3 DEF TypeOK
<1>5. QueuedOnce' /\ QueuedSleeps' /\ SleeperIsInLine' /\ GoneHaveNothing'
  BY <1>1, <1>2 DEF QueuedOnce, QueuedSleeps, SleeperIsInLine, GoneHaveNothing
<1>6. \A r : Has(r)' = Has(r)
  BY <1>1 DEF Has
<1>7. \A j \in Key : j \in misused' <=> j \in misused /\ (j = k => \E r \in Proc : k \in Has(r))
  BY <1>1
<1>8. k \notin lost /\ \A j \in Key : Taken(j)' <=> Taken(j)
  BY <1>1, <1>6 DEF Taken, LockedIsTaken
<1>9. OneOwner'
  <2> SUFFICES ASSUME NEW j \in Key \ misused', NEW r \in Proc, j \in Has(r)
               PROVE  j \notin lost /\ \A q \in Proc : j \in Has(q) => q = r
    BY <1>1, <1>6 DEF OneOwner
  <2>1. j \notin misused
    BY <1>7
  <2> QED
    BY <2>1 DEF OneOwner
<1>10. LockedIsTaken'
  <2> SUFFICES ASSUME NEW j \in Key
               PROVE  /\ j \in lost' => is_open(j)'
                      /\ Taken(j)' => is_open(j)' \/ j \in misused'
                      /\ is_open(j)' /\ locked'[j] = "LOCKED" => Taken(j)'
                      /\ is_open(j)' /\ Taken(j)' => locked'[j] = "LOCKED" \/ j \in misused'
    BY DEF LockedIsTaken
  <2>1. CASE j = k
    <3>1. Taken(k) => k \in misused /\ \E r \in Proc : k \in Has(r)
      BY <1>1, <1>8 DEF LockedIsTaken, Taken
    <3> QED
      BY <1>1, <1>3, <1>7, <1>8, <2>1, <3>1
  <2>2. CASE j # k
    BY <1>1, <1>3, <1>7, <1>8, <2>2 DEF LockedIsTaken
  <2> QED
    BY <2>1, <2>2
<1> QED
  BY <1>2, <1>4, <1>5, <1>6, <1>7, <1>8, <1>9, <1>10 DEF SameOwners

(* Closing a mutex keeps it: all its waiters are released, so that nobody  *)
(* is left asleep in a queue that is gone, and as each of them and whoever *)
(* had the mutex go on as its owner, it is misused (mutex_close,           *)
(* kernelMutex.c:78-97).                                                   *)
LEMMA CloseKeeps ==
    ASSUME MInv, NEW p \in Proc, NEW k \in Key, mutex_close(p, k)
    PROVE  /\ MInv'
           /\ \A r \in Proc, j \in Key : j # k => (j \in Has(r)' <=> j \in Has(r))
           /\ \A j \in Key : j \in misused' <=>
                j \in misused \/ (j = k /\ \E r \in Proc : k \in holds[r] \/ at[r] = k)
           /\ ~(k \in misused') => ~Taken(k)'
           /\ \A r \in Proc : st'[r] = "DELETE" <=> st[r] = "DELETE"
<1> USE DEF MInv
<1>1. /\ st' = unblock_processes(st, ToSet(queue[k]))
      /\ queue' = [queue EXCEPT ![k] = <<>>]
      /\ state' = [state EXCEPT ![k] = "CLOSED"]
      /\ lost' = lost \ {k}
      /\ misused' = IF \E q \in Proc : k \in holds[q] \cup {at[q]} THEN misused \cup {k} ELSE misused
      /\ UNCHANGED <<locked, alive, at, holds>>
  BY DEF mutex_close, Misuses
<1>2. \A r \in Proc : r \in ToSet(queue[k]) <=> \E i \in DOMAIN queue[k] : queue[k][i] = r
  BY DEF ToSet
<1>3. \A r \in Proc : (st[r] = "BLOCKED" /\ at[r] = k) <=> (r \in ToSet(queue[k]) /\ st[r] # "DELETE")
  BY <1>2, KeyFacts DEF QueuedSleeps, SleeperIsInLine, TypeOK
<1>4. \A r \in Proc : st'[r] = IF st[r] = "BLOCKED" /\ at[r] = k THEN "READY" ELSE st[r]
  BY <1>1, <1>3 DEF unblock_processes
<1>5. \A j \in Key : /\ queue'[j] = IF j = k THEN <<>> ELSE queue[j]
                     /\ is_open(j)' <=> is_open(j) /\ j # k
  BY <1>1 DEF TypeOK, is_open
<1>6. TypeOK'
  <2>1. st' \in [Proc -> {"READY", "BLOCKED", "DELETE"}]
    BY <1>1 DEF TypeOK, unblock_processes
  <2>2. queue' \in [Key -> Seq(Proc)] /\ \A j \in Key : ~is_open(j)' => queue'[j] = <<>>
    BY <1>1, <1>5 DEF TypeOK
  <2>3. misused' \subseteq Key
    BY <1>1 DEF TypeOK
  <2> QED
    BY <1>1, <2>1, <2>2, <2>3 DEF TypeOK
<1>7. QueuedOnce'
  BY <1>5 DEF QueuedOnce
<1>8. QueuedSleeps'
  <2> SUFFICES ASSUME NEW j \in Key, NEW i \in DOMAIN queue'[j], st'[queue'[j][i]] # "DELETE"
               PROVE  LET r == queue'[j][i] IN r \in alive' /\ st'[r] = "BLOCKED" /\ at'[r] = j
    BY DEF QueuedSleeps
  <2>1. j # k /\ queue'[j] = queue[j] /\ queue[j][i] \in Proc
    BY <1>5, ElementOfSeq DEF TypeOK
  <2> QED
    BY <1>1, <1>4, <2>1 DEF QueuedSleeps
<1>9. SleeperIsInLine'
  BY <1>1, <1>4, <1>5, KeyFacts DEF SleeperIsInLine
<1>10. GoneHaveNothing'
  BY <1>1, <1>4, KeyFacts DEF GoneHaveNothing
<1>11. /\ \A r \in Proc, j \in Key : j # k => (j \in Has(r)' <=> j \in Has(r))
       /\ \A r \in Proc : k \in Has(r)' => k \in holds[r] \/ at[r] = k
  <2>1. \A r \in Proc, j \in Key :
           j \in Has(r)' <=> j \in holds'[r] \/ (st'[r] # "BLOCKED" /\ at'[r] = j)
    BY DEF Has
  <2> QED
    BY <1>1, <1>4, <2>1, HasMember, KeyFacts
<1>12. \A j \in Key : j \in misused' <=>
          j \in misused \/ (j = k /\ \E r \in Proc : k \in holds[r] \/ at[r] = k)
  BY <1>1
<1>13. /\ \A j \in Key : j # k => (Taken(j)' <=> Taken(j))
       /\ ~(k \in misused') => ~Taken(k)'
  BY <1>1, <1>11, <1>12 DEF Taken
<1>14. OneOwner'
  <2> SUFFICES ASSUME NEW j \in Key, j \notin misused', NEW r \in Proc, j \in Has(r)'
               PROVE  j \notin lost' /\ \A q \in Proc : j \in Has(q)' => q = r
    BY DEF OneOwner
  <2>1. j # k /\ j \notin misused
    BY <1>11, <1>12
  <2> QED
    BY <1>1, <1>11, <2>1 DEF OneOwner
<1>15. LockedIsTaken'
  <2> SUFFICES ASSUME NEW j \in Key
               PROVE  /\ j \in lost' => is_open(j)'
                      /\ Taken(j)' => is_open(j)' \/ j \in misused'
                      /\ is_open(j)' /\ locked'[j] = "LOCKED" => Taken(j)'
                      /\ is_open(j)' /\ Taken(j)' => locked'[j] = "LOCKED" \/ j \in misused'
    BY DEF LockedIsTaken
  <2>1. CASE j = k
    BY <1>1, <1>5, <1>13, <2>1
  <2>2. CASE j # k
    BY <1>1, <1>5, <1>12, <1>13, <2>2 DEF LockedIsTaken
  <2> QED
    BY <2>1, <2>2
<1> QED
  BY <1>4, <1>6, <1>7, <1>8, <1>9, <1>10, <1>11, <1>12, <1>13, <1>14, <1>15

(* mutex_lock keeps it: an unlocked mutex is nobody's, so it may be taken, *)
(* unless it was closed in use, when another may believe to have it too;   *)
(* at a locked one the caller, which was in no queue, joins one and sleeps *)
(* (kernelMutex.c:99-120).                                                 *)
LEMMA LockKeeps ==
    ASSUME MInv, NEW p \in Proc, NEW k \in Key, mutex_lock(p, k)
    PROVE  /\ MInv'
           /\ \A j \in Key : \A i \in DOMAIN queue[j] : queue[j][i] # p
           /\ \/ /\ ~Taken(k) \/ k \in misused
                 /\ UNCHANGED <<queue, st>>
                 /\ \A r \in Proc, j \in Key :
                      j \in Has(r)' <=> j \in Has(r) \/ (r = p /\ j = k)
              \/ /\ Taken(k) /\ SameOwners
                 /\ queue' = [queue EXCEPT ![k] = Append(@, p)]
                 /\ st' = [st EXCEPT ![p] = "BLOCKED"]
<1> USE DEF MInv
<1>1. /\ p \in alive /\ st[p] = "READY" /\ at[p] = NULL /\ is_open(k) /\ k \notin holds[p]
      /\ locked' = [locked EXCEPT ![k] = "LOCKED"]
      /\ UNCHANGED <<state, alive, lost, misused>>
  BY DEF mutex_lock, Runs
<1>2. \A j \in Key : is_open(j)' <=> is_open(j)
  BY <1>1 DEF is_open
<1>5. \A j \in Key : \A i \in DOMAIN queue[j] : queue[j][i] # p
  BY <1>1 DEF QueuedSleeps
<1>3. CASE locked[k] = "UNLOCKED"
  <2>1. holds' = [holds EXCEPT ![p] = @ \cup {k}] /\ UNCHANGED <<queue, st, at>>
    BY <1>3 DEF mutex_lock
  <2>2. TypeOK'
    BY <1>1, <1>2, <2>1 DEF TypeOK
  <2>3. QueuedOnce' /\ QueuedSleeps' /\ SleeperIsInLine'
    BY <1>1, <2>1 DEF QueuedOnce, QueuedSleeps, SleeperIsInLine
  <2>4. \A r \in Proc : holds'[r] = IF r = p THEN holds[r] \cup {k} ELSE holds[r]
    BY <2>1 DEF TypeOK
  <2>5. GoneHaveNothing'
    BY <1>1, <2>1, <2>4 DEF GoneHaveNothing
  <2>6. \A r \in Proc, j \in Key : j \in Has(r)' <=> j \in Has(r) \/ (r = p /\ j = k)
    BY <2>1, <2>4 DEF Has
  <2>7. ~Taken(k) \/ k \in misused
    BY <1>1, <1>3 DEF LockedIsTaken
  <2>8. \A j \in Key : Taken(j)' <=> Taken(j) \/ j = k
    BY <1>1, <2>6 DEF Taken
  <2>10. OneOwner'
    BY <1>1, <2>6, <2>7 DEF OneOwner, Taken
  <2>9. LockedIsTaken'
    BY <1>1, <1>2, <2>8 DEF LockedIsTaken, TypeOK
  <2> QED
    BY <1>5, <2>1, <2>2, <2>3, <2>5, <2>6, <2>7, <2>9, <2>10
<1>4. CASE locked[k] # "UNLOCKED"
  <2>1. /\ queue' = [queue EXCEPT ![k] = Append(@, p)]
        /\ st' = [st EXCEPT ![p] = "BLOCKED"]
        /\ at' = [at EXCEPT ![p] = k]
        /\ holds' = holds
    BY <1>1, <1>4 DEF mutex_lock, enqueue, block_process
  <2>2. \A r \in Proc : /\ st'[r] = IF r = p THEN "BLOCKED" ELSE st[r]
                        /\ at'[r] = IF r = p THEN k ELSE at[r]
    BY <2>1 DEF TypeOK
  <2>3. /\ queue' \in [Key -> Seq(Proc)] /\ queue[k] \in Seq(Proc)
        /\ \A j \in Key : queue'[j] = IF j = k THEN Append(queue[k], p) ELSE queue[j]
    BY <2>1 DEF TypeOK
  <2>4. /\ DOMAIN queue[k] = 1 .. Len(queue[k]) /\ DOMAIN queue'[k] = 1 .. Len(queue[k]) + 1
        /\ Len(queue[k]) \in Nat
        /\ \A i \in DOMAIN queue[k] : queue'[k][i] = queue[k][i]
        /\ queue'[k][Len(queue[k]) + 1] = p
    BY <2>3, Appended
  <2>5. TypeOK'
    BY <1>1, <1>2, <2>1, <2>3 DEF TypeOK
  <2>7. \A j \in Key : \A i \in DOMAIN queue'[j] :
           \/ i \in DOMAIN queue[j] /\ queue'[j][i] = queue[j][i] /\ queue[j][i] \in Proc \ {p}
           \/ j = k /\ i = Len(queue[k]) + 1 /\ queue'[j][i] = p
    <3> TAKE j \in Key
    <3> TAKE i \in DOMAIN queue'[j]
    <3>1. CASE j = k
      <4>1. i \in DOMAIN queue[k] \/ i = Len(queue[k]) + 1
        BY <2>4, <3>1
      <4>2. i \in DOMAIN queue[k] => queue[k][i] \in Proc
        BY <2>3, <2>4, ElementOfSeq
      <4> QED
        BY <1>5, <2>4, <3>1, <4>1, <4>2
    <3>2. CASE j # k
      <4>1. queue[j] \in Seq(Proc) /\ queue'[j] = queue[j]
        BY <2>3, <3>2 DEF TypeOK
      <4>2. queue[j][i] \in Proc
        BY <4>1, LenProperties, ElementOfSeq
      <4> QED
        BY <1>5, <4>1, <4>2
    <3> QED
      BY <3>1, <3>2
  <2>8. QueuedOnce'
    <3> SUFFICES ASSUME NEW j \in Key, NEW i \in DOMAIN queue'[j], NEW l \in DOMAIN queue'[j],
                        queue'[j][i] = queue'[j][l]
                 PROVE  i = l
      BY DEF QueuedOnce
    <3> QED
      BY <2>7 DEF QueuedOnce
  <2>9. QueuedSleeps'
    BY <1>1, <2>2, <2>7 DEF QueuedSleeps
  <2>10. SleeperIsInLine'
    <3> SUFFICES ASSUME NEW r \in Proc, st'[r] = "BLOCKED", at'[r] # NULL
                 PROVE  at'[r] \in Key /\ \E i \in DOMAIN queue'[at'[r]] : queue'[at'[r]][i] = r
      BY DEF SleeperIsInLine
    <3>1. CASE r = p
      <4>1. at'[r] = k /\ Len(queue[k]) + 1 \in DOMAIN queue'[k]
        BY <2>2, <2>4, <3>1
      <4> QED
        BY <2>4, <3>1, <4>1
    <3>2. CASE r # p
      <4>1. at'[r] = at[r] /\ at[r] \in Key
        BY <2>2, <3>2 DEF SleeperIsInLine
      <4>2. PICK i \in DOMAIN queue[at[r]] : queue[at[r]][i] = r
        BY <2>2, <3>2 DEF SleeperIsInLine
      <4>3. CASE at[r] = k
        <5>1. i \in DOMAIN queue'[k] /\ queue'[k][i] = r
          BY <2>4, <4>2, <4>3
        <5> QED
          BY <4>1, <4>3, <5>1
      <4>4. CASE at[r] # k
        <5>1. queue'[at[r]] = queue[at[r]]
          BY <2>3, <4>1, <4>4
        <5> QED
          BY <4>1, <4>2, <5>1
      <4> QED
        BY <4>3, <4>4
    <3> QED
      BY <3>1, <3>2
  <2>11. GoneHaveNothing'
    BY <1>1, <2>1, <2>2 DEF GoneHaveNothing
  <2>12. \A r \in Proc, j \in Key : j \in Has(r)' <=> j \in Has(r)
    <3> TAKE r \in Proc, j \in Key
    <3>1. j \in Has(r)' <=> j \in holds'[r] \/ (st'[r] # "BLOCKED" /\ at'[r] = j)
      BY DEF Has
    <3> QED
      BY <1>1, <2>1, <2>2, <3>1, HasMember, KeyFacts
  <2>13. OneOwner' /\ \A j \in Key : Taken(j)' <=> Taken(j)
    BY <1>1, <2>12 DEF OneOwner, Taken
  <2>14. LockedIsTaken' /\ Taken(k)
    BY <1>1, <1>2, <1>4, <2>13 DEF LockedIsTaken, TypeOK
  <2> QED
    BY <1>5, <2>1, <2>5, <2>8, <2>9, <2>10, <2>11, <2>12, <2>13, <2>14 DEF SameOwners
<1> QED
  BY <1>3, <1>4

(* LockReturns keeps it: what the caller had been handed it now knows it   *)
(* has.                                                                    *)
LEMMA ReturnKeeps ==
    ASSUME MInv, NEW p \in Proc, LockReturns(p)
    PROVE  MInv' /\ SameOwners
<1> USE DEF MInv
<1>1. /\ p \in alive /\ st[p] = "READY" /\ at[p] # NULL
      /\ at' = [at EXCEPT ![p] = NULL]
      /\ holds' = [holds EXCEPT ![p] = @ \cup {at[p]}]
      /\ UNCHANGED <<state, locked, queue, alive, st, lost, misused>>
  BY DEF LockReturns, mutexes
<1>2. \A r \in Proc : /\ at'[r] = IF r = p THEN NULL ELSE at[r]
                      /\ holds'[r] = IF r = p THEN holds[p] \cup {at[p]} ELSE holds[r]
  BY <1>1 DEF TypeOK
<1>3. \A j \in Key : is_open(j)' <=> is_open(j)
  BY <1>1 DEF is_open
<1>4. TypeOK'
  BY <1>1, <1>3 DEF TypeOK
<1>5. \A j \in Key : \A i \in DOMAIN queue[j] : queue[j][i] \in Proc \ {p}
  <2> TAKE j \in Key
  <2> TAKE i \in DOMAIN queue[j]
  <2>1. queue[j] \in Seq(Proc)
    BY DEF TypeOK
  <2> QED
    BY <1>1, <2>1, LenProperties, ElementOfSeq DEF QueuedSleeps
<1>6. QueuedOnce' /\ QueuedSleeps'
  BY <1>1, <1>2, <1>5 DEF QueuedOnce, QueuedSleeps
<1>7. SleeperIsInLine' /\ GoneHaveNothing'
  BY <1>1, <1>2 DEF SleeperIsInLine, GoneHaveNothing
<1>8. \A r \in Proc, j \in Key : j \in Has(r)' <=> j \in Has(r)
  <2> TAKE r \in Proc, j \in Key
  <2>1. j \in Has(r)' <=> j \in holds'[r] \/ (st'[r] # "BLOCKED" /\ at'[r] = j)
    BY DEF Has
  <2> QED
    BY <1>1, <1>2, <2>1, HasMember, KeyFacts
<1>9. OneOwner' /\ \A j \in Key : Taken(j)' <=> Taken(j)
  BY <1>1, <1>8 DEF OneOwner, Taken
<1>10. LockedIsTaken'
  BY <1>1, <1>3, <1>9 DEF LockedIsTaken
<1> QED
  BY <1>4, <1>6, <1>7, <1>8, <1>9, <1>10 DEF SameOwners

(* Releasing a mutex keeps it, whether the caller goes on running, as in   *)
(* mutex_unlock, or sleeps: the mutex goes to the waiter who is woken, who *)
(* has it from then on, or is left unlocked and nobody's (kernelMutex.c:   *)
(* 122-153).                                                               *)
LEMMA UnlocksKeep ==
    ASSUME MInv, NEW p \in Proc, NEW k \in Key,
           p \in alive, st[p] = "READY", at[p] = NULL, is_open(k), k \in holds[p],
           Unlocks(p, k), UNCHANGED <<state, alive, at, lost, misused>>,
           st' \in [Proc -> {"READY", "BLOCKED", "DELETE"}],
           st'[p] \in {"READY", "BLOCKED"},
           \A r \in Proc \ {p} : st'[r] = IF r \in NextOwner(k) THEN "READY" ELSE st[r]
    PROVE  /\ MInv'
           /\ \A r \in NextOwner(k) : r \in Proc \ {p} /\ st[r] # "DELETE"
           /\ \A r \in Proc, j \in Key :
                j \in Has(r)' <=> \/ j \in Has(r) /\ ~(r = p /\ j = k)
                                  \/ r \in NextOwner(k) /\ j = k
<1> USE DEF MInv
<1> DEFINE q == queue[k]
           t == Turn(k)
<1>1. /\ queue' \in [Key -> Seq(Proc)]
      /\ locked' \in [Key -> {"LOCKED", "UNLOCKED"}]
      /\ holds' = [holds EXCEPT ![p] = @ \ {k}]
      /\ \A j \in Key \ {k} : queue'[j] = queue[j] /\ locked'[j] = locked[j]
      /\ \A i \in DOMAIN queue'[k] : t + i \in DOMAIN q /\ queue'[k][i] = q[t + i]
      /\ \A i \in DOMAIN q : i > t => i - t \in DOMAIN queue'[k] /\ queue'[k][i - t] = q[i]
      /\ \/ /\ t \in DOMAIN q /\ NextOwner(k) = {q[t]} /\ locked'[k] = "LOCKED"
         \/ /\ t = Len(q) + 1 /\ NextOwner(k) = {} /\ queue'[k] = <<>> /\ locked'[k] = "UNLOCKED"
  BY UnlockEffect
<1>2. /\ t \in 1 .. Len(q) + 1
      /\ t <= Len(q) => st[q[t]] # "DELETE"
      /\ \A j \in 1 .. t - 1 : st[q[j]] = "DELETE"
  BY TurnIsFirst
<1>3. q \in Seq(Proc) /\ Len(q) \in Nat /\ DOMAIN q = 1 .. Len(q)
  BY DEF TypeOK
<1>4. \A r \in NextOwner(k) : /\ r \in Proc \ {p} /\ r \in alive
                              /\ st[r] = "BLOCKED" /\ at[r] = k
  <2>1. t \in DOMAIN q => q[t] \in Proc
    BY <1>3, ElementOfSeq
  <2> QED
    BY <1>1, <1>2, <1>3, <2>1 DEF QueuedSleeps
<1>5. \A j \in Key : \A i \in DOMAIN queue[j] : queue[j][i] \in Proc \ {p}
  <2> TAKE j \in Key
  <2> TAKE i \in DOMAIN queue[j]
  <2>1. queue[j] \in Seq(Proc)
    BY DEF TypeOK
  <2> QED
    BY <2>1, LenProperties, ElementOfSeq DEF QueuedSleeps
<1> HIDE DEF t, q
<1>6. \A i \in DOMAIN queue'[k] :
         t + i \in DOMAIN q /\ queue'[k][i] = q[t + i] /\ q[t + i] \notin NextOwner(k)
  <2> TAKE i \in DOMAIN queue'[k]
  <2>1. t + i \in DOMAIN q /\ queue'[k][i] = q[t + i] /\ i \in Nat \ {0}
    <3>1. queue'[k] \in Seq(Proc)
      BY <1>1
    <3>2. i \in 1 .. Len(queue'[k])
      BY <3>1, LenProperties
    <3> QED
      BY <1>1, <3>1, <3>2
  <2>2. t \in DOMAIN q => q[t + i] # q[t]
    <3>1. t + i # t
      BY <1>2, <1>3, <2>1
    <3> QED
      BY <2>1, <3>1 DEF QueuedOnce, q
  <2> QED
    BY <1>1, <2>1, <2>2
<1>7. \A j \in Key : is_open(j)' <=> is_open(j)
  BY DEF is_open
<1>8. TypeOK'
  <2>1. ASSUME NEW j \in Key, ~is_open(j)'
        PROVE  queue'[j] = <<>>
    BY <1>1, <1>7, <2>1 DEF TypeOK
  <2> QED
    BY <1>1, <2>1 DEF TypeOK
<1>9. QueuedOnce'
  <2> SUFFICES ASSUME NEW j \in Key, NEW i \in DOMAIN queue'[j], NEW l \in DOMAIN queue'[j],
                      queue'[j][i] = queue'[j][l]
               PROVE  i = l
    BY DEF QueuedOnce
  <2>1. CASE j # k
    BY <1>1, <2>1 DEF QueuedOnce
  <2>2. CASE j = k
    <3>1. t + i = t + l
      BY <1>6, <2>2 DEF QueuedOnce, q
    <3>2. i \in Int /\ l \in Int
      BY <1>1, LenProperties
    <3> QED
      BY <1>2, <1>3, <3>1, <3>2
  <2> QED
    BY <2>1, <2>2
<1>10. QueuedSleeps'
  <2> SUFFICES ASSUME NEW j \in Key, NEW i \in DOMAIN queue'[j], st'[queue'[j][i]] # "DELETE"
               PROVE  LET r == queue'[j][i] IN r \in alive' /\ st'[r] = "BLOCKED" /\ at'[r] = j
    BY DEF QueuedSleeps
  <2> DEFINE r == queue'[j][i]
  <2>1. r \in Proc \ {p} /\ r \notin NextOwner(k) /\ \E l \in DOMAIN queue[j] : queue[j][l] = r
    <3>1. CASE j = k
      BY <1>5, <1>6, <3>1 DEF q
    <3>2. CASE j # k
      <4>1. r = queue[j][i] /\ i \in DOMAIN queue[j]
        BY <1>1, <3>2
      <4>2. r \notin NextOwner(k)
        BY <1>4, <3>2, <4>1 DEF QueuedSleeps
      <4> QED
        BY <1>5, <4>1, <4>2
    <3> QED
      BY <3>1, <3>2
  <2>2. st'[r] = st[r]
    BY <2>1
  <2> QED
    BY <2>1, <2>2 DEF QueuedSleeps
<1>11. SleeperIsInLine'
  <2> SUFFICES ASSUME NEW r \in Proc, st'[r] = "BLOCKED", at'[r] # NULL
               PROVE  at'[r] \in Key /\ \E i \in DOMAIN queue'[at'[r]] : queue'[at'[r]][i] = r
    BY DEF SleeperIsInLine
  <2>1. r # p /\ r \notin NextOwner(k) /\ st[r] = "BLOCKED" /\ at'[r] = at[r]
    OBVIOUS
  <2>2. PICK i \in DOMAIN queue[at[r]] : queue[at[r]][i] = r
    BY <2>1 DEF SleeperIsInLine
  <2>3. at[r] \in Key
    BY <2>1 DEF SleeperIsInLine
  <2>4. CASE at[r] # k
    BY <1>1, <2>1, <2>2, <2>3, <2>4
  <2>5. CASE at[r] = k
    <3>1. i \in DOMAIN q /\ q[i] = r
      BY <2>2, <2>5 DEF q
    <3>2. i > t
      <4>1. ~(i \in 1 .. t - 1)
        BY <1>2, <2>1, <3>1
      <4>2. i # t
        BY <1>1, <1>3, <2>1, <3>1 DEF q
      <4> QED
        BY <1>2, <1>3, <3>1, <4>1, <4>2
    <3>3. i - t \in DOMAIN queue'[k] /\ queue'[k][i - t] = r
      BY <1>1, <3>1, <3>2
    <3> QED
      BY <2>1, <2>5, <3>3
  <2> QED
    BY <2>4, <2>5
<1>12. \A r \in Proc : holds'[r] = IF r = p THEN holds[p] \ {k} ELSE holds[r]
  BY <1>1 DEF TypeOK
<1>13. GoneHaveNothing'
  BY <1>4, <1>12 DEF GoneHaveNothing
<1>14. \A r \in Proc, j \in Key :
          j \in Has(r)' <=> \/ j \in Has(r) /\ ~(r = p /\ j = k)
                            \/ r \in NextOwner(k) /\ j = k
  <2> TAKE r \in Proc, j \in Key
  <2>1. j \in Has(r)' <=> j \in holds'[r] \/ (st'[r] # "BLOCKED" /\ at'[r] = j)
    BY DEF Has
  <2>2. CASE r = p
    <3>1. at'[p] = NULL /\ NULL # j
      BY KeyFacts
    <3> QED
      BY <1>4, <1>12, <2>1, <2>2, <3>1, HasMember
  <2>3. CASE r # p /\ r \in NextOwner(k)
    BY <1>4, <1>12, <2>1, <2>3, HasMember
  <2>4. CASE r # p /\ r \notin NextOwner(k)
    BY <1>12, <2>1, <2>4, HasMember
  <2> QED
    BY <2>2, <2>3, <2>4
<1>15. k \notin misused => k \notin lost /\ \A r \in Proc : k \in Has(r) => r = p
  BY HasMember DEF OneOwner
<1>16. \A r, s \in NextOwner(k) : r = s
  BY <1>1
<1>17. OneOwner'
  BY <1>4, <1>14, <1>15, <1>16 DEF OneOwner
<1>18. /\ \A j \in Key : j # k => (Taken(j)' <=> Taken(j))
       /\ NextOwner(k) # {} => Taken(k)'
       /\ NextOwner(k) = {} /\ k \notin misused => ~Taken(k)'
  BY <1>4, <1>14, <1>15 DEF Taken
<1>19. LockedIsTaken'
  <2> SUFFICES ASSUME NEW j \in Key
               PROVE  /\ j \in lost' => is_open(j)'
                      /\ Taken(j)' => is_open(j)' \/ j \in misused'
                      /\ is_open(j)' /\ locked'[j] = "LOCKED" => Taken(j)'
                      /\ is_open(j)' /\ Taken(j)' => locked'[j] = "LOCKED" \/ j \in misused'
    BY DEF LockedIsTaken
  <2>1. CASE j # k
    BY <1>1, <1>7, <1>18, <2>1 DEF LockedIsTaken
  <2>2. CASE j = k
    BY <1>1, <1>7, <1>18, <2>2
  <2> QED
    BY <2>1, <2>2
<1> QED
  BY <1>4, <1>8, <1>9, <1>10, <1>11, <1>13, <1>14, <1>17, <1>19

(* Giving up a mutex that is closed, in mutex_unlock or in cond_wait,      *)
(* keeps it: the mutex was closed in use, and only the caller's own idea   *)
(* of it changes (kernelMutex.c:129-153).                                  *)
LEMMA GivingUpKeeps ==
    ASSUME MInv, NEW p \in Proc, NEW k \in Key,
           p \in alive, st[p] = "READY", at[p] = NULL, ~is_open(k), k \in holds[p],
           holds' = [holds EXCEPT ![p] = @ \ {k}],
           UNCHANGED <<state, locked, queue, alive, at, lost, misused>>,
           st' \in [Proc -> {"READY", "BLOCKED", "DELETE"}],
           st'[p] \in {"READY", "BLOCKED"},
           \A r \in Proc \ {p} : st'[r] = st[r]
    PROVE  /\ MInv' /\ k \in misused
           /\ \A r \in Proc, j \in Key : j \in Has(r)' <=> j \in Has(r) /\ ~(r = p /\ j = k)
<1> USE DEF MInv
<1>1. \A j \in Key : is_open(j)' <=> is_open(j)
  BY DEF is_open
<1>2. \A r \in Proc : holds'[r] = IF r = p THEN holds[p] \ {k} ELSE holds[r]
  BY DEF TypeOK
<1>3. TypeOK' /\ QueuedOnce' /\ SleeperIsInLine' /\ GoneHaveNothing'
  <2>1. TypeOK' /\ QueuedOnce'
    BY <1>1 DEF TypeOK, QueuedOnce
  <2>2. SleeperIsInLine'
    BY DEF SleeperIsInLine
  <2>3. GoneHaveNothing'
    BY <1>2 DEF GoneHaveNothing
  <2> QED
    BY <2>1, <2>2, <2>3
<1>4. QueuedSleeps'
  <2> SUFFICES ASSUME NEW j \in Key, NEW i \in DOMAIN queue[j], st'[queue[j][i]] # "DELETE"
               PROVE  LET r == queue[j][i] IN r \in alive' /\ st'[r] = "BLOCKED" /\ at'[r] = j
    BY DEF QueuedSleeps
  <2>1. queue[j] \in Seq(Proc)
    BY DEF TypeOK
  <2>2. queue[j][i] \in Proc \ {p}
    BY <2>1, LenProperties, ElementOfSeq, KeyFacts DEF QueuedSleeps
  <2> QED
    BY <2>2 DEF QueuedSleeps
<1>5. \A r \in Proc, j \in Key : j \in Has(r)' <=> j \in Has(r) /\ ~(r = p /\ j = k)
  <2> TAKE r \in Proc, j \in Key
  <2>1. j \in Has(r)' <=> j \in holds'[r] \/ (st'[r] # "BLOCKED" /\ at'[r] = j)
    BY DEF Has
  <2> QED
    BY <1>2, <2>1, HasMember, KeyFacts
<1>6. k \in misused
  BY HasMember DEF LockedIsTaken, Taken
<1>7. OneOwner' /\ (\A j \in Key : Taken(j)' => Taken(j)) /\ \A j \in Key \ {k} : Taken(j)' <=> Taken(j)
  BY <1>5 DEF OneOwner, Taken
<1>8. LockedIsTaken'
  BY <1>1, <1>7 DEF LockedIsTaken
<1> QED
  BY <1>3, <1>4, <1>5, <1>6, <1>7, <1>8

(* mutex_unlock keeps the invariant.                                       *)
LEMMA UnlockKeeps ==
    ASSUME MInv, NEW p \in Proc, NEW k \in Key, mutex_unlock(p, k)
    PROVE  /\ MInv' /\ misused' = misused
           /\ \A r \in Proc : st'[r] = "DELETE" <=> st[r] = "DELETE"
           /\ \/ /\ is_open(k) /\ Unlocks(p, k)
                 /\ \A r \in NextOwner(k) : r \in Proc \ {p} /\ st[r] # "DELETE"
                 /\ \A r \in Proc, j \in Key :
                      j \in Has(r)' <=> \/ j \in Has(r) /\ ~(r = p /\ j = k)
                                        \/ r \in NextOwner(k) /\ j = k
              \/ /\ ~is_open(k) /\ k \in misused /\ UNCHANGED <<queue, st>>
                 /\ \A r \in Proc, j \in Key : j \in Has(r)' <=> j \in Has(r) /\ ~(r = p /\ j = k)
<1>1. /\ p \in alive /\ st[p] = "READY" /\ at[p] = NULL /\ k \in holds[p]
      /\ UNCHANGED <<state, alive, at, lost, misused>>
  BY DEF mutex_unlock, Runs
<1>2. TypeOK
  BY DEF MInv
<1>3. CASE is_open(k) /\ Unlocks(p, k) /\ st' = unblock_processes(st, NextOwner(k))
  <2>1. \A r \in NextOwner(k) : st[r] # "DELETE"
    BY <1>2, <1>3, UnlockEffect, TurnIsFirst DEF TypeOK
  <2>2. /\ st' \in [Proc -> {"READY", "BLOCKED", "DELETE"}]
        /\ st'[p] \in {"READY", "BLOCKED"}
        /\ \A r \in Proc \ {p} : st'[r] = IF r \in NextOwner(k) THEN "READY" ELSE st[r]
    BY <1>1, <1>2, <1>3, <2>1 DEF unblock_processes, TypeOK
  <2>3. \A r \in Proc : st'[r] = "DELETE" <=> st[r] = "DELETE"
    BY <1>1, <2>1, <2>2
  <2> QED
    BY <1>1, <1>3, <2>1, <2>2, <2>3, UnlocksKeep
<1>4. CASE GivesUp(p, k)
  <2>1. ~is_open(k) /\ holds' = [holds EXCEPT ![p] = @ \ {k}] /\ UNCHANGED <<queue, locked, st>>
    BY <1>4 DEF GivesUp
  <2>2. st' \in [Proc -> {"READY", "BLOCKED", "DELETE"}]
    BY <1>2, <2>1 DEF TypeOK
  <2> QED
    BY <1>1, <2>1, <2>2, GivingUpKeeps
<1> QED
  BY <1>3, <1>4 DEF mutex_unlock

(* Losing a process that holds or has been handed mutexes leaves them      *)
(* locked and lost; a waiter that is killed stays in its queue, marked     *)
(* (kill_process, end_process: process.c, processManager.c).               *)
LEMMA GoneKeeps ==
    ASSUME MInv, NEW q \in Proc, q \in alive, Gone(q), UNCHANGED <<mutexes, misused>>,
           \/ alive' = alive /\ st' = [st EXCEPT ![q] = "DELETE"]
           \/ alive' = alive \ {q} /\ st[q] = "READY" /\ at[q] = NULL /\ st' = st
    PROVE  /\ MInv' /\ \A j \in Key \ misused : j \in lost' <=> j \in lost \/ j \in Has(q)
           /\ \A r \in Proc, j \in Key : j \in Has(r)' <=> j \in Has(r) /\ r # q
<1> USE DEF MInv
<1>1. /\ lost' = lost \cup {j \in Has(q) : is_open(j)} /\ holds' = [holds EXCEPT ![q] = {}]
      /\ at' = [at EXCEPT ![q] = NULL] /\ UNCHANGED <<state, locked, queue>>
  BY DEF Gone, mutexes
<1>2. \A r \in Proc : /\ at'[r] = IF r = q THEN NULL ELSE at[r]
                      /\ holds'[r] = IF r = q THEN {} ELSE holds[r]
                      /\ r # q => st'[r] = st[r] /\ (r \in alive' <=> r \in alive)
                      /\ r = q => st'[r] # "BLOCKED"
  BY <1>1 DEF TypeOK
<1>3. \A j \in Key : is_open(j)' <=> is_open(j)
  BY <1>1 DEF is_open
<1>4. TypeOK'
  <2>1. Has(q) \subseteq Key
    BY DEF Has, TypeOK
  <2>2. st' \in [Proc -> {"READY", "BLOCKED", "DELETE"}] /\ alive' \subseteq Proc
    BY DEF TypeOK
  <2> QED
    BY <1>1, <1>3, <2>1, <2>2 DEF TypeOK
<1>5. \A j \in Key : \A i \in DOMAIN queue[j] : queue[j][i] \in Proc
  <2> TAKE j \in Key
  <2> TAKE i \in DOMAIN queue[j]
  <2>1. queue[j] \in Seq(Proc)
    BY DEF TypeOK
  <2> QED
    BY <2>1, LenProperties, ElementOfSeq
<1>6. QueuedOnce'
  BY <1>1 DEF QueuedOnce
<1>7. QueuedSleeps'
  <2> SUFFICES ASSUME NEW j \in Key, NEW i \in DOMAIN queue[j], st'[queue[j][i]] # "DELETE"
               PROVE  LET r == queue[j][i] IN r \in alive' /\ st'[r] = "BLOCKED" /\ at'[r] = j
    BY <1>1 DEF QueuedSleeps
  <2>1. queue[j][i] # q
    BY KeyFacts DEF QueuedSleeps, TypeOK
  <2> QED
    BY <1>2, <1>5, <2>1 DEF QueuedSleeps
<1>8. SleeperIsInLine'
  BY <1>1, <1>2 DEF SleeperIsInLine
<1>9. GoneHaveNothing'
  BY <1>1, <1>2 DEF GoneHaveNothing
<1>10. \A r \in Proc, j \in Key : j \in Has(r)' <=> j \in Has(r) /\ r # q
  <2> TAKE r \in Proc, j \in Key
  <2>1. j \in Has(r)' <=> j \in holds'[r] \/ (st'[r] # "BLOCKED" /\ at'[r] = j)
    BY DEF Has
  <2> QED
    BY <1>2, <2>1, HasMember, KeyFacts
<1>11. /\ \A j \in Key : Taken(j)' => Taken(j)
       /\ \A j \in Key : Taken(j) /\ is_open(j) => Taken(j)'
  BY <1>1, <1>10 DEF Taken
<1>12. \A j \in Key \ misused : j \in lost' <=> j \in lost \/ j \in Has(q)
  BY <1>1 DEF LockedIsTaken, Taken
<1>13. OneOwner'
  <2> SUFFICES ASSUME NEW j \in Key \ misused, NEW r \in Proc, j \in Has(r), r # q
               PROVE  j \notin lost' /\ \A s \in Proc : j \in Has(s) => s = r
    BY <1>10 DEF OneOwner
  <2> QED
    BY <1>12 DEF OneOwner
<1>14. LockedIsTaken'
  <2>1. \A j \in Key : j \in lost' => is_open(j)
    BY <1>1 DEF LockedIsTaken
  <2> QED
    BY <1>1, <1>3, <1>11, <2>1 DEF LockedIsTaken
<1> QED
  BY <1>1, <1>4, <1>6, <1>7, <1>8, <1>9, <1>10, <1>12, <1>13, <1>14

(* Killing a process and the end of one keep the invariant.                *)
LEMMA KillKeeps ==
    ASSUME MInv, NEW p \in Proc, NEW q \in Proc, kill_process(p, q)
    PROVE  MInv'
BY GoneKeeps DEF kill_process

(* A process that ends leaves what it has to the lost.                     *)
LEMMA EndKeeps ==
    ASSUME MInv, NEW p \in Proc, end_process(p)
    PROVE  MInv'
BY GoneKeeps DEF end_process, Runs

(* Destroying a marked process keeps it: it has nothing any more.          *)
LEMMA DestroyKeeps ==
    ASSUME MInv, NEW p \in Proc, destroy_process(p)
    PROVE  MInv' /\ SameOwners
<1> USE DEF MInv
<1>1. /\ p \in alive /\ st[p] = "DELETE" /\ alive' = alive \ {p}
      /\ UNCHANGED <<state, locked, queue, st, at, holds, lost, misused>>
  BY DEF destroy_process, mutexes
<1>2. TypeOK' /\ QueuedOnce' /\ SleeperIsInLine' /\ GoneHaveNothing'
  BY <1>1 DEF TypeOK, QueuedOnce, SleeperIsInLine, GoneHaveNothing, is_open
<1>3. QueuedSleeps'
  BY <1>1 DEF QueuedSleeps
<1>4. OneOwner' /\ LockedIsTaken'
  BY <1>1 DEF OneOwner, LockedIsTaken, Taken, Has, is_open
<1>5. SameOwners
  BY <1>1 DEF SameOwners, Has
<1> QED
  BY <1>2, <1>3, <1>4, <1>5

(* A new process on a page that no queue points to keeps it.               *)
LEMMA CreateKeeps ==
    ASSUME MInv, ~PageReuse, NEW p \in Proc, create_process(p)
    PROVE  MInv' /\ SameOwners /\ \A j \in Key : \A i \in DOMAIN queue[j] : queue[j][i] # p
<1> USE DEF MInv
<1>1. /\ p \notin alive /\ alive' = alive \cup {p}
      /\ st' = [st EXCEPT ![p] = "READY"]
      /\ UNCHANGED <<state, locked, queue, at, holds, lost, misused>>
      /\ \A j \in Key : p \notin ToSet(queue[j])
  BY DEF create_process, mutexes
<1>2. \A r \in Proc : st'[r] = IF r = p THEN "READY" ELSE st[r]
  BY <1>1 DEF TypeOK
<1>3. at[p] = NULL /\ holds[p] = {}
  BY <1>1 DEF GoneHaveNothing
<1>4. TypeOK' /\ QueuedOnce' /\ SleeperIsInLine' /\ GoneHaveNothing'
  BY <1>1, <1>2, <1>3 DEF TypeOK, QueuedOnce, SleeperIsInLine, GoneHaveNothing, is_open
<1>5. QueuedSleeps'
  <2> SUFFICES ASSUME NEW j \in Key, NEW i \in DOMAIN queue[j], st'[queue[j][i]] # "DELETE"
               PROVE  LET r == queue[j][i] IN r \in alive' /\ st'[r] = "BLOCKED" /\ at'[r] = j
    BY <1>1 DEF QueuedSleeps
  <2>1. queue[j][i] # p
    BY <1>1 DEF ToSet
  <2>2. queue[j][i] \in Proc
    <3>1. queue[j] \in Seq(Proc)
      BY DEF TypeOK
    <3> QED
      BY <3>1, LenProperties, ElementOfSeq
  <2> QED
    BY <1>1, <1>2, <2>1, <2>2 DEF QueuedSleeps
<1>6. \A r \in Proc, j \in Key : j \in Has(r)' <=> j \in Has(r)
  <2> TAKE r \in Proc, j \in Key
  <2>1. j \in Has(r)' <=> j \in holds'[r] \/ (st'[r] # "BLOCKED" /\ at'[r] = j)
    BY DEF Has
  <2> QED
    BY <1>1, <1>2, <1>3, <2>1, HasMember, KeyFacts
<1>7. OneOwner' /\ \A j \in Key : Taken(j)' <=> Taken(j)
  BY <1>1, <1>6 DEF OneOwner, Taken
<1>8. LockedIsTaken'
  BY <1>1, <1>7 DEF LockedIsTaken, is_open
<1> QED
  BY <1>1, <1>4, <1>5, <1>6, <1>7, <1>8 DEF SameOwners, ToSet

(* A step that changes nothing keeps it.                                   *)
LEMMA StutterKeeps == MInv /\ UNCHANGED vars => MInv'
BY DEF vars, mutexes, MInv, TypeOK, QueuedOnce, QueuedSleeps, SleeperIsInLine,
       GoneHaveNothing, OneOwner, LockedIsTaken, Taken, Has, is_open

(* Who falls asleep does so in mutex_lock, and nobody leaves it asleep.    *)
LEMMA SleepsInLockKept ==
    ASSUME MInv, SleepsInLock, [Next]_vars
    PROVE  SleepsInLock'
<1> USE DEF MInv
<1>1. ASSUME NEW p \in Proc, NEW k \in Key, mutex_open(p, k)
      PROVE  SleepsInLock'
  BY <1>1 DEF mutex_open, SleepsInLock
<1>2. ASSUME NEW p \in Proc, NEW k \in Key, mutex_close(p, k)
      PROVE  SleepsInLock'
  BY <1>2, KeyFacts DEF mutex_close, SleepsInLock, unblock_processes, TypeOK
<1>3. ASSUME NEW p \in Proc, NEW k \in Key, mutex_lock(p, k)
      PROVE  SleepsInLock'
  BY <1>3, KeyFacts DEF mutex_lock, SleepsInLock, block_process, TypeOK
<1>4. ASSUME NEW p \in Proc, NEW k \in Key, mutex_unlock(p, k)
      PROVE  SleepsInLock'
  BY <1>4 DEF mutex_unlock, GivesUp, SleepsInLock, unblock_processes, TypeOK
<1>5. ASSUME NEW p \in Proc, LockReturns(p)
      PROVE  SleepsInLock'
  BY <1>5 DEF LockReturns, SleepsInLock, TypeOK
<1>6. ASSUME NEW p \in Proc, end_process(p)
      PROVE  SleepsInLock'
  BY <1>6 DEF end_process, Gone, Runs, SleepsInLock, TypeOK
<1>7. ASSUME NEW p \in Proc, destroy_process(p) \/ create_process(p)
      PROVE  SleepsInLock'
  BY <1>7 DEF destroy_process, create_process, SleepsInLock, TypeOK
<1>8. ASSUME NEW p \in Proc, NEW q \in Proc, kill_process(p, q)
      PROVE  SleepsInLock'
  BY <1>8 DEF kill_process, Gone, SleepsInLock, TypeOK
<1>9. CASE UNCHANGED vars
  BY <1>9 DEF vars, SleepsInLock
<1> QED
  BY <1>1, <1>2, <1>3, <1>4, <1>5, <1>6, <1>7, <1>8, <1>9 DEF Next

-----------------------------------------------------------------------------
(* The theorems. *)

(* One step keeps the invariant.                                           *)
LEMMA NextKeeps ==
    ASSUME ~PageReuse, IInv, [Next]_vars
    PROVE  IInv'
<1> USE DEF IInv
<1>1. MInv'
  <2>1. CASE UNCHANGED vars
    BY <2>1, StutterKeeps
  <2>2. CASE Next
    BY <2>2, OpenKeeps, CloseKeeps, LockKeeps, UnlockKeeps, ReturnKeeps, KillKeeps,
       EndKeeps, DestroyKeeps, CreateKeeps DEF Next
  <2> QED
    BY <2>1, <2>2
<1> QED
  BY <1>1, SleepsInLockKept

(* The inductive invariant of the mutexes holds in every reachable state,  *)
(* whoever opens, closes, locks, unlocks, is killed or ends in between     *)
(* (kernelMutex.c).                                                        *)
THEOREM MutexInvariance ==
    ASSUME ~PageReuse
    PROVE  Spec => []IInv
<1>1. IInv /\ [Next]_vars => IInv'
  BY NextKeeps
<1> QED
  BY <1>1, InitIsFine, PTL DEF Spec

(* Every field keeps its type, and the queue of a closed mutex is empty.   *)
THEOREM MutexTypes ==
    ASSUME ~PageReuse
    PROVE  Spec => []TypeOK
<1>1. IInv => TypeOK
  BY DEF IInv, MInv
<1> QED
  BY <1>1, MutexInvariance, PTL

(* What the parts of the invariant say together: at most one owner.        *)
LEMMA OneOwnerExcludes == MInv => MutualExclusion
<1> SUFFICES ASSUME MInv, NEW p \in Proc, NEW q \in Proc, p # q, NEW k \in Has(p), k \in Has(q)
             PROVE  k \in misused
  BY DEF MutualExclusion
<1>1. k \in Key
  BY HasMember DEF MInv, TypeOK
<1> QED
  BY <1>1 DEF MInv, OneOwner

(* Two programs never believe to have the same mutex, but for one that was *)
(* closed in use and not opened with nobody left who believes to have it.  *)
THEOREM MutexesExclude ==
    ASSUME ~PageReuse
    PROVE  Spec => []MutualExclusion
<1>1. IInv => MutualExclusion
  BY OneOwnerExcludes DEF IInv
<1> QED
  BY <1>1, MutexInvariance, PTL

(* What is locked is had by somebody or lost, and the other way round      *)
(* unless it was closed in use.                                            *)
LEMMA TakenIsLocked == MInv => LockedForSomebody
<1> SUFFICES ASSUME MInv, NEW k \in Key, is_open(k)
             PROVE  LET taken == k \in lost \cup UNION {Has(p) : p \in Proc}
                    IN  /\ locked[k] = "LOCKED" => taken
                        /\ taken /\ k \notin misused => locked[k] = "LOCKED"
  BY DEF LockedForSomebody
<1>1. k \in lost \cup UNION {Has(p) : p \in Proc} <=> Taken(k)
  BY DEF Taken
<1> QED
  BY <1>1 DEF MInv, LockedIsTaken

(* An open mutex is locked only while somebody has it, has been handed it, *)
(* or went away with it, and then always unless it was closed in use.      *)
THEOREM LocksAreForSomebody ==
    ASSUME ~PageReuse
    PROVE  Spec => []LockedForSomebody
<1>1. IInv => LockedForSomebody
  BY TakenIsLocked DEF IInv
<1> QED
  BY <1>1, MutexInvariance, PTL

(* Who is blocked is in the line of its mutex, once, and nobody else is.   *)
LEMMA SleeperIsFound == MInv => BlockedIsQueued
<1> SUFFICES ASSUME MInv, NEW p \in Proc, NEW k \in Key
             PROVE  (p \in alive /\ st[p] = "BLOCKED" /\ at[p] = k)
                      <=> (st[p] # "DELETE" /\ \E i \in DOMAIN queue[k] :
                             queue[k][i] = p /\ \A j \in DOMAIN queue[k] : queue[k][j] = p => j = i)
  BY DEF BlockedIsQueued
<1>1. ASSUME p \in alive, st[p] = "BLOCKED", at[p] = k
      PROVE  st[p] # "DELETE" /\ \E i \in DOMAIN queue[k] :
               queue[k][i] = p /\ \A j \in DOMAIN queue[k] : queue[k][j] = p => j = i
  BY <1>1, KeyFacts DEF MInv, SleeperIsInLine, QueuedOnce
<1>2. ASSUME st[p] # "DELETE", NEW i \in DOMAIN queue[k], queue[k][i] = p
      PROVE  p \in alive /\ st[p] = "BLOCKED" /\ at[p] = k
  BY <1>2 DEF MInv, QueuedSleeps
<1> QED
  BY <1>1, <1>2

(* Nobody sleeps where no unlock can find it, and no queue has somebody    *)
(* who does not sleep there, but for the killed.                           *)
THEOREM SleepersAreQueued ==
    ASSUME ~PageReuse
    PROVE  Spec => []BlockedIsQueued
<1>1. IInv => BlockedIsQueued
  BY SleeperIsFound DEF IInv
<1> QED
  BY <1>1, MutexInvariance, PTL

-----------------------------------------------------------------------------
(* Every step is a step of FifoLock. *)

(* The owner of a mutex, one mutex at a time.                              *)
OwnerIsWhoHas ==
    \A k \in Key :
        /\ Owner[k] = Anybody <=> k \in misused
        /\ k \notin misused =>
             /\ \A p \in Proc : Owner[k] = p <=> k \in Has(p)
             /\ Owner[k] = Nobody <=> k \in lost
             /\ Owner[k] = NULL <=> ~Taken(k)
        /\ Owner[k] \in Proc \cup {NULL, Nobody, Anybody}

(* The marks are no processes and not each other.                          *)
LEMMA MarkFacts ==
    /\ NULL \notin Proc /\ Nobody \notin Proc /\ Anybody \notin Proc
    /\ NULL # Nobody /\ NULL # Anybody /\ Nobody # Anybody
<1>1. Nobody \in Int /\ Anybody \in Int /\ Nobody # Anybody
  BY MutexAssumption DEF Nobody, Anybody
<1> QED
  BY <1>1, MutexAssumption

(* The owner that Lock shows is the process that has the mutex.            *)
LEMMA OwnerOf == MInv => OwnerIsWhoHas
<1> SUFFICES ASSUME MInv, NEW k \in Key
             PROVE  /\ Owner[k] = Anybody <=> k \in misused
                    /\ k \notin misused =>
                         /\ \A p \in Proc : Owner[k] = p <=> k \in Has(p)
                         /\ Owner[k] = Nobody <=> k \in lost
                         /\ Owner[k] = NULL <=> ~Taken(k)
                    /\ Owner[k] \in Proc \cup {NULL, Nobody, Anybody}
  BY DEF OwnerIsWhoHas
<1>1. CASE k \in misused
  <2>1. Owner[k] = Anybody
    BY <1>1 DEF Owner
  <2> QED
    BY <1>1, <2>1
<1>2. /\ k \notin misused =>
           \A p \in Proc : k \in Has(p) => k \notin lost /\ \A q \in Proc : k \in Has(q) => q = p
      /\ Taken(k) <=> k \in lost \/ \E p \in Proc : k \in Has(p)
  BY DEF MInv, OneOwner, Taken
<1>3. CASE k \notin misused /\ ~Taken(k)
  <2>1. Owner[k] = NULL
    BY <1>2, <1>3 DEF Owner
  <2> QED
    BY <1>2, <1>3, <2>1, MarkFacts
<1>4. CASE k \notin misused /\ k \in lost
  <2>1. Owner[k] = Nobody
    BY <1>4 DEF Owner
  <2> QED
    BY <1>2, <1>4, <2>1, MarkFacts
<1>5. ASSUME k \notin misused, NEW p \in Proc, k \in Has(p)
      PROVE  /\ Owner[k] \in Proc
             /\ \A r \in Proc : Owner[k] = r <=> k \in Has(r)
             /\ k \notin lost /\ Taken(k)
  <2>1. Owner[k] = CHOOSE r \in Proc : k \in Has(r)
    BY <1>2, <1>5 DEF Owner
  <2>2. Owner[k] \in Proc /\ k \in Has(Owner[k])
    BY <1>5, <2>1
  <2>3. Owner[k] = p
    BY <1>2, <1>5, <2>2
  <2> QED
    BY <1>2, <1>5, <2>3
<1> QED
  BY <1>1, <1>2, <1>3, <1>4, <1>5, MarkFacts

(* The owners after a step, told by who has what, by what is lost and by   *)
(* what was closed in use.                                                 *)
LEMMA OwnersAre ==
    ASSUME MInv', NEW f, f = [k \in Key |-> f[k]],
           \A k \in Key : \/ f[k] = Anybody /\ k \in misused'
                          \/ /\ k \notin misused'
                             /\ \/ \E r \in Proc : f[k] = r /\ k \in Has(r)'
                                \/ f[k] = Nobody /\ k \in lost'
                                \/ f[k] = NULL /\ ~Taken(k)'
    PROVE  Owner' = f
<1>1. OwnerIsWhoHas'
  BY OwnerOf, PTL
<1>2. \A k \in Key : Owner'[k] = f[k]
  BY <1>1 DEF OwnerIsWhoHas
<1>3. Owner' = [k \in Key |-> Owner'[k]]
  BY DEF Owner
<1> QED
  BY <1>2, <1>3

(* The lines after a step, told by who comes before whom.                  *)
LEMMA LinesAre ==
    ASSUME NEW g, g = [k \in Key |-> g[k]], \A k \in Key : g[k] \subseteq Proc \X Proc,
           \A k \in Key, p, q \in Proc : <<p, q>> \in g[k] <=> Before(k, p, q)'
    PROVE  Line' = g
<1>1. \A k \in Key : Line'[k] = g[k]
  <2> TAKE k \in Key
  <2>1. Line'[k] = {x \in Proc \X Proc : Before(k, x[1], x[2])'}
    BY DEF Line
  <2>2. \A x \in Proc \X Proc : x \in Line'[k] <=> x \in g[k]
    <3> TAKE x \in Proc \X Proc
    <3>1. x[1] \in Proc /\ x[2] \in Proc /\ x = <<x[1], x[2]>>
      OBVIOUS
    <3> QED
      BY <2>1, <3>1
  <2>3. Line'[k] \subseteq Proc \X Proc
    BY <2>1
  <2> QED
    BY <2>2, <2>3
<1>2. Line' = [k \in Key |-> Line'[k]]
  BY DEF Line
<1> QED
  BY <1>1, <1>2

(* Who comes before whom, read off the lines.                              *)
LEMMA InLine ==
    ASSUME NEW k \in Key, NEW p \in Proc, NEW q \in Proc
    PROVE  <<p, q>> \in Line[k] <=> Before(k, p, q)
BY DEF Line

(* Who waits is who is in the queue and not marked.                        *)
LEMMA WaitingAre ==
    ASSUME TypeOK, NEW k \in Key, NEW p \in Proc
    PROVE  p \in Lock!Waiting(k) <=>
             st[p] # "DELETE" /\ \E i \in DOMAIN queue[k] : queue[k][i] = p
<1>1. queue[k] \in Seq(Proc)
  BY DEF TypeOK
<1>2. \A i \in DOMAIN queue[k] : i <= i
  BY <1>1, LenProperties
<1>3. p \in Lock!Waiting(k) <=> Before(k, p, p)
  BY InLine DEF Lock!Waiting
<1> QED
  BY <1>2, <1>3 DEF Before

(* What stays in a line that somebody leaves.                              *)
LEMMA LeftIn ==
    ASSUME NEW l, NEW p, NEW r, NEW s
    PROVE  <<r, s>> \in Lock!Without(l, p) <=> <<r, s>> \in l /\ r # p /\ s # p
<1>1. <<r, s>>[1] = r /\ <<r, s>>[2] = s
  OBVIOUS
<1> QED
  BY <1>1 DEF Lock!Without

(* A step that moves no mutex from one process to another is none for the  *)
(* owners.                                                                 *)
LEMMA OwnersStay ==
    ASSUME MInv, MInv', SameOwners, UNCHANGED <<lost, misused>>
    PROVE  Owner' = Owner
<1>1. OwnerIsWhoHas
  BY OwnerOf
<1>2. \A k \in Key : Taken(k)' <=> Taken(k)
  BY DEF Taken, SameOwners
<1>3. Owner = [k \in Key |-> Owner[k]]
  BY DEF Owner
<1> HIDE DEF Owner
<1>4. \A k \in Key : \/ Owner[k] = Anybody /\ k \in misused'
                     \/ /\ k \notin misused'
                        /\ \/ \E r \in Proc : Owner[k] = r /\ k \in Has(r)'
                           \/ Owner[k] = Nobody /\ k \in lost'
                           \/ Owner[k] = NULL /\ ~Taken(k)'
  BY <1>1, <1>2 DEF OwnerIsWhoHas, SameOwners
<1> QED
  BY <1>3, <1>4, OwnersAre

(* A step that leaves the queues and the marks of those in them alone is   *)
(* none for the lines.                                                     *)
LEMMA LinesStay ==
    ASSUME queue' = queue,
           \A k \in Key : \A i \in DOMAIN queue[k] :
               st'[queue[k][i]] = "DELETE" <=> st[queue[k][i]] = "DELETE"
    PROVE  Line' = Line
<1>1. \A k \in Key, p, q \in Proc : <<p, q>> \in Line[k] <=> Before(k, p, q)'
  <2> TAKE k \in Key, p, q \in Proc
  <2>1. ASSUME NEW i \in DOMAIN queue[k], NEW j \in DOMAIN queue[k],
               queue[k][i] = p, queue[k][j] = q
        PROVE  /\ st'[p] = "DELETE" <=> st[p] = "DELETE"
               /\ st'[q] = "DELETE" <=> st[q] = "DELETE"
    BY <2>1
  <2>2. Before(k, p, q) <=> Before(k, p, q)'
    BY <2>1 DEF Before
  <2> QED
    BY <2>2, InLine
<1>2. Line = [k \in Key |-> Line[k]] /\ \A k \in Key : Line[k] \subseteq Proc \X Proc
  BY DEF Line
<1> QED
  BY <1>1, <1>2, LinesAre

(* Opening a mutex changes neither owners nor lines, or renews the lock.   *)
LEMMA OpenImplements ==
    ASSUME MInv, NEW p \in Proc, NEW k \in Key, mutex_open(p, k)
    PROVE  Lock!Renew(k) \/ UNCHANGED <<Owner, Line>>
<1>1. /\ MInv' /\ OwnerIsWhoHas /\ SameOwners /\ queue' = queue /\ UNCHANGED <<lost, st>>
      /\ \A j \in Key : j \in misused' <=> j \in misused /\ (j = k => \E r \in Proc : k \in Has(r))
      /\ k \notin lost
      /\ misused' = misused \/ misused' = misused \ {k}
  BY OpenKeeps, OwnerOf DEF mutex_open
<1>2. Line' = Line
  BY <1>1, LinesStay
<1>3. CASE misused' = misused
  BY <1>1, <1>2, <1>3, OwnersStay
<1>4. CASE k \in misused /\ k \notin misused'
  <2>1. ~Taken(k)' /\ \A j \in Key : Taken(j)' <=> Taken(j)
    BY <1>1, <1>4 DEF Taken, SameOwners
  <2> DEFINE f == [Owner EXCEPT ![k] = NULL]
  <2>2. f = [j \in Key |-> f[j]] /\ \A j \in Key : f[j] = IF j = k THEN NULL ELSE Owner[j]
    BY DEF Owner
  <2> HIDE DEF f
  <2>3. \A j \in Key : \/ f[j] = Anybody /\ j \in misused'
                       \/ /\ j \notin misused'
                          /\ \/ \E r \in Proc : f[j] = r /\ j \in Has(r)'
                             \/ f[j] = Nobody /\ j \in lost'
                             \/ f[j] = NULL /\ ~Taken(j)'
    BY <1>1, <1>4, <2>1, <2>2 DEF OwnerIsWhoHas, SameOwners
  <2>4. Owner' = [Owner EXCEPT ![k] = NULL]
    BY <1>1, <2>2, <2>3, OwnersAre DEF f
  <2>5. Owner[k] = Anybody
    BY <1>1, <1>4 DEF OwnerIsWhoHas
  <2> QED
    BY <1>2, <2>4, <2>5 DEF Lock!Renew
<1> QED
  BY <1>1, <1>3, <1>4

(* The return of mutex_lock, the creation and the destruction of a process *)
(* change neither owners nor lines.                                        *)
LEMMA QuietSteps ==
    ASSUME MInv, ~PageReuse, NEW p \in Proc,
           LockReturns(p) \/ destroy_process(p) \/ create_process(p)
    PROVE  UNCHANGED <<Owner, Line>>
<1>1. MInv' /\ SameOwners /\ UNCHANGED <<lost, misused, queue>>
  <2>2. CASE LockReturns(p)
    BY <2>2, ReturnKeeps DEF LockReturns, mutexes
  <2>3. CASE destroy_process(p)
    BY <2>3, DestroyKeeps DEF destroy_process, mutexes
  <2>4. CASE create_process(p)
    BY <2>4, CreateKeeps DEF create_process, mutexes
  <2> QED
    BY <2>2, <2>3, <2>4
<1>2. \A k \in Key : \A i \in DOMAIN queue[k] :
          st'[queue[k][i]] = "DELETE" <=> st[queue[k][i]] = "DELETE"
  <2>1. CASE create_process(p)
    <3>1. \A j \in Key : \A i \in DOMAIN queue[j] : queue[j][i] # p
      BY <2>1, CreateKeeps
    <3>2. \A j \in Key : \A i \in DOMAIN queue[j] : queue[j][i] \in Proc
      <4> TAKE j \in Key
      <4> TAKE i \in DOMAIN queue[j]
      <4>1. queue[j] \in Seq(Proc)
        BY DEF MInv, TypeOK
      <4> QED
        BY <4>1, LenProperties, ElementOfSeq
    <3> QED
      BY <2>1, <3>1, <3>2 DEF create_process, MInv, TypeOK
  <2>2. CASE ~create_process(p)
    BY <2>2 DEF LockReturns, destroy_process
  <2> QED
    BY <2>1, <2>2
<1> QED
  BY <1>1, <1>2, OwnersStay, LinesStay

(* Closing a mutex closes the lock.                                        *)
LEMMA CloseImplements ==
    ASSUME MInv, NEW p \in Proc, NEW k \in Key, mutex_close(p, k)
    PROVE  Lock!Close(k)
<1>1. /\ MInv' /\ OwnerIsWhoHas
      /\ \A r \in Proc, j \in Key : j # k => (j \in Has(r)' <=> j \in Has(r))
      /\ \A j \in Key : j \in misused' <=>
           j \in misused \/ (j = k /\ \E r \in Proc : k \in holds[r] \/ at[r] = k)
      /\ ~(k \in misused') => ~Taken(k)'
      /\ \A r \in Proc : st'[r] = "DELETE" <=> st[r] = "DELETE"
      /\ lost' = lost \ {k} /\ queue' = [queue EXCEPT ![k] = <<>>]
  BY CloseKeeps, OwnerOf DEF mutex_close
<1>2. \A j \in Key : j # k => (Taken(j)' <=> Taken(j))
  BY <1>1 DEF Taken
<1>3. \A j \in Key : queue'[j] = IF j = k THEN <<>> ELSE queue[j]
  BY <1>1 DEF MInv, TypeOK
<1>4. k \in misused' <=> Owner[k] \in Proc \cup {Anybody} \/ Lock!Waiting(k) # {}
  <2>1. ASSUME NEW r \in Proc, k \in holds[r] \/ at[r] = k, k \notin misused
        PROVE  Owner[k] \in Proc \/ Lock!Waiting(k) # {}
    <3>1. CASE k \in Has(r)
      BY <1>1, <2>1, <3>1 DEF OwnerIsWhoHas
    <3>2. CASE k \notin Has(r)
      <4>1. st[r] = "BLOCKED" /\ at[r] = k /\ at[r] # NULL
        BY <2>1, <3>2, HasMember, KeyFacts
      <4>2. \E i \in DOMAIN queue[k] : queue[k][i] = r
        BY <4>1 DEF MInv, SleeperIsInLine
      <4>3. r \in Lock!Waiting(k)
        BY <4>1, <4>2, WaitingAre DEF MInv
      <4> QED
        BY <4>3
    <3> QED
      BY <3>1, <3>2
  <2>2. ASSUME Owner[k] \in Proc, k \notin misused
        PROVE  \E r \in Proc : k \in holds[r] \/ at[r] = k
    <3>1. k \in Has(Owner[k])
      BY <1>1, <2>2 DEF OwnerIsWhoHas
    <3> QED
      BY <2>2, <3>1, HasMember
  <2>3. ASSUME NEW r \in Lock!Waiting(k)
        PROVE  r \in Proc /\ at[r] = k
    <3>1. r \in Proc
      BY DEF Lock!Waiting
    <3> QED
      BY <3>1, WaitingAre DEF MInv, QueuedSleeps
  <2>4. Owner[k] = Anybody <=> k \in misused
    BY <1>1 DEF OwnerIsWhoHas
  <2> QED
    BY <1>1, <2>1, <2>2, <2>3, <2>4
<1>5. Owner' = [Owner EXCEPT ![k] = IF @ \in Proc \cup {Anybody} \/ Lock!Waiting(k) # {}
                                    THEN Anybody ELSE NULL]
  <2> DEFINE o == IF Owner[k] \in Proc \cup {Anybody} \/ Lock!Waiting(k) # {} THEN Anybody ELSE NULL
             f == [Owner EXCEPT ![k] = o]
  <2>1. o = IF k \in misused' THEN Anybody ELSE NULL
    BY <1>4
  <2>2. f = [Owner EXCEPT ![k] = IF @ \in Proc \cup {Anybody} \/ Lock!Waiting(k) # {}
                                 THEN Anybody ELSE NULL]
    BY DEF Owner
  <2> HIDE DEF o
  <2>3. f = [j \in Key |-> f[j]] /\ \A j \in Key : f[j] = IF j = k THEN o ELSE Owner[j]
    BY DEF Owner
  <2> HIDE DEF f
  <2>4. \A j \in Key : \/ f[j] = Anybody /\ j \in misused'
                       \/ /\ j \notin misused'
                          /\ \/ \E r \in Proc : f[j] = r /\ j \in Has(r)'
                             \/ f[j] = Nobody /\ j \in lost'
                             \/ f[j] = NULL /\ ~Taken(j)'
    <3> TAKE j \in Key
    <3>1. CASE j = k
      BY <1>1, <2>1, <2>3, <3>1
    <3>2. CASE j # k
      BY <1>1, <1>2, <2>3, <3>2 DEF OwnerIsWhoHas
    <3> QED
      BY <3>1, <3>2
  <2>5. Owner' = f
    BY <1>1, <2>3, <2>4, OwnersAre
  <2> QED
    BY <2>2, <2>5
<1>6. Line' = [Line EXCEPT ![k] = {}]
  <2> DEFINE g == [Line EXCEPT ![k] = {}]
  <2>1. g = [j \in Key |-> g[j]] /\ \A j \in Key : g[j] = IF j = k THEN {} ELSE Line[j]
    BY DEF Line
  <2>2. \A j \in Key : g[j] \subseteq Proc \X Proc
    BY DEF Line
  <2> HIDE DEF g
  <2>3. \A j \in Key, r, s \in Proc : <<r, s>> \in g[j] <=> Before(j, r, s)'
    <3> TAKE j \in Key, r, s \in Proc
    <3>1. CASE j = k
      BY <1>3, <2>1, <3>1 DEF Before
    <3>2. CASE j # k
      BY <1>1, <1>3, <2>1, <3>2, InLine DEF Before
    <3> QED
      BY <3>1, <3>2
  <2>4. Line' = g
    BY <2>1, <2>2, <2>3, LinesAre
  <2> QED
    BY <2>4 DEF g
<1> QED
  BY <1>5, <1>6 DEF Lock!Close

(* mutex_lock takes a lock that nobody owns and else joins its line, where *)
(* the caller comes after all those who wait.                              *)
LEMMA LockImplements ==
    ASSUME MInv, NEW p \in Proc, NEW k \in Key, mutex_lock(p, k)
    PROVE  Lock!Take(p, k) \/ Lock!Join(p, k) \/ UNCHANGED <<Owner, Line>>
<1>1. /\ MInv' /\ OwnerIsWhoHas /\ UNCHANGED <<lost, misused>>
      /\ \A j \in Key : \A i \in DOMAIN queue[j] : queue[j][i] # p
      /\ st[p] = "READY"
  BY LockKeeps, OwnerOf DEF mutex_lock, Runs
<1>2. ASSUME ~Taken(k), k \notin misused, UNCHANGED <<queue, st>>,
             \A r \in Proc, j \in Key : j \in Has(r)' <=> j \in Has(r) \/ (r = p /\ j = k)
      PROVE  Lock!Take(p, k)
  <2>1. \A j \in Key : Taken(j)' <=> Taken(j) \/ j = k
    BY <1>1, <1>2 DEF Taken
  <2>2. Owner' = [Owner EXCEPT ![k] = p]
    <3> DEFINE f == [Owner EXCEPT ![k] = p]
    <3>1. f = [j \in Key |-> f[j]] /\ \A j \in Key : f[j] = IF j = k THEN p ELSE Owner[j]
      BY DEF Owner
    <3> HIDE DEF f
    <3>2. \A j \in Key : \/ f[j] = Anybody /\ j \in misused'
                         \/ /\ j \notin misused'
                            /\ \/ \E r \in Proc : f[j] = r /\ j \in Has(r)'
                               \/ f[j] = Nobody /\ j \in lost'
                               \/ f[j] = NULL /\ ~Taken(j)'
      BY <1>1, <1>2, <2>1, <3>1 DEF OwnerIsWhoHas
    <3>3. Owner' = f
      BY <1>1, <3>1, <3>2, OwnersAre
    <3> QED
      BY <3>3 DEF f
  <2>3. Line' = Line
    BY <1>2, LinesStay
  <2>4. Owner[k] = NULL
    BY <1>1, <1>2 DEF OwnerIsWhoHas
  <2> QED
    BY <2>2, <2>3, <2>4 DEF Lock!Take
<1>4. ASSUME k \in misused, UNCHANGED <<queue, st>>,
             \A r \in Proc, j \in Key : j \in Has(r)' <=> j \in Has(r) \/ (r = p /\ j = k)
      PROVE  UNCHANGED <<Owner, Line>>
  <2>1. \A j \in Key : Taken(j)' <=> Taken(j) \/ j = k
    BY <1>1, <1>4 DEF Taken
  <2>2. Owner = [j \in Key |-> Owner[j]]
    BY DEF Owner
  <2> HIDE DEF Owner
  <2>3. \A j \in Key : \/ Owner[j] = Anybody /\ j \in misused'
                       \/ /\ j \notin misused'
                          /\ \/ \E r \in Proc : Owner[j] = r /\ j \in Has(r)'
                             \/ Owner[j] = Nobody /\ j \in lost'
                             \/ Owner[j] = NULL /\ ~Taken(j)'
    BY <1>1, <1>4, <2>1 DEF OwnerIsWhoHas
  <2>4. Owner' = Owner
    BY <1>1, <2>2, <2>3, OwnersAre
  <2>5. Line' = Line
    BY <1>4, LinesStay
  <2> QED
    BY <2>4, <2>5
<1>3. ASSUME Taken(k), SameOwners, queue' = [queue EXCEPT ![k] = Append(@, p)],
             st' = [st EXCEPT ![p] = "BLOCKED"]
      PROVE  Lock!Join(p, k)
  <2>1. Owner' = Owner
    BY <1>1, <1>3, OwnersStay
  <2>2. Owner[k] # NULL
    BY <1>1, <1>3, MarkFacts DEF OwnerIsWhoHas
  <2>3. p \notin Lock!Waiting(k)
    BY <1>1, WaitingAre DEF MInv
  <2>4. Line' = [Line EXCEPT ![k] = @ \cup ((Lock!Waiting(k) \cup {p}) \X {p})]
    <3> DEFINE g == [Line EXCEPT ![k] = @ \cup ((Lock!Waiting(k) \cup {p}) \X {p})]
    <3>1. /\ g = [j \in Key |-> g[j]]
          /\ \A j \in Key : g[j] = IF j = k THEN Line[j] \cup ((Lock!Waiting(k) \cup {p}) \X {p})
                                   ELSE Line[j]
      BY DEF Line
    <3>2. \A j \in Key : g[j] \subseteq Proc \X Proc
      <4>1. Lock!Waiting(k) \subseteq Proc /\ \A j \in Key : Line[j] \subseteq Proc \X Proc
        BY DEF Line, Lock!Waiting
      <4> QED
        BY <3>1, <4>1
    <3> HIDE DEF g
    <3>3. /\ queue[k] \in Seq(Proc)
          /\ \A j \in Key : queue'[j] = IF j = k THEN Append(queue[k], p) ELSE queue[j]
          /\ \A r \in Proc : st'[r] = IF r = p THEN "BLOCKED" ELSE st[r]
      BY <1>3 DEF MInv, TypeOK
    <3>4. /\ DOMAIN queue[k] = 1 .. Len(queue[k]) /\ DOMAIN queue'[k] = 1 .. Len(queue[k]) + 1
          /\ Len(queue[k]) \in Nat
          /\ \A i \in DOMAIN queue[k] : queue'[k][i] = queue[k][i]
          /\ queue'[k][Len(queue[k]) + 1] = p
      <4>1. queue'[k] = Append(queue[k], p)
        BY <3>3
      <4> QED
        BY <3>3, <4>1, Appended
    <3>5. \A j \in Key, r, s \in Proc : <<r, s>> \in g[j] <=> Before(j, r, s)'
      <4> TAKE j \in Key, r, s \in Proc
      <4>1. CASE j # k
        BY <1>1, <3>1, <3>3, <4>1, InLine DEF Before
      <4>2. CASE j = k
        <5> DEFINE last == Len(queue[k]) + 1
        <5>1. <<r, s>> \in g[k] <=> Before(k, r, s) \/ (s = p /\ (r = p \/ r \in Lock!Waiting(k)))
          BY <3>1, InLine
        <5>2. /\ \A i \in DOMAIN queue[k] : i < last /\ i \in DOMAIN queue'[k]
              /\ last \in DOMAIN queue'[k] /\ last <= last
              /\ \A i \in DOMAIN queue'[k] : i \in DOMAIN queue[k] \/ i = last
          BY <3>4
        <5> HIDE DEF last
        <5>6. queue'[k][last] = p
          BY <3>4 DEF last
        <5>3. ASSUME Before(k, r, s)
              PROVE  Before(k, r, s)'
          BY <1>1, <3>3, <3>4, <5>2, <5>3 DEF Before
        <5>4. ASSUME s = p, r = p \/ r \in Lock!Waiting(k)
              PROVE  Before(k, r, s)'
          <6>1. CASE r = p
            BY <3>3, <5>2, <5>4, <5>6, <6>1 DEF Before
          <6>2. CASE r # p
            <7>1. PICK i \in DOMAIN queue[k] : queue[k][i] = r /\ st[r] # "DELETE"
              BY <5>4, <6>2, WaitingAre DEF MInv
            <7>2. i <= last
              BY <3>4, <5>2 DEF last
            <7> QED
              BY <3>3, <3>4, <5>2, <5>4, <5>6, <6>2, <7>1, <7>2 DEF Before
          <6> QED
            BY <6>1, <6>2
        <5>5. ASSUME Before(k, r, s)'
              PROVE  Before(k, r, s) \/ (s = p /\ (r = p \/ r \in Lock!Waiting(k)))
          <6>1. PICK i, l \in DOMAIN queue'[k] :
                   i <= l /\ queue'[k][i] = r /\ queue'[k][l] = s
            BY <5>5 DEF Before
          <6>2. st'[r] # "DELETE" /\ st'[s] # "DELETE"
            BY <5>5 DEF Before
          <6>3. CASE l = last
            <7>1. s = p /\ (i = last => r = p)
              BY <5>6, <6>1, <6>3
            <7>2. i # last => i \in DOMAIN queue[k] /\ queue[k][i] = r /\ r # p
              BY <1>1, <3>4, <5>2, <6>1
            <7> QED
              BY <3>3, <6>2, <7>1, <7>2, WaitingAre DEF MInv
          <6>4. CASE l # last
            <7>1. l \in DOMAIN queue[k] /\ i # last
              BY <3>4, <5>2, <6>1, <6>4 DEF last
            <7>2. i \in DOMAIN queue[k] /\ queue[k][i] = r /\ queue[k][l] = s /\ r # p /\ s # p
              BY <1>1, <3>4, <5>2, <6>1, <7>1
            <7> QED
              BY <3>3, <6>1, <6>2, <7>1, <7>2 DEF Before
          <6> QED
            BY <6>3, <6>4
        <5> QED
          BY <4>2, <5>1, <5>3, <5>4, <5>5
      <4> QED
        BY <4>1, <4>2
    <3>6. Line' = g
      BY <3>1, <3>2, <3>5, LinesAre
    <3> QED
      BY <3>6 DEF g
  <2> QED
    BY <2>1, <2>2, <2>3, <2>4 DEF Lock!Join
<1> QED
  BY <1>2, <1>3, <1>4, LockKeeps

(* A step that only moves the mutex k, or one that was closed in use.      *)
LEMMA OwnerMoves ==
    ASSUME MInv, MInv', UNCHANGED <<lost, misused>>, NEW k \in Key, NEW o,
           \A r \in Proc, j \in Key : j # k => (j \in Has(r)' <=> j \in Has(r)),
           \/ k \in misused /\ o = Anybody
           \/ k \notin misused /\ \E r \in Proc : o = r /\ k \in Has(r)'
           \/ k \notin misused /\ o = NULL /\ ~Taken(k)'
    PROVE  Owner' = [Owner EXCEPT ![k] = o]
<1> DEFINE f == [Owner EXCEPT ![k] = o]
<1>1. f = [j \in Key |-> f[j]] /\ \A j \in Key : f[j] = IF j = k THEN o ELSE Owner[j]
  BY DEF Owner
<1> HIDE DEF f
<1>2. OwnerIsWhoHas /\ \A j \in Key : j # k => (Taken(j)' <=> Taken(j))
  BY OwnerOf DEF Taken
<1>3. \A j \in Key : \/ f[j] = Anybody /\ j \in misused'
                     \/ /\ j \notin misused'
                        /\ \/ \E r \in Proc : f[j] = r /\ j \in Has(r)'
                           \/ f[j] = Nobody /\ j \in lost'
                           \/ f[j] = NULL /\ ~Taken(j)'
  <2> TAKE j \in Key
  <2>1. CASE j = k
    BY <1>1, <2>1
  <2>2. CASE j # k
    BY <1>1, <1>2, <2>2 DEF OwnerIsWhoHas
  <2> QED
    BY <2>1, <2>2
<1>4. Owner' = f
  BY <1>1, <1>3, OwnersAre
<1> QED
  BY <1>4 DEF f

(* A mutex that was closed in use has no owner to lose.                    *)
LEMMA MisusedStays ==
    ASSUME MInv, MInv', UNCHANGED <<lost, misused>>, NEW k \in Key, k \in misused,
           \A r \in Proc, j \in Key : j # k => (j \in Has(r)' <=> j \in Has(r))
    PROVE  Owner' = Owner /\ Owner[k] = Anybody
<1>1. Owner' = [Owner EXCEPT ![k] = Anybody]
  BY OwnerMoves
<1>2. Owner[k] = Anybody
  BY OwnerOf DEF OwnerIsWhoHas
<1>3. Owner = [j \in Key |-> Owner[j]]
  BY DEF Owner
<1> QED
  BY <1>1, <1>2, <1>3

(* mutex_unlock gives the lock to the first of those who wait, or to       *)
(* nobody when nobody waits.                                               *)
LEMMA HandOverImplements ==
    ASSUME MInv, NEW p \in Proc, NEW k \in Key, mutex_unlock(p, k), is_open(k)
    PROVE  \/ Lock!ReleaseToNobody(k) \/ UNCHANGED <<Owner, Line>>
           \/ \E o \in Proc : Lock!ReleaseTo(o, k)
<1> DEFINE q == queue[k]
           t == Turn(k)
<1>1. /\ MInv' /\ OwnerIsWhoHas /\ UNCHANGED <<lost, misused>> /\ k \in Has(p)
      /\ Unlocks(p, k)
      /\ \A r \in NextOwner(k) : r \in Proc \ {p} /\ st[r] # "DELETE"
      /\ \A r \in Proc : st'[r] = "DELETE" <=> st[r] = "DELETE"
      /\ \A r \in Proc, j \in Key :
           j \in Has(r)' <=> \/ j \in Has(r) /\ ~(r = p /\ j = k)
                             \/ r \in NextOwner(k) /\ j = k
  BY UnlockKeeps, OwnerOf, HasMember DEF mutex_unlock
<1>2. /\ \A j \in Key \ {k} : queue'[j] = queue[j]
      /\ \A i \in DOMAIN queue'[k] : t + i \in DOMAIN q /\ queue'[k][i] = q[t + i]
      /\ \A i \in DOMAIN q : i > t => i - t \in DOMAIN queue'[k] /\ queue'[k][i - t] = q[i]
      /\ \/ t \in DOMAIN q /\ NextOwner(k) = {q[t]}
         \/ t = Len(q) + 1 /\ NextOwner(k) = {} /\ queue'[k] = <<>>
  BY <1>1, UnlockEffect DEF MInv
<1>3. t \in 1 .. Len(q) + 1 /\ \A j \in 1 .. t - 1 : st[q[j]] = "DELETE"
  BY TurnIsFirst DEF MInv
<1>4. /\ queue'[k] \in Seq(Proc) /\ q \in Seq(Proc)
      /\ DOMAIN q = 1 .. Len(q) /\ Len(q) \in Nat
      /\ \A i \in DOMAIN queue'[k] : i \in Nat \ {0}
  <2>1. queue'[k] \in Seq(Proc) /\ q \in Seq(Proc)
    BY <1>1 DEF MInv, TypeOK
  <2>2. \A i \in DOMAIN queue'[k] : i \in 1 .. Len(queue'[k])
    BY <2>1, LenProperties
  <2> QED
    BY <2>1, <2>2, LenProperties
<1>5. /\ k \notin misused => Owner[k] = p /\ k \notin lost /\ \A r \in Proc : k \in Has(r) => r = p
      /\ k \in misused <=> Owner[k] = Anybody
  BY <1>1 DEF OwnerIsWhoHas, MInv, OneOwner
<1>6. \A i \in DOMAIN q : st[q[i]] # "DELETE" => i >= t
  BY <1>3, <1>4
<1>7. \A j \in Key, r, s \in Proc : j # k => (Before(j, r, s)' <=> Before(j, r, s))
  BY <1>1, <1>2 DEF Before
<1>8. \A r \in Proc, j \in Key : j # k => (j \in Has(r)' <=> j \in Has(r))
  BY <1>1
<1> HIDE DEF q, t
<1>9. ASSUME t = Len(q) + 1, NextOwner(k) = {}, queue'[k] = <<>>
      PROVE  Lock!ReleaseToNobody(k) \/ UNCHANGED <<Owner, Line>>
  <2>1. \A i \in DOMAIN q : st[q[i]] = "DELETE"
    BY <1>4, <1>6, <1>9
  <2>2. Lock!Waiting(k) = {}
    <3>1. Lock!Waiting(k) \subseteq Proc
      BY DEF Lock!Waiting
    <3> QED
      BY <2>1, <3>1, WaitingAre DEF MInv, q
  <2>3. Line' = Line
    <3>1. \A r, s \in Proc : ~Before(k, r, s) /\ ~Before(k, r, s)'
      BY <1>9, <2>1 DEF Before, q
    <3>2. \A j \in Key, r, s \in Proc : <<r, s>> \in Line[j] <=> Before(j, r, s)'
      BY <1>7, <3>1, InLine
    <3>3. Line = [j \in Key |-> Line[j]] /\ \A j \in Key : Line[j] \subseteq Proc \X Proc
      BY DEF Line
    <3> QED
      BY <3>2, <3>3, LinesAre
  <2>4. CASE k \notin misused
    <3>1. ~Taken(k)'
      BY <1>1, <1>5, <1>9, <2>4 DEF Taken
    <3>2. Owner' = [Owner EXCEPT ![k] = NULL]
      BY <1>1, <1>8, <2>4, <3>1, OwnerMoves
    <3> QED
      BY <1>5, <2>2, <2>3, <2>4, <3>2 DEF Lock!ReleaseToNobody
  <2>5. CASE k \in misused
    BY <1>1, <1>8, <2>3, <2>5, MisusedStays
  <2> QED
    BY <2>4, <2>5
<1>10. ASSUME t \in DOMAIN q, NextOwner(k) = {q[t]}
       PROVE  \E o \in Proc : Lock!ReleaseTo(o, k)
  <2>1. PICK o \in Proc : o = q[t] /\ o # p /\ st[o] # "DELETE"
    BY <1>1, <1>10
  <2>2. o \in Lock!Waiting(k)
    BY <1>10, <2>1, WaitingAre DEF MInv, q
  <2>3. ASSUME NEW r \in Lock!Waiting(k)
        PROVE  <<o, r>> \in Line[k]
    <3>1. r \in Proc
      BY DEF Lock!Waiting
    <3>2. PICK i \in DOMAIN q : q[i] = r /\ st[r] # "DELETE"
      BY <3>1, WaitingAre DEF MInv, q
    <3>3. t <= i
      BY <1>3, <1>4, <1>6, <3>2
    <3> QED
      BY <1>10, <2>1, <3>1, <3>2, <3>3, InLine DEF Before, q
  <2>4. Owner' = [Owner EXCEPT ![k] = IF @ = Anybody THEN Anybody ELSE o]
    <3>1. k \in Has(o)'
      BY <1>1, <1>10, <2>1
    <3>2. CASE k \notin misused
      <4>1. Owner' = [Owner EXCEPT ![k] = o]
        BY <1>1, <1>8, <3>1, <3>2, OwnerMoves
      <4> QED
        BY <1>5, <3>2, <4>1
    <3>3. CASE k \in misused
      <4>1. Owner' = [Owner EXCEPT ![k] = Anybody]
        BY <1>1, <1>8, <3>3, OwnerMoves
      <4> QED
        BY <1>5, <3>3, <4>1
    <3> QED
      BY <3>2, <3>3
  <2>5. Line' = [Line EXCEPT ![k] = Lock!Without(@, o)]
    <3> DEFINE g == [Line EXCEPT ![k] = Lock!Without(@, o)]
    <3>1. /\ g = [j \in Key |-> g[j]]
          /\ \A j \in Key : g[j] = IF j = k THEN Lock!Without(Line[j], o) ELSE Line[j]
      BY DEF Line
    <3>2. \A j \in Key : g[j] \subseteq Proc \X Proc
      <4>1. \A j \in Key : Line[j] \subseteq Proc \X Proc
        BY DEF Line
      <4> QED
        BY <3>1, <4>1 DEF Lock!Without
    <3> HIDE DEF g
    <3>3. \A r, s \in Proc : <<r, s>> \in g[k] <=> Before(k, r, s) /\ r # o /\ s # o
      <4> TAKE r, s \in Proc
      <4>1. <<r, s>> \in Lock!Without(Line[k], o) <=> <<r, s>> \in Line[k] /\ r # o /\ s # o
        BY LeftIn
      <4> QED
        BY <3>1, <4>1, InLine
    <3>4. ASSUME NEW r \in Proc, NEW s \in Proc, Before(k, r, s)'
          PROVE  Before(k, r, s) /\ r # o /\ s # o
      <4>1. PICK i, l \in DOMAIN queue'[k] : i <= l /\ queue'[k][i] = r /\ queue'[k][l] = s
        BY <3>4 DEF Before
      <4>2. st[r] # "DELETE" /\ st[s] # "DELETE"
        BY <1>1, <3>4 DEF Before
      <4>3. /\ t + i \in DOMAIN q /\ q[t + i] = r /\ t + l \in DOMAIN q /\ q[t + l] = s
            /\ t + i <= t + l /\ t + i # t /\ t + l # t
        BY <1>2, <1>3, <1>4, <4>1
      <4>4. r # o /\ s # o
        BY <1>10, <2>1, <4>3 DEF MInv, QueuedOnce, q
      <4> QED
        BY <4>2, <4>3, <4>4 DEF Before, q
    <3>5. ASSUME NEW r \in Proc, NEW s \in Proc, Before(k, r, s), r # o, s # o
          PROVE  Before(k, r, s)'
      <4>1. PICK i, l \in DOMAIN q : i <= l /\ q[i] = r /\ q[l] = s
        BY <3>5 DEF Before, q
      <4>2. st[r] # "DELETE" /\ st[s] # "DELETE"
        BY <3>5 DEF Before
      <4>3. i # t /\ l # t /\ i >= t /\ l >= t
        BY <1>6, <2>1, <3>5, <4>1, <4>2
      <4>4. i > t /\ l > t /\ i - t <= l - t
        BY <1>3, <1>4, <4>1, <4>3
      <4>5. /\ i - t \in DOMAIN queue'[k] /\ queue'[k][i - t] = r
            /\ l - t \in DOMAIN queue'[k] /\ queue'[k][l - t] = s
        BY <1>2, <4>1, <4>4
      <4> QED
        BY <1>1, <4>2, <4>4, <4>5 DEF Before
    <3>6. \A j \in Key, r, s \in Proc : <<r, s>> \in g[j] <=> Before(j, r, s)'
      <4> TAKE j \in Key, r, s \in Proc
      <4>1. CASE j = k
        BY <3>3, <3>4, <3>5, <4>1
      <4>2. CASE j # k
        BY <1>7, <3>1, <4>2, InLine
      <4> QED
        BY <4>1, <4>2
    <3>7. Line' = g
      BY <3>1, <3>2, <3>6, LinesAre
    <3> QED
      BY <3>7 DEF g
  <2> QED
    BY <1>5, <2>1, <2>2, <2>3, <2>4, <2>5 DEF Lock!ReleaseTo
<1> QED
  BY <1>2, <1>9, <1>10

(* mutex_unlock of an open mutex is that, and of a closed one it is none   *)
(* of the lock's steps.                                                    *)
LEMMA UnlockImplements ==
    ASSUME MInv, NEW p \in Proc, NEW k \in Key, mutex_unlock(p, k)
    PROVE  \/ Lock!ReleaseToNobody(k) \/ UNCHANGED <<Owner, Line>>
           \/ \E o \in Proc : Lock!ReleaseTo(o, k)
<1>1. CASE is_open(k)
  BY <1>1, HandOverImplements
<1>2. CASE ~is_open(k)
  <2>1. /\ MInv' /\ k \in misused /\ UNCHANGED <<queue, st, lost, misused>>
        /\ \A r \in Proc, j \in Key : j # k => (j \in Has(r)' <=> j \in Has(r))
    BY <1>2, UnlockKeeps DEF mutex_unlock
  <2>2. Owner' = Owner
    BY <2>1, MisusedStays
  <2>3. Line' = Line
    BY <2>1, LinesStay
  <2> QED
    BY <2>2, <2>3
<1> QED
  BY <1>1, <1>2

(* Whoever dies, killed or at its own end, leaves every line, and what it  *)
(* had is nobody's.                                                        *)
LEMMA GoneImplements ==
    ASSUME MInv, NEW q \in Proc, q \in alive, Gone(q), UNCHANGED <<mutexes, misused>>,
           \/ alive' = alive /\ st' = [st EXCEPT ![q] = "DELETE"]
           \/ alive' = alive \ {q} /\ st[q] = "READY" /\ at[q] = NULL /\ st' = st
    PROVE  Lock!Die(q)
<1>1. /\ MInv' /\ OwnerIsWhoHas /\ queue' = queue
      /\ \A j \in Key \ misused : j \in lost' <=> j \in lost \/ j \in Has(q)
      /\ \A r \in Proc, j \in Key : j \in Has(r)' <=> j \in Has(r) /\ r # q
  BY GoneKeeps, OwnerOf DEF mutexes
<1>2. \A j \in Key \ misused : Taken(j)' <=> Taken(j)
  BY <1>1 DEF Taken
<1>3. Owner' = [j \in Key |-> IF Owner[j] = q THEN Nobody ELSE Owner[j]]
  <2> DEFINE f == [j \in Key |-> IF Owner[j] = q THEN Nobody ELSE Owner[j]]
  <2>1. f = [j \in Key |-> f[j]] /\ \A j \in Key : f[j] = IF Owner[j] = q THEN Nobody ELSE Owner[j]
    OBVIOUS
  <2> HIDE DEF f
  <2>2. \A j \in Key : \/ f[j] = Anybody /\ j \in misused'
                       \/ /\ j \notin misused'
                          /\ \/ \E r \in Proc : f[j] = r /\ j \in Has(r)'
                             \/ f[j] = Nobody /\ j \in lost'
                             \/ f[j] = NULL /\ ~Taken(j)'
    <3> TAKE j \in Key
    <3>1. CASE j \in misused
      BY <1>1, <2>1, <3>1, MarkFacts DEF OwnerIsWhoHas
    <3>2. CASE j \notin misused /\ Owner[j] = q
      BY <1>1, <2>1, <3>2 DEF OwnerIsWhoHas
    <3>3. CASE j \notin misused /\ Owner[j] # q
      BY <1>1, <1>2, <2>1, <3>3 DEF OwnerIsWhoHas
    <3> QED
      BY <3>1, <3>2, <3>3
  <2>3. Owner' = f
    BY <1>1, <2>1, <2>2, OwnersAre
  <2> QED
    BY <2>3 DEF f
<1>4. Line' = [j \in Key |-> Lock!Without(Line[j], q)]
  <2> DEFINE g == [j \in Key |-> Lock!Without(Line[j], q)]
  <2>1. g = [j \in Key |-> g[j]] /\ \A j \in Key : g[j] = Lock!Without(Line[j], q)
    OBVIOUS
  <2>2. \A j \in Key : g[j] \subseteq Proc \X Proc
    <3>1. \A j \in Key : Line[j] \subseteq Proc \X Proc
      BY DEF Line
    <3> QED
      BY <3>1 DEF Lock!Without
  <2> HIDE DEF g
  <2>3. \A j \in Key, r, s \in Proc : <<r, s>> \in g[j] <=> Before(j, r, s) /\ r # q /\ s # q
    <3> TAKE j \in Key, r, s \in Proc
    <3>1. <<r, s>> \in Lock!Without(Line[j], q) <=> <<r, s>> \in Line[j] /\ r # q /\ s # q
      BY LeftIn
    <3> QED
      BY <2>1, <3>1, InLine
  <2>4. \A r \in Proc : r # q => st'[r] = st[r]
    BY DEF MInv, TypeOK
  <2>5. ASSUME NEW j \in Key
        PROVE  st'[q] = "DELETE" \/ \A i \in DOMAIN queue[j] : queue[j][i] # q
    BY DEF MInv, TypeOK, QueuedSleeps
  <2>6. \A j \in Key, r, s \in Proc : <<r, s>> \in g[j] <=> Before(j, r, s)'
    <3> TAKE j \in Key, r, s \in Proc
    <3>1. CASE r # q /\ s # q
      BY <1>1, <2>3, <2>4, <3>1 DEF Before
    <3>2. CASE r = q \/ s = q
      BY <1>1, <2>3, <2>5, <3>2 DEF Before
    <3> QED
      BY <3>1, <3>2
  <2>7. Line' = g
    BY <2>1, <2>2, <2>6, LinesAre
  <2> QED
    BY <2>7 DEF g
<1> QED
  BY <1>3, <1>4 DEF Lock!Die

(* At the start every lock is free and every line empty.                   *)
LEMMA InitImplements == Init => Lock!Init
<1> SUFFICES ASSUME Init PROVE Lock!Init
  OBVIOUS
<1>1. \A k \in Key : Owner[k] = NULL
  BY KeyFacts, HasMember DEF Init, Owner
<1>2. Owner = [k \in Key |-> NULL]
  BY <1>1 DEF Owner
<1>3. \A k \in Key : Line[k] = {}
  BY DEF Init, Line, Before
<1>4. Line = [k \in Key |-> {}]
  BY <1>3 DEF Line
<1> QED
  BY <1>2, <1>4 DEF Lock!Init

(* Every step is one of the lock's, or none for it.                        *)
LEMMA StepImplements ==
    ASSUME ~PageReuse, IInv, [Next]_vars
    PROVE  [Lock!Next]_(Lock!vars)
<1> USE DEF IInv
<1>1. ASSUME NEW p \in Proc, NEW k \in Key, mutex_open(p, k)
      PROVE  Lock!Next \/ UNCHANGED <<Owner, Line>>
  BY <1>1, OpenImplements DEF Lock!Next
<1>2. ASSUME NEW p \in Proc, LockReturns(p) \/ destroy_process(p) \/ create_process(p)
      PROVE  UNCHANGED <<Owner, Line>>
  BY <1>2, QuietSteps
<1>3. ASSUME NEW p \in Proc, NEW k \in Key, mutex_close(p, k)
      PROVE  Lock!Next
  BY <1>3, CloseImplements DEF Lock!Next
<1>4. ASSUME NEW p \in Proc, NEW k \in Key, mutex_lock(p, k)
      PROVE  Lock!Next \/ UNCHANGED <<Owner, Line>>
  BY <1>4, LockImplements DEF Lock!Next
<1>5. ASSUME NEW p \in Proc, NEW k \in Key, mutex_unlock(p, k)
      PROVE  Lock!Next \/ UNCHANGED <<Owner, Line>>
  BY <1>5, UnlockImplements DEF Lock!Next
<1>6. ASSUME NEW p \in Proc, end_process(p)
      PROVE  Lock!Next
  BY <1>6, GoneImplements DEF Lock!Next, end_process, Runs
<1>7. ASSUME NEW p \in Proc, NEW q \in Proc, kill_process(p, q)
      PROVE  Lock!Next
  BY <1>7, GoneImplements DEF Lock!Next, kill_process
<1>8. CASE UNCHANGED vars
  <2>1. UNCHANGED <<Owner, Line>>
    BY <1>8 DEF vars, mutexes, Owner, Line, Before, Has, is_open
  <2> QED
    BY <2>1 DEF Lock!vars
<1> QED
  BY <1>1, <1>2, <1>3, <1>4, <1>5, <1>6, <1>7, <1>8 DEF Next, Lock!vars

(* The mutexes implement locks with one owner each, but for those closed in*)
(* use, which pass from the one who unlocks to the one who has waited      *)
(* longest, whoever comes and goes meanwhile (kernelMutex.c:53-153).       *)
THEOREM MutexesAreFifoLocks ==
    ASSUME ~PageReuse
    PROVE  Spec => ImplementsFifoLock
<1>1. IInv /\ [Next]_vars => [Lock!Next]_(Lock!vars)
  BY StepImplements
<1> QED
  BY <1>1, InitImplements, MutexInvariance, PTL DEF Spec, ImplementsFifoLock, Lock!Spec

-----------------------------------------------------------------------------
(* The condition variables. *)

CondTypes ==
    /\ cstate \in [Cond -> {"OPEN", "CLOSED"}]
    /\ process_queue \in [Cond -> Seq(Proc)]
    /\ waits \in [Proc -> [cond : Cond, lock : Key] \cup {NULL}]
    /\ \A c \in Cond : ~is_open_cond(c) => process_queue[c] = <<>>

CondQueuedOnce ==
    \A c \in Cond : \A i, j \in DOMAIN process_queue[c] :
        process_queue[c][i] = process_queue[c][j] => i = j

(* Who is in the queue of a condition sleeps there, or was killed.         *)
CondQueuedSleeps ==
    \A c \in Cond : \A i \in DOMAIN process_queue[c] :
        st[process_queue[c][i]] = "DELETE" \/ Asleep(process_queue[c][i], c)

(* Who is blocked in cond_wait is in the queue of that condition.          *)
CondSleeperIsInLine ==
    \A p \in Proc : (st[p] = "BLOCKED" /\ waits[p] # NULL) =>
        \E i \in DOMAIN process_queue[waits[p].cond] : process_queue[waits[p].cond][i] = p

(* Who waits for a condition lives and waits for no mutex.                 *)
WaitsForOne ==
    \A p \in Proc : waits[p] # NULL => at[p] = NULL /\ p \in alive /\ st[p] # "DELETE"

CInv == CondTypes /\ CondQueuedOnce /\ CondQueuedSleeps /\ CondSleeperIsInLine /\ WaitsForOne

CondInv == MInv /\ CInv

(* NULL, in waits, is no wait.                                             *)
NullIsNoWait == NULL \notin [cond : Cond, lock : Key]

-----------------------------------------------------------------------------
(* Lemmas. *)

(* Waking processes that wait for no mutex is nothing to the mutexes.      *)
LEMMA WakeKeeps ==
    ASSUME MInv, UNCHANGED <<mutexes, alive, at, holds, lost, misused>>,
           st' \in [Proc -> {"READY", "BLOCKED", "DELETE"}],
           \A r \in Proc : st'[r] = st[r] \/ (st[r] = "BLOCKED" /\ st'[r] = "READY" /\ at[r] = NULL)
    PROVE  MInv'
<1> USE DEF MInv
<1>1. UNCHANGED <<state, locked, queue>> /\ \A j \in Key : is_open(j)' <=> is_open(j)
  BY DEF mutexes, is_open
<1>2. TypeOK' /\ QueuedOnce' /\ SleeperIsInLine'
  BY <1>1 DEF TypeOK, QueuedOnce, SleeperIsInLine
<1>3. QueuedSleeps'
  <2> SUFFICES ASSUME NEW j \in Key, NEW i \in DOMAIN queue[j], st'[queue[j][i]] # "DELETE"
               PROVE  LET r == queue[j][i] IN r \in alive' /\ st'[r] = "BLOCKED" /\ at'[r] = j
    BY <1>1 DEF QueuedSleeps
  <2>1. queue[j][i] \in Proc
    <3>1. queue[j] \in Seq(Proc)
      BY DEF TypeOK
    <3> QED
      BY <3>1, LenProperties, ElementOfSeq
  <2> QED
    BY <2>1, KeyFacts DEF QueuedSleeps
<1>4. GoneHaveNothing'
  BY DEF GoneHaveNothing
<1>5. \A r \in Proc, j \in Key : j \in Has(r)' <=> j \in Has(r)
  <2> TAKE r \in Proc, j \in Key
  <2>1. j \in Has(r)' <=> j \in holds'[r] \/ (st'[r] # "BLOCKED" /\ at'[r] = j)
    BY DEF Has
  <2> QED
    BY <2>1, HasMember, KeyFacts
<1>6. OneOwner' /\ \A j \in Key : Taken(j)' <=> Taken(j)
  BY <1>5 DEF OneOwner, Taken
<1>7. LockedIsTaken'
  BY <1>1, <1>6 DEF LockedIsTaken
<1> QED
  BY <1>2, <1>3, <1>4, <1>6, <1>7

(* A step that leaves the conditions, those who wait for them and those    *)
(* marked in their queues alone keeps what is said of them.                *)
LEMMA CondStays ==
    ASSUME CInv, UNCHANGED cvars,
           \A r \in Proc : waits[r] # NULL =>
               st'[r] = st[r] /\ at'[r] = at[r] /\ (r \in alive' <=> r \in alive),
           \A c \in Cond : \A i \in DOMAIN process_queue[c] :
               st[process_queue[c][i]] = "DELETE" => st'[process_queue[c][i]] = "DELETE"
    PROVE  CInv'
<1> USE DEF CInv
<1>1. UNCHANGED <<cstate, process_queue, waits>>
  BY DEF cvars
<1>2. CondTypes' /\ CondQueuedOnce'
  BY <1>1 DEF CondTypes, CondQueuedOnce, is_open_cond
<1>3. CondQueuedSleeps'
  <2> SUFFICES ASSUME NEW c \in Cond, NEW i \in DOMAIN process_queue[c],
                      st'[process_queue[c][i]] # "DELETE"
               PROVE  Asleep(process_queue[c][i], c)'
    BY <1>1 DEF CondQueuedSleeps
  <2>1. Asleep(process_queue[c][i], c)
    BY DEF CondQueuedSleeps
  <2>2. process_queue[c][i] \in Proc
    <3>1. process_queue[c] \in Seq(Proc)
      BY DEF CondTypes
    <3> QED
      BY <3>1, LenProperties, ElementOfSeq
  <2> QED
    BY <1>1, <2>1, <2>2 DEF Asleep
<1>4. CondSleeperIsInLine'
  BY <1>1 DEF CondSleeperIsInLine
<1>5. WaitsForOne'
  BY <1>1 DEF WaitsForOne
<1> QED
  BY <1>2, <1>3, <1>4, <1>5

(* Who runs or has just been woken is in no queue of a condition.          *)
LEMMA ReadyIsOut ==
    ASSUME CInv, NEW p \in Proc, st[p] = "READY"
    PROVE  \A c \in Cond : \A i \in DOMAIN process_queue[c] : process_queue[c][i] # p
BY DEF CInv, CondQueuedSleeps, Asleep

(* The elements of the queues are processes.                               *)
LEMMA CondQueueOfProc ==
    ASSUME CInv, NEW c \in Cond, NEW i \in DOMAIN process_queue[c]
    PROVE  process_queue[c][i] \in Proc
<1>1. process_queue[c] \in Seq(Proc)
  BY DEF CInv, CondTypes
<1> QED
  BY <1>1, LenProperties, ElementOfSeq

(* Who waits has a record there.                                           *)
LEMMA WaitIs ==
    ASSUME CInv, NEW p \in Proc, waits[p] # NULL
    PROVE  waits[p].cond \in Cond /\ waits[p].lock \in Key
BY DEF CInv, CondTypes

-----------------------------------------------------------------------------
(* The steps. *)

(* No condition is open at the start.                                      *)
LEMMA CondInitIsFine == CondInit => CondInv
<1> SUFFICES ASSUME CondInit PROVE CondInv
  OBVIOUS
<1>1. MInv
  BY InitIsFine DEF CondInit, IInv
<1>2. CInv
  BY DEF CondInit, CInv, CondTypes, CondQueuedOnce, CondQueuedSleeps, CondSleeperIsInLine,
         WaitsForOne, is_open_cond
<1> QED
  BY <1>1, <1>2 DEF CondInv

(* Opening a condition keeps the invariant (condVariable.c:39-56).         *)
LEMMA CondOpenKeeps ==
    ASSUME CondInv, NEW p \in Proc, NEW c \in Cond, cond_open(p, c)
    PROVE  CondInv'
<1> USE DEF CondInv, CInv
<1>1. /\ ~is_open_cond(c) /\ UNCHANGED <<vars, waits>>
      /\ cstate' = [cstate EXCEPT ![c] = "OPEN"]
      /\ process_queue' = [process_queue EXCEPT ![c] = <<>>]
  BY DEF cond_open
<1>2. process_queue' = process_queue
  BY <1>1 DEF CondTypes
<1>3. MInv'
  BY <1>1, StutterKeeps
<1>4. UNCHANGED <<st, at, alive>>
  BY <1>1 DEF vars
<1>5. \A d \in Cond : is_open_cond(d)' <=> is_open_cond(d) \/ d = c
  BY <1>1 DEF is_open_cond, CondTypes
<1>6. CondTypes'
  BY <1>1, <1>2, <1>5 DEF CondTypes
<1>7. CondQueuedOnce' /\ CondQueuedSleeps' /\ CondSleeperIsInLine' /\ WaitsForOne'
  BY <1>1, <1>2, <1>4 DEF CondQueuedOnce, CondQueuedSleeps, CondSleeperIsInLine, WaitsForOne, Asleep
<1> QED
  BY <1>3, <1>6, <1>7

(* cond_wait keeps it: the mutex goes to the next, and the caller, which   *)
(* was in no queue, joins that of the condition and sleeps (condVariable.c:*)
(* 74-87).                                                                 *)
LEMMA CondWaitKeeps ==
    ASSUME CondInv, NullIsNoWait, NEW p \in Proc, NEW c \in Cond, NEW k \in Key, cond_wait(p, c, k)
    PROVE  CondInv'
<1> USE DEF CondInv, CInv
<1>1. /\ p \in alive /\ st[p] = "READY" /\ at[p] = NULL /\ waits[p] = NULL /\ is_open_cond(c)
      /\ k \in holds[p]
      /\ st' = block_process(unblock_processes(st, IF is_open(k) THEN NextOwner(k) ELSE {}), p)
      /\ process_queue' = [process_queue EXCEPT ![c] = Append(@, p)]
      /\ waits' = [waits EXCEPT ![p] = [cond |-> c, lock |-> k]]
      /\ UNCHANGED <<state, alive, at, lost, misused, cstate>>
  BY DEF cond_wait, Calls, Runs, sync_enqueue, enqueue
<1> DEFINE W == IF is_open(k) THEN NextOwner(k) ELSE {}
<1>2. \A r \in W : r \in Proc /\ st[r] # "DELETE" /\ at[r] = k
  <2> TAKE r \in W
  <2>1. is_open(k) /\ Unlocks(p, k) /\ r \in NextOwner(k)
    BY DEF cond_wait
  <2>2. Turn(k) \in DOMAIN queue[k] /\ r = queue[k][Turn(k)] /\ st[r] # "DELETE" /\ queue[k] \in Seq(Proc)
    BY <2>1, UnlockEffect, TurnIsFirst DEF MInv, TypeOK
  <2>3. r \in Proc
    BY <2>2, LenProperties, ElementOfSeq
  <2> QED
    BY <2>2, <2>3 DEF MInv, QueuedSleeps
<1>3. /\ st' \in [Proc -> {"READY", "BLOCKED", "DELETE"}]
      /\ st'[p] = "BLOCKED"
      /\ \A r \in Proc \ {p} : st'[r] = IF r \in W THEN "READY" ELSE st[r]
  BY <1>1, <1>2 DEF block_process, unblock_processes, MInv, TypeOK
<1>4. MInv'
  <2>1. CASE is_open(k)
    <3>1. Unlocks(p, k)
      BY <2>1 DEF cond_wait
    <3> QED
      BY <1>1, <1>3, <2>1, <3>1, UnlocksKeep
  <2>2. CASE ~is_open(k)
    <3>1. holds' = [holds EXCEPT ![p] = @ \ {k}] /\ UNCHANGED <<queue, locked>>
      BY <2>2 DEF cond_wait
    <3> QED
      BY <1>1, <1>3, <2>2, <3>1, GivingUpKeeps
  <2> QED
    BY <2>1, <2>2
<1>6. \A r \in W : waits[r] = NULL
  BY <1>2, KeyFacts DEF WaitsForOne
<1>7. \A d \in Cond : \A i \in DOMAIN process_queue[d] : process_queue[d][i] \in Proc \ {p}
  BY <1>1, ReadyIsOut, CondQueueOfProc
<1>8. \A d \in Cond : \A i \in DOMAIN process_queue[d] : process_queue[d][i] \notin W
  BY <1>2, <1>6 DEF CondQueuedSleeps, Asleep
<1>9. /\ process_queue[c] \in Seq(Proc) /\ process_queue' \in [Cond -> Seq(Proc)]
      /\ \A d \in Cond : process_queue'[d] = IF d = c THEN Append(process_queue[c], p)
                                             ELSE process_queue[d]
      /\ \A r \in Proc : waits'[r] = IF r = p THEN [cond |-> c, lock |-> k] ELSE waits[r]
  BY <1>1 DEF CondTypes
<1> DEFINE last == Len(process_queue[c]) + 1
<1>10. /\ DOMAIN process_queue[c] = 1 .. Len(process_queue[c])
       /\ DOMAIN process_queue'[c] = 1 .. last /\ Len(process_queue[c]) \in Nat
       /\ \A i \in DOMAIN process_queue[c] : process_queue'[c][i] = process_queue[c][i]
       /\ process_queue'[c][last] = p
  <2>1. process_queue'[c] = Append(process_queue[c], p)
    BY <1>9
  <2> QED
    BY <1>9, <2>1, Appended
<1>11. last \in DOMAIN process_queue'[c] /\ \A i \in DOMAIN process_queue[c] : i \in DOMAIN process_queue'[c]
  BY <1>10
<1>12. \A d \in Cond : \A i \in DOMAIN process_queue'[d] :
          \/ i \in DOMAIN process_queue[d] /\ process_queue'[d][i] = process_queue[d][i]
          \/ d = c /\ i = last
  BY <1>9, <1>10
<1> HIDE DEF last
<1>13. CondTypes'
  <2>1. \A d \in Cond : is_open_cond(d)' <=> is_open_cond(d)
    BY <1>1 DEF is_open_cond
  <2>2. \A d \in Cond : ~is_open_cond(d) => process_queue'[d] = <<>>
    BY <1>1, <1>9 DEF CondTypes
  <2>3. waits' \in [Proc -> [cond : Cond, lock : Key] \cup {NULL}]
    BY <1>1 DEF CondTypes
  <2> QED
    BY <1>1, <1>9, <2>1, <2>2, <2>3 DEF CondTypes
<1>14. CondQueuedOnce'
  BY <1>7, <1>10, <1>12 DEF CondQueuedOnce
<1>15. [cond |-> c, lock |-> k] # NULL
  BY DEF NullIsNoWait
<1>16. CondQueuedSleeps'
  <2> SUFFICES ASSUME NEW d \in Cond, NEW i \in DOMAIN process_queue'[d],
                      NEW s, s = process_queue'[d][i], st'[s] # "DELETE"
               PROVE  Asleep(s, d)'
    BY DEF CondQueuedSleeps
  <2>1. CASE i \in DOMAIN process_queue[d] /\ process_queue'[d][i] = process_queue[d][i]
    <3>1. PICK r \in Proc : r = process_queue[d][i] /\ r # p /\ r \notin W
      BY <1>7, <1>8, <2>1
    <3>2. st'[r] = st[r] /\ waits'[r] = waits[r]
      BY <1>3, <1>9, <3>1
    <3>3. Asleep(r, d)
      BY <2>1, <3>1, <3>2 DEF CondQueuedSleeps
    <3>4. Asleep(r, d)'
      BY <1>1, <3>2, <3>3 DEF Asleep
    <3> QED
      BY <2>1, <3>1, <3>4
  <2>2. CASE d = c /\ i = last
    <3>1. Asleep(p, c)'
      BY <1>1, <1>3, <1>9, <1>15 DEF Asleep
    <3> QED
      BY <1>10, <2>2, <3>1
  <2> QED
    BY <1>12, <2>1, <2>2
<1>17. CondSleeperIsInLine'
  <2> SUFFICES ASSUME NEW r \in Proc, st'[r] = "BLOCKED", waits'[r] # NULL
               PROVE  \E i \in DOMAIN process_queue'[waits'[r].cond] :
                        process_queue'[waits'[r].cond][i] = r
    BY DEF CondSleeperIsInLine
  <2>1. CASE r = p
    <3>1. waits'[r].cond = c
      BY <1>9, <2>1
    <3> QED
      BY <1>10, <1>11, <2>1, <3>1
  <2>2. CASE r # p
    <3>1. st[r] = "BLOCKED" /\ waits'[r] = waits[r]
      BY <1>3, <1>9, <2>2
    <3>2. PICK d \in Cond : d = waits[r].cond
      BY <3>1, WaitIs
    <3>3. PICK i \in DOMAIN process_queue[d] : process_queue[d][i] = r
      BY <3>1, <3>2 DEF CondSleeperIsInLine
    <3>4. i \in DOMAIN process_queue'[d] /\ process_queue'[d][i] = r
      BY <1>9, <1>10, <1>11, <3>3
    <3> QED
      BY <3>1, <3>2, <3>4
  <2> QED
    BY <2>1, <2>2
<1>18. WaitsForOne'
  BY <1>1, <1>3, <1>6, <1>9 DEF WaitsForOne
<1> QED
  BY <1>4, <1>13, <1>14, <1>16, <1>17, <1>18

(* Going on without the mutex keeps it: from then on it counts as one that *)
(* was closed in use (condVariable.c:82).                                  *)
LEMMA GoesOnWithoutKeeps ==
    ASSUME MInv, NEW p \in Proc, NEW k \in Key, p \in alive, st[p] = "READY", GoesOnWithout(p, k)
    PROVE  MInv'
<1> USE DEF MInv
<1>1. /\ ~is_open(k) /\ holds' = [holds EXCEPT ![p] = @ \cup {k}]
      /\ misused' = misused \cup {k}
      /\ UNCHANGED <<state, locked, queue, alive, st, at, lost>>
  BY DEF GoesOnWithout, mutexes
<1>2. /\ \A j \in Key : is_open(j)' <=> is_open(j)
      /\ \A r \in Proc : holds'[r] = IF r = p THEN holds[p] \cup {k} ELSE holds[r]
  BY <1>1 DEF is_open, TypeOK
<1>3. TypeOK' /\ QueuedOnce' /\ QueuedSleeps' /\ SleeperIsInLine' /\ GoneHaveNothing'
  BY <1>1, <1>2 DEF TypeOK, QueuedOnce, QueuedSleeps, SleeperIsInLine, GoneHaveNothing
<1>4. \A r \in Proc, j \in Key : j # k => (j \in Has(r)' <=> j \in Has(r))
  BY <1>1, <1>2 DEF Has
<1>5. \A j \in Key : j # k => (Taken(j)' <=> Taken(j))
  BY <1>1, <1>4 DEF Taken
<1>6. OneOwner'
  BY <1>1, <1>4 DEF OneOwner
<1>7. LockedIsTaken'
  BY <1>1, <1>2, <1>5 DEF LockedIsTaken
<1> QED
  BY <1>3, <1>6, <1>7

(* The rest of cond_wait keeps it: the caller stops waiting for the        *)
(* condition, in whose queue it no longer is, and locks the mutex again or *)
(* goes on without it if it was closed.                                    *)
LEMMA GoesOnKeeps ==
    ASSUME CondInv, NEW p \in Proc, CondWaitGoesOn(p)
    PROVE  CondInv'
<1> USE DEF CondInv, CInv
<1>1. /\ p \in alive /\ st[p] = "READY" /\ waits[p] # NULL
      /\ waits' = [waits EXCEPT ![p] = NULL]
      /\ UNCHANGED <<cstate, process_queue>>
      /\ mutex_lock(p, waits[p].lock) \/ GoesOnWithout(p, waits[p].lock)
  BY DEF CondWaitGoesOn, Woken
<1>2. waits[p].lock \in Key
  BY <1>1, WaitIs
<1>3. MInv'
  BY <1>1, <1>2, LockKeeps, GoesOnWithoutKeeps
<1>4. alive' = alive /\ \A r \in Proc \ {p} : st'[r] = st[r] /\ at'[r] = at[r]
  BY <1>1 DEF mutex_lock, block_process, GoesOnWithout, MInv, TypeOK
<1>5. \A d \in Cond : \A i \in DOMAIN process_queue[d] : process_queue[d][i] \in Proc \ {p}
  BY <1>1, ReadyIsOut, CondQueueOfProc
<1>6. \A r \in Proc : waits'[r] = IF r = p THEN NULL ELSE waits[r]
  BY <1>1 DEF CondTypes
<1>7. CondTypes' /\ CondQueuedOnce'
  BY <1>1 DEF CondTypes, CondQueuedOnce, is_open_cond
<1>8. CondQueuedSleeps'
  BY <1>1, <1>4, <1>5, <1>6 DEF CondQueuedSleeps, Asleep
<1>9. CondSleeperIsInLine'
  BY <1>1, <1>4, <1>6 DEF CondSleeperIsInLine
<1>10. WaitsForOne'
  BY <1>4, <1>6 DEF WaitsForOne
<1> QED
  BY <1>3, <1>7, <1>8, <1>9, <1>10

(* Whoever wakes the first m of a queue and leaves the rest keeps it.      *)
LEMMA WakesKeep ==
    ASSUME CondInv, NEW c \in Cond, NEW m \in Nat, m <= Len(process_queue[c]) + 1,
           NEW W, W = {process_queue[c][i] : i \in {i \in DOMAIN process_queue[c] : i <= m}},
           st' = unblock_processes(st, W),
           process_queue' =
               [process_queue EXCEPT ![c] = SubSeq(@, m + 1, Len(process_queue[c]))],
           UNCHANGED <<mutexes, alive, at, holds, lost, misused, waits>>,
           \/ cstate' = cstate /\ is_open_cond(c)
           \/ cstate' = [cstate EXCEPT ![c] = "CLOSED"] /\ m >= Len(process_queue[c])
    PROVE  CondInv'
<1> USE DEF CondInv, CInv
<1> DEFINE q == process_queue[c]
<1>1. \A r \in W : r \in Proc /\ (st[r] = "DELETE" \/ Asleep(r, c))
  BY CondQueueOfProc DEF CondQueuedSleeps
<1>2. /\ st' \in [Proc -> {"READY", "BLOCKED", "DELETE"}]
      /\ \A r \in Proc : st'[r] = IF r \in W /\ st[r] # "DELETE" THEN "READY" ELSE st[r]
  BY DEF unblock_processes, MInv, TypeOK
<1>3. \A r \in Proc : st'[r] = st[r] \/ (st[r] = "BLOCKED" /\ st'[r] = "READY" /\ at[r] = NULL)
  BY <1>1, <1>2 DEF Asleep, WaitsForOne
<1>4. MInv'
  BY <1>2, <1>3, WakeKeeps
<1>5. /\ q \in Seq(Proc) /\ process_queue'[c] = SubSeq(q, m + 1, Len(q))
      /\ \A d \in Cond \ {c} : process_queue'[d] = process_queue[d]
  BY DEF CondTypes
<1>6. /\ process_queue'[c] \in Seq(Proc)
      /\ m >= Len(q) => process_queue'[c] = <<>>
      /\ \A i \in DOMAIN process_queue'[c] : m + i \in DOMAIN q /\ process_queue'[c][i] = q[m + i]
      /\ \A i \in DOMAIN q : i > m =>
           i - m \in DOMAIN process_queue'[c] /\ process_queue'[c][i - m] = q[i]
  <2> DEFINE d == process_queue'[c]
  <2>1. d = SubSeq(q, m + 1, Len(q)) /\ q \in Seq(Proc) /\ m <= Len(q) + 1
    BY <1>5
  <2> HIDE DEF d, q
  <2>2. /\ d \in Seq(Proc) /\ (m >= Len(q) => d = <<>>)
        /\ \A i \in DOMAIN d : m + i \in DOMAIN q /\ d[i] = q[m + i]
        /\ \A i \in DOMAIN q : i > m => i - m \in DOMAIN d /\ d[i - m] = q[i]
    BY <2>1, DropFirst, SMTT(20)
  <2> QED
    BY <2>2 DEF d
<1>7. \A i \in DOMAIN process_queue'[c] : i \in Nat \ {0}
  <2>1. \A i \in DOMAIN process_queue'[c] : i \in 1 .. Len(process_queue'[c])
    BY <1>6, LenProperties
  <2> QED
    BY <1>6, <2>1
<1>8. DOMAIN q = 1 .. Len(q) /\ Len(q) \in Nat
  BY <1>5, LenProperties
<1>9. CondTypes'
  <2>1. process_queue' \in [Cond -> Seq(Proc)]
    BY <1>5, <1>6 DEF CondTypes
  <2>2. \A d \in Cond : d # c => (is_open_cond(d)' <=> is_open_cond(d))
    BY DEF is_open_cond, CondTypes
  <2>3. is_open_cond(c)' \/ process_queue'[c] = <<>>
    BY <1>6 DEF is_open_cond
  <2>4. \A d \in Cond : ~is_open_cond(d)' => process_queue'[d] = <<>>
    BY <1>5, <2>2, <2>3 DEF CondTypes
  <2>5. cstate' \in [Cond -> {"OPEN", "CLOSED"}]
    BY DEF CondTypes
  <2> QED
    BY <2>1, <2>4, <2>5 DEF CondTypes
<1> HIDE DEF q
<1>10. CondQueuedOnce'
  <2> SUFFICES ASSUME NEW d \in Cond, NEW i \in DOMAIN process_queue'[d],
                      NEW j \in DOMAIN process_queue'[d],
                      process_queue'[d][i] = process_queue'[d][j]
               PROVE  i = j
    BY DEF CondQueuedOnce
  <2>1. CASE d # c
    BY <1>5, <2>1 DEF CondQueuedOnce
  <2>2. CASE d = c
    <3>1. m + i = m + j
      BY <1>6, <2>2 DEF CondQueuedOnce, q
    <3> QED
      BY <1>7, <2>2, <3>1
  <2> QED
    BY <2>1, <2>2
<1>11. \A r \in W : \E i \in DOMAIN q : i <= m /\ q[i] = r
  BY DEF q
<1>12. \A i \in DOMAIN q : q[i] \in W => i <= m
  <2> TAKE i \in DOMAIN q
  <2> HAVE q[i] \in W
  <2>1. PICK j \in DOMAIN q : j <= m /\ q[j] = q[i]
    BY <1>11
  <2> QED
    BY <2>1 DEF CondQueuedOnce, q
<1>13. CondQueuedSleeps'
  <2> SUFFICES ASSUME NEW d \in Cond, NEW i \in DOMAIN process_queue'[d],
                      NEW r, r = process_queue'[d][i], st'[r] # "DELETE"
               PROVE  Asleep(r, d)'
    BY DEF CondQueuedSleeps
  <2>1. PICK j \in DOMAIN process_queue[d] : process_queue[d][j] = r /\ (d = c => j > m)
    <3>1. CASE d = c
      <4>1. m + i \in DOMAIN q /\ q[m + i] = r /\ m + i > m
        BY <1>6, <1>7, <3>1
      <4> QED
        BY <3>1, <4>1 DEF q
    <3>2. CASE d # c
      BY <1>5, <3>2
    <3> QED
      BY <3>1, <3>2
  <2>2. r \in Proc
    BY <2>1, CondQueueOfProc
  <2>3. Asleep(r, d)
    BY <1>2, <2>1, <2>2, ZenonT(40) DEF CondQueuedSleeps
  <2>4. r \notin W
    <3>1. CASE d = c
      <4>1. ~(j <= m)
        BY <1>8, <2>1, <3>1 DEF q
      <4> QED
        BY <1>12, <2>1, <3>1, <4>1 DEF q
    <3>2. CASE d # c
      BY <1>1, <2>3, <3>2 DEF Asleep
    <3> QED
      BY <3>1, <3>2
  <2> QED
    BY <1>2, <2>2, <2>3, <2>4 DEF Asleep
<1>14. CondSleeperIsInLine'
  <2> SUFFICES ASSUME NEW r \in Proc, st'[r] = "BLOCKED", waits[r] # NULL
               PROVE  \E i \in DOMAIN process_queue'[waits[r].cond] :
                        process_queue'[waits[r].cond][i] = r
    BY DEF CondSleeperIsInLine
  <2>1. st[r] = "BLOCKED" /\ r \notin W
    BY <1>2
  <2>2. PICK d \in Cond : d = waits[r].cond
    BY WaitIs
  <2>3. PICK i \in DOMAIN process_queue[d] : process_queue[d][i] = r
    BY <2>1, <2>2 DEF CondSleeperIsInLine
  <2>4. CASE d # c
    BY <1>5, <2>2, <2>3, <2>4
  <2>5. CASE d = c
    <3>1. i \in DOMAIN q /\ q[i] = r /\ ~(i <= m)
      BY <2>1, <2>3, <2>5 DEF q
    <3>2. i - m \in DOMAIN process_queue'[c] /\ process_queue'[c][i - m] = r
      BY <1>6, <1>8, <3>1
    <3> QED
      BY <2>2, <2>5, <3>2
  <2> QED
    BY <2>4, <2>5
<1>15. WaitsForOne'
  BY <1>2 DEF WaitsForOne
<1> QED
  BY <1>4, <1>9, <1>10, <1>13, <1>14, <1>15

(* cond_signal keeps it: the first of the queue is woken and leaves it     *)
(* (condVariable.c:89-99).                                                 *)
LEMMA SignalKeeps ==
    ASSUME CondInv, NEW p \in Proc, NEW c \in Cond, cond_signal(p, c)
    PROVE  CondInv'
<1> DEFINE q == process_queue[c]
           W == {q[i] : i \in {i \in DOMAIN q : i <= 1}}
<1>1. q \in Seq(Proc) /\ Len(q) \in Nat /\ DOMAIN q = 1 .. Len(q)
  BY LenProperties DEF CondInv, CInv, CondTypes
<1>2. {1} \cap DOMAIN q = {i \in DOMAIN q : i <= 1}
  BY <1>1
<1>3. st' = unblock_processes(st, W)
  BY <1>2 DEF cond_signal
<1>4. process_queue' = [process_queue EXCEPT ![c] = SubSeq(@, 2, Len(q))]
  BY DEF cond_signal, sync_dequeue, CondInv, CInv, CondTypes
<1>5. UNCHANGED <<mutexes, alive, at, holds, lost, misused, waits, cstate>> /\ is_open_cond(c)
  BY DEF cond_signal
<1>6. 1 \in Nat /\ 1 <= Len(q) + 1 /\ 1 + 1 = 2
  BY <1>1
<1> HIDE DEF W
<1>7. W = {process_queue[c][i] : i \in {i \in DOMAIN process_queue[c] : i <= 1}}
  BY DEF W
<1> QED
  BY <1>3, <1>4, <1>5, <1>6, <1>7, WakesKeep

(* cond_broadcast and cond_close keep it: all of the queue are woken       *)
(* (condVariable.c:58-72, 101-125).                                        *)
LEMMA WakeAllKeeps ==
    ASSUME CondInv, NEW p \in Proc, NEW c \in Cond, cond_broadcast(p, c) \/ cond_close(p, c)
    PROVE  CondInv'
<1> DEFINE q == process_queue[c]
           m == Len(q)
           W == {q[i] : i \in {i \in DOMAIN q : i <= m}}
<1>1. q \in Seq(Proc) /\ m \in Nat /\ DOMAIN q = 1 .. m
  BY LenProperties DEF CondInv, CInv, CondTypes
<1>2. W = ToSet(q)
  BY <1>1 DEF ToSet
<1>3. SubSeq(q, m + 1, m) = <<>>
  BY <1>1, DropFirst
<1>4. /\ st' = unblock_processes(st, ToSet(q))
      /\ process_queue' = [process_queue EXCEPT ![c] = <<>>]
      /\ UNCHANGED <<mutexes, alive, at, holds, lost, misused, waits>>
      /\ \/ cstate' = cstate /\ is_open_cond(c)
         \/ cstate' = [cstate EXCEPT ![c] = "CLOSED"]
  BY DEF cond_broadcast, cond_close
<1>5. process_queue' = [process_queue EXCEPT ![c] = SubSeq(@, m + 1, m)]
  BY <1>3, <1>4 DEF CondInv, CInv, CondTypes
<1>6. m <= m + 1 /\ m >= m
  BY <1>1
<1>7. W = {process_queue[c][i] : i \in {i \in DOMAIN process_queue[c] : i <= m}}
  OBVIOUS
<1> HIDE DEF W, m
<1>8. m = Len(process_queue[c])
  BY DEF m
<1> QED
  BY <1>1, <1>2, <1>4, <1>5, <1>6, <1>7, <1>8, WakesKeep, ZenonT(40)

(* The calls on mutexes keep it: they wake only who waits for a mutex.     *)
LEMMA MutexCallsKeep ==
    ASSUME CondInv, NEW p \in Proc, NEW k \in Key,
           MutexCalls(p, k) \/ (LockReturns(p) /\ UNCHANGED cvars)
    PROVE  CondInv'
<1> USE DEF CondInv
<1>1. MInv'
  BY OpenKeeps, CloseKeeps, LockKeeps, UnlockKeeps, ReturnKeeps DEF MutexCalls
<1>2. UNCHANGED <<cvars, alive>>
  BY DEF MutexCalls, mutex_open, mutex_close, mutex_lock, mutex_unlock, LockReturns
<1>3. /\ \A r \in Proc : waits[r] # NULL => st'[r] = st[r] /\ at'[r] = at[r]
      /\ \A r \in Proc : st[r] = "DELETE" => st'[r] = "DELETE"
  <2>1. \A r \in Proc : waits[r] # NULL => at[r] = NULL /\ r \in alive /\ st[r] # "DELETE"
    BY DEF CInv, WaitsForOne
  <2>2. CASE waits[p] = NULL /\ mutex_open(p, k)
    BY <2>2 DEF mutex_open
  <2>3. CASE waits[p] = NULL /\ mutex_close(p, k)
    <3>1. \A r \in ToSet(queue[k]) : st[r] = "DELETE" \/ at[r] = k
      BY DEF ToSet, MInv, QueuedSleeps
    <3> QED
      BY <2>1, <2>3, <3>1, KeyFacts DEF mutex_close, unblock_processes, MInv, TypeOK
  <2>4. CASE waits[p] = NULL /\ mutex_lock(p, k)
    BY <2>4 DEF mutex_lock, block_process, Runs, MInv, TypeOK
  <2>5. CASE waits[p] = NULL /\ mutex_unlock(p, k)
    <3>1. \A r \in NextOwner(k) : st[r] = "DELETE" \/ at[r] = k
      BY DEF NextOwner, MInv, QueuedSleeps
    <3> QED
      BY <2>1, <2>5, <3>1, KeyFacts DEF mutex_unlock, GivesUp, unblock_processes, MInv, TypeOK
  <2>6. CASE LockReturns(p)
    BY <2>1, <2>6 DEF LockReturns, MInv, TypeOK
  <2> QED
    BY <2>2, <2>3, <2>4, <2>5, <2>6 DEF MutexCalls
<1>4. CInv'
  BY <1>2, <1>3, CondStays, CondQueueOfProc
<1> QED
  BY <1>1, <1>4

(* Processes that come and go keep it.                                     *)
LEMMA ProcessesKeep ==
    ASSUME CondInv, ~PageReuse, NEW p \in Proc,
           Ends(p) \/ Creates(p) \/ (destroy_process(p) /\ UNCHANGED cvars)
    PROVE  CondInv'
<1> USE DEF CondInv
<1>1. MInv'
  BY EndKeeps, CreateKeeps, DestroyKeeps DEF Ends, Creates
<1>2. UNCHANGED cvars
  BY DEF Ends, Creates
<1>3. \A r \in Proc : waits[r] # NULL => at[r] = NULL /\ r \in alive /\ st[r] # "DELETE"
  BY DEF CInv, WaitsForOne
<1>4. CASE Ends(p)
  <2>1. waits[p] = NULL /\ st' = st /\ alive' = alive \ {p} /\ at' = [at EXCEPT ![p] = NULL]
    BY <1>4 DEF Ends, end_process, Gone
  <2>2. \A r \in Proc : r # p => at'[r] = at[r]
    BY <2>1 DEF MInv, TypeOK
  <2>3. CInv'
    BY <1>2, <2>1, <2>2, CondStays
  <2> QED
    BY <1>1, <2>3
<1>5. CASE Creates(p)
  <2>1. /\ p \notin alive /\ alive' = alive \cup {p} /\ at' = at
        /\ \A r \in Proc : r # p => st'[r] = st[r]
        /\ \A c \in Cond : p \notin ToSet(process_queue[c])
    BY <1>5 DEF Creates, create_process, MInv, TypeOK
  <2>2. \A c \in Cond : \A i \in DOMAIN process_queue[c] : process_queue[c][i] \in Proc \ {p}
    BY <2>1, CondQueueOfProc DEF ToSet
  <2>3. CInv'
    BY <1>2, <1>3, <2>1, <2>2, CondStays
  <2> QED
    BY <1>1, <2>3
<1>6. CASE destroy_process(p) /\ UNCHANGED cvars
  <2>1. st[p] = "DELETE" /\ alive' = alive \ {p} /\ UNCHANGED <<st, at>>
    BY <1>6 DEF destroy_process
  <2>2. CInv'
    BY <1>2, <1>3, <2>1, CondStays
  <2> QED
    BY <1>1, <2>2
<1> QED
  BY <1>4, <1>5, <1>6

(* A kill keeps it: a sleeper that is killed stays in the queue, marked.   *)
LEMMA KillsKeep ==
    ASSUME CondInv, NEW p \in Proc, NEW q \in Proc, Kills(p, q)
    PROVE  CondInv'
<1> USE DEF CondInv, CInv
<1>1. MInv'
  BY KillKeeps DEF Kills
<1>2. /\ st' = [st EXCEPT ![q] = "DELETE"] /\ at' = [at EXCEPT ![q] = NULL] /\ alive' = alive
      /\ waits' = [waits EXCEPT ![q] = NULL] /\ UNCHANGED <<cstate, process_queue>>
  BY DEF Kills, kill_process, Gone
<1>3. \A r \in Proc : /\ r # q => st'[r] = st[r] /\ at'[r] = at[r] /\ waits'[r] = waits[r]
                      /\ r = q => st'[r] = "DELETE" /\ waits'[r] = NULL
  BY <1>2 DEF MInv, TypeOK, CondTypes
<1>4. CondTypes' /\ CondQueuedOnce'
  BY <1>2 DEF CondTypes, CondQueuedOnce, is_open_cond
<1>5. CondQueuedSleeps'
  BY <1>2, <1>3, CondQueueOfProc DEF CondQueuedSleeps, Asleep
<1>6. CondSleeperIsInLine' /\ WaitsForOne'
  BY <1>2, <1>3 DEF CondSleeperIsInLine, WaitsForOne
<1> QED
  BY <1>1, <1>4, <1>5, <1>6

(* One step keeps the invariant.                                           *)
LEMMA CondNextKeeps ==
    ASSUME ~PageReuse, NullIsNoWait, CondInv, [CondNext]_allvars
    PROVE  CondInv'
<1>1. CASE UNCHANGED allvars
  <2>1. MInv'
    BY <1>1, StutterKeeps DEF allvars, CondInv
  <2>2. CInv'
    BY <1>1, CondStays, CondQueueOfProc DEF allvars, vars, CondInv
  <2> QED
    BY <2>1, <2>2 DEF CondInv
<1>2. ASSUME NEW p \in Proc, NEW c \in Cond,
             \/ cond_open(p, c) \/ cond_signal(p, c) \/ cond_broadcast(p, c) \/ cond_close(p, c)
             \/ \E k \in Key : cond_wait(p, c, k)
      PROVE  CondInv'
  BY <1>2, CondOpenKeeps, SignalKeeps, WakeAllKeeps, CondWaitKeeps
<1>3. ASSUME NEW p \in Proc, NEW k \in Key, MutexCalls(p, k)
      PROVE  CondInv'
  BY <1>3, MutexCallsKeep
<1>4. ASSUME NEW p \in Proc, LockReturns(p), UNCHANGED cvars
      PROVE  CondInv'
  <2>1. MInv'
    BY <1>4, ReturnKeeps DEF CondInv
  <2>2. \A r \in Proc : waits[r] # NULL => at'[r] = at[r] /\ st'[r] = st[r]
    BY <1>4 DEF LockReturns, CondInv, MInv, TypeOK, CInv, WaitsForOne
  <2>3. CInv'
    BY <1>4, <2>2, CondStays DEF LockReturns, CondInv
  <2> QED
    BY <2>1, <2>3 DEF CondInv
<1>5. ASSUME NEW p \in Proc,
             \/ CondWaitGoesOn(p) \/ Ends(p) \/ Creates(p) \/ (destroy_process(p) /\ UNCHANGED cvars)
      PROVE  CondInv'
  BY <1>5, GoesOnKeeps, ProcessesKeep
<1>6. ASSUME NEW p \in Proc, NEW q \in Proc, Kills(p, q)
      PROVE  CondInv'
  BY <1>6, KillsKeep
<1> QED
  BY <1>1, <1>2, <1>3, <1>4, <1>5, <1>6 DEF CondNext

-----------------------------------------------------------------------------
(* The theorems. *)

(* The invariant of mutexes and conditions together holds in every         *)
(* reachable state (condVariable.c, kernelMutex.c).                        *)
THEOREM CondInvariance ==
    ASSUME ~PageReuse, NullIsNoWait
    PROVE  CondSpec => []CondInv
<1>1. CondInv /\ [CondNext]_allvars => CondInv'
  BY CondNextKeeps
<1> QED
  BY <1>1, CondInitIsFine, PTL DEF CondSpec

(* Who is blocked in cond_wait is in the queue of that condition, once, so *)
(* that a signal, a broadcast or a close finds it; and the queue has       *)
(* nobody else but the killed.                                             *)
THEOREM SleepersAreFound ==
    ASSUME ~PageReuse, NullIsNoWait
    PROVE  CondSpec => []SleeperIsQueued
<1>1. CondInv => SleeperIsQueued
  <2> SUFFICES ASSUME CondInv, NEW p \in Proc, NEW c \in Cond
               PROVE  Asleep(p, c) <=> (st[p] # "DELETE" /\ \E i \in DOMAIN process_queue[c] :
                        process_queue[c][i] = p
                        /\ \A j \in DOMAIN process_queue[c] : process_queue[c][j] = p => j = i)
    BY DEF SleeperIsQueued
  <2>1. ASSUME Asleep(p, c)
        PROVE  st[p] # "DELETE" /\ \E i \in DOMAIN process_queue[c] :
                 process_queue[c][i] = p
                 /\ \A j \in DOMAIN process_queue[c] : process_queue[c][j] = p => j = i
    BY <2>1 DEF CondInv, CInv, CondSleeperIsInLine, CondQueuedOnce, Asleep
  <2>2. ASSUME st[p] # "DELETE", NEW i \in DOMAIN process_queue[c], process_queue[c][i] = p
        PROVE  Asleep(p, c)
    BY <2>2 DEF CondInv, CInv, CondQueuedSleeps
  <2> QED
    BY <2>1, <2>2
<1> QED
  BY <1>1, CondInvariance, PTL

(* Whatever cond_wait, signals and closes do, a mutex has one owner, and   *)
(* it is locked exactly while somebody has it or went away with it, but    *)
(* for a mutex that was closed in use.                                     *)
THEOREM MutexesSurviveWaiting ==
    ASSUME ~PageReuse, NullIsNoWait
    PROVE  CondSpec => []MutexSurvivesWaiting
<1>1. CondInv => MutexSurvivesWaiting
  BY OneOwnerExcludes, TakenIsLocked DEF CondInv, MutexSurvivesWaiting
<1> QED
  BY <1>1, CondInvariance, PTL
=============================================================================
