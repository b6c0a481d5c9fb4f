------------------------------ MODULE FifoLock ------------------------------
(***************************************************************************)
(* What the mutexes promise: each has at most one owner, and those who     *)
(* wait for it are served in the order of their arrival.  A lock that is   *)
(* closed in use keeps the second promise but not the first, until it is   *)
(* renewed.  KernelMutex implements it.                                    *)
(*                                                                         *)
(* A line is that order: it has <<p, q>> if both wait and q is p or came   *)
(* after p.                                                                *)
(***************************************************************************)
CONSTANTS Proc, Key, NULL, Nobody, Anybody

VARIABLES
    owner, \* who has each lock: a process, NULL, Nobody if it died with it, or
           \* Anybody since the lock was closed in use
    line   \* those who wait for it

vars == <<owner, line>>

Init ==
    /\ owner = [k \in Key |-> NULL]
    /\ line = [k \in Key |-> {}]

Waiting(k) == {p \in Proc : <<p, p>> \in line[k]}

Without(l, p) == {x \in l : p \notin {x[1], x[2]}}

Take(p, k) ==
    /\ owner[k] = NULL
    /\ owner' = [owner EXCEPT ![k] = p]
    /\ UNCHANGED line

Join(p, k) ==
    /\ owner[k] # NULL
    /\ p \notin Waiting(k)
    /\ line' = [line EXCEPT ![k] = @ \cup ((Waiting(k) \cup {p}) \X {p})]
    /\ UNCHANGED owner

ReleaseToNobody(k) ==
    /\ owner[k] \in Proc /\ Waiting(k) = {}
    /\ owner' = [owner EXCEPT ![k] = NULL]
    /\ UNCHANGED line

(* To the one who came before all others.                                  *)
ReleaseTo(p, k) ==
    /\ owner[k] \in Proc \cup {Anybody}
    /\ p \in Waiting(k) /\ \A q \in Waiting(k) : <<p, q>> \in line[k]
    /\ owner' = [owner EXCEPT ![k] = IF @ = Anybody THEN Anybody ELSE p]
    /\ line' = [line EXCEPT ![k] = Without(@, p)]

(* The lock is closed: whoever waits stops waiting, and goes on as if it   *)
(* had the lock.                                                           *)
Close(k) ==
    /\ owner' = [owner EXCEPT ![k] =
                   IF @ \in Proc \cup {Anybody} \/ Waiting(k) # {} THEN Anybody ELSE NULL]
    /\ line' = [line EXCEPT ![k] = {}]

(* Nobody goes on any more as if it had the lock.                          *)
Renew(k) ==
    /\ owner[k] = Anybody
    /\ owner' = [owner EXCEPT ![k] = NULL]
    /\ UNCHANGED line

Die(p) ==
    /\ owner' = [k \in Key |-> IF owner[k] = p THEN Nobody ELSE owner[k]]
    /\ line' = [k \in Key |-> Without(line[k], p)]

Next ==
    \/ \E p \in Proc, k \in Key : Take(p, k) \/ Join(p, k) \/ ReleaseTo(p, k)
    \/ \E k \in Key : ReleaseToNobody(k) \/ Close(k) \/ Renew(k)
    \/ \E p \in Proc : Die(p)

Spec == Init /\ [][Next]_vars
=============================================================================
