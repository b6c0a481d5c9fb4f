---------------------------- MODULE Philosophers ----------------------------
(***************************************************************************)
(* The dining philosophers of Userland/SampleCodeModule/philo.c, who are   *)
(* added and removed while they eat.                                       *)
(*                                                                         *)
(* What a process does from a mutex_lock(critical_m) to its unlock or its  *)
(* cond_wait is one step: CondVariable and KernelMutex say that nobody is  *)
(* in between.  Drawing and the random sleeps are left out.                *)
(***************************************************************************)
EXTENDS Integers

CONSTANT MAX_PHILOSOPHERS

VARIABLES
    philosopherCount,
    philo,      \* philo_array (mut: is the mutex free?), with the place of
                \* each process and whether its cond_die was signalled
    listener,   \* what the process that listens to commands does
    toAdd,      \* the philosophers that are still to be added at the start
    toRemove,   \* the removals that slow_die still has to do
    pause,
    surprised   \* history: a philosopher was added between one who was
                \* hungry and the one who ate beside it

vars == <<philosopherCount, philo, listener, toAdd, toRemove, pause, surprised>>

Index == 0 .. MAX_PHILOSOPHERS - 1
Seated == 0 .. philosopherCount - 1

Absent == [state |-> "THINKING", pc |-> "none", die |-> FALSE, mut |-> FALSE, signalled |-> FALSE]

start_philosophers_problem(philoNumber) ==
    /\ philosopherCount = 0
    /\ philo = [i \in Index |-> Absent]
    /\ listener = "starts" /\ toRemove = 0
    /\ toAdd = IF philoNumber > MAX_PHILOSOPHERS THEN MAX_PHILOSOPHERS ELSE philoNumber
    /\ pause = FALSE
    /\ surprised = FALSE

(* p is the number that was typed or the default, as in ProducerConsumer.  *)
philosophersProblem(p) == p >= 1 /\ start_philosophers_problem(p)

Init == \E p \in 0 .. MAX_PHILOSOPHERS + 1 : philosophersProblem(p)

LEFT(x) == (x + philosopherCount - 1) % philosopherCount
RIGHT(x) == (x + 1) % philosopherCount

Eats(ph, i) == ph[i].state = "EATING"

(* critical_m is free: a pause is the listener holding it.                 *)
Enters(i, place) == i \in Seated /\ philo[i].pc = place /\ ~pause

-----------------------------------------------------------------------------
(* The commands. *)

(* The first ones are added before the listener reads its first command.   *)
(* The process that execp starts is thinking.                              *)
add_philosopher ==
    /\ IF listener = "starts"
       THEN /\ toAdd' = toAdd - 1
            /\ listener' = IF toAdd = 1 THEN "listens" ELSE "starts"
       ELSE /\ listener = "listens" /\ ~pause
            /\ UNCHANGED <<listener, toAdd>>
    /\ philosopherCount < MAX_PHILOSOPHERS
    /\ philosopherCount' = philosopherCount + 1
    /\ philo' = [philo EXCEPT ![philosopherCount] = [Absent EXCEPT !.pc = "thinks"]]
    /\ surprised' = (surprised \/
         LET last == philosopherCount - 1
         IN  philosopherCount > 1 /\ {philo[0].state, philo[last].state} = {"HUNGRY", "EATING"})
    /\ UNCHANGED <<toRemove, pause>>

(* The listener waits in cond_wait(modify_cond_var).                       *)
MarkLast ==
    philo' = [philo EXCEPT ![philosopherCount - 1].die = TRUE]

remove_philosopher ==
    /\ listener = "listens" /\ ~pause
    /\ philosopherCount > 0
    /\ MarkLast
    /\ listener' = "waits"
    /\ UNCHANGED <<philosopherCount, toAdd, toRemove, pause, surprised>>

(* q: as many removals as there are philosophers.                          *)
slow_die ==
    /\ listener = "listens" /\ ~pause
    /\ IF philosopherCount = 0
       THEN listener' = "gone" /\ UNCHANGED philo
       ELSE MarkLast /\ listener' = "waits"
    /\ toRemove' = philosopherCount
    /\ UNCHANGED <<philosopherCount, toAdd, pause, surprised>>

(* The signal of a philosopher that leaves comes with the count it changed.*)
RemoveReturns ==
    /\ listener = "told"
    /\ toRemove' = IF toRemove = 0 THEN 0 ELSE toRemove - 1
    /\ CASE toRemove = 0 -> listener' = "listens" /\ UNCHANGED philo
         [] toRemove = 1 -> listener' = "gone" /\ UNCHANGED philo
         [] OTHER -> listener' = "waits" /\ MarkLast
    /\ UNCHANGED <<philosopherCount, toAdd, pause, surprised>>

(* e: everybody is killed, wherever they are.                              *)
remove_all_philosophers ==
    /\ listener = "listens" /\ ~pause
    /\ philo' = [i \in Index |-> [philo[i] EXCEPT !.pc = "none"]]
    /\ listener' = "gone"
    /\ UNCHANGED <<philosopherCount, toAdd, toRemove, pause, surprised>>

pause_philosophers ==
    /\ listener = "listens"
    /\ pause' = ~pause
    /\ UNCHANGED <<philosopherCount, philo, listener, toAdd, toRemove, surprised>>

-----------------------------------------------------------------------------
(* A philosopher. *)

(* Both neighbours eat: who leaves now would seat them side by side.       *)
MustStay_Never(i) == FALSE
MustStay(i) == Eats(philo, LEFT(i)) /\ Eats(philo, RIGHT(i))

Leaves(i) ==
    /\ philo' = [philo EXCEPT ![i] = [Absent EXCEPT !.state = "DYING"]]
    /\ philosopherCount' = philosopherCount - 1
    /\ listener' = "told"

(* The wait of should_die, entered or entered again.                       *)
Waits(i) ==
    /\ philo' = [philo EXCEPT ![i].state = "DYING", ![i].pc = "dies", ![i].signalled = FALSE]
    /\ UNCHANGED <<philosopherCount, listener>>

should_die(i) ==
    /\ Enters(i, "thinks")
    /\ IF ~philo[i].die
       THEN /\ philo' = [philo EXCEPT ![i].pc = "takes"]
            /\ UNCHANGED <<philosopherCount, listener>>
       ELSE IF MustStay(i) THEN Waits(i) ELSE Leaves(i)
    /\ UNCHANGED <<toAdd, toRemove, pause, surprised>>

WakesUpDying(i) ==
    /\ Enters(i, "dies") /\ philo[i].signalled
    /\ IF MustStay(i) THEN Waits(i) ELSE Leaves(i)
    /\ UNCHANGED <<toAdd, toRemove, pause, surprised>>

(* ph after test(i).                                                       *)
test(ph, i) ==
    IF ph[i].state = "HUNGRY" /\ ~Eats(ph, LEFT(i)) /\ ~Eats(ph, RIGHT(i))
    THEN [ph EXCEPT ![i].state = "EATING", ![i].mut = TRUE]
    ELSE ph

take_forks(i) ==
    /\ Enters(i, "takes")
    /\ philo' = test([philo EXCEPT ![i].state = "HUNGRY", ![i].pc = "forks"], i)
    /\ UNCHANGED <<philosopherCount, listener, toAdd, toRemove, pause, surprised>>

(* mutex_lock(mut) returns; this needs no critical_m.                      *)
Starts(i) ==
    /\ i \in Seated /\ philo[i].pc = "forks" /\ philo[i].mut
    /\ philo' = [philo EXCEPT ![i].pc = "eats", ![i].mut = FALSE]
    /\ UNCHANGED <<philosopherCount, listener, toAdd, toRemove, pause, surprised>>

signal(ph, i) == [ph EXCEPT ![i].signalled = (ph[i].pc = "dies")]

put_forks_LeftOnly(i) ==
    /\ Enters(i, "eats")
    /\ LET up == [philo EXCEPT ![i].state = "THINKING", ![i].pc = "thinks"]
           l == signal(test(up, LEFT(i)), LEFT(i))
       IN  philo' = signal(l, RIGHT(i))
    /\ UNCHANGED <<philosopherCount, listener, toAdd, toRemove, pause, surprised>>

put_forks(i) ==
    /\ Enters(i, "eats")
    /\ LET up == [philo EXCEPT ![i].state = "THINKING", ![i].pc = "thinks"]
           l == signal(test(up, LEFT(i)), LEFT(i))
       IN  philo' = signal(test(l, RIGHT(i)), RIGHT(i))
    /\ UNCHANGED <<philosopherCount, listener, toAdd, toRemove, pause, surprised>>

philosopher(i) ==
    should_die(i) \/ WakesUpDying(i) \/ take_forks(i) \/ Starts(i) \/ put_forks(i)

listen_commands ==
    \/ add_philosopher \/ remove_philosopher \/ RemoveReturns
    \/ slow_die \/ remove_all_philosophers \/ pause_philosophers

Next == listen_commands \/ \E i \in Index : philosopher(i)

(* Ready processes run, sleeps end and critical_m is given out in order.   *)
Fairness == WF_vars(RemoveReturns) /\ \A i \in Index : WF_vars(philosopher(i))

Spec == Init /\ [][Next]_vars /\ Fairness
-----------------------------------------------------------------------------
(* Properties. *)

(* Neighbours never eat together, whoever was added or has left meanwhile  *)
(* (philo.c:139-180, 230-289).                                             *)
NeighboursEatApart ==
    \A i \in Seated :
        (philosopherCount > 1 /\ Eats(philo, i)) => ~Eats(philo, RIGHT(i))

(* Who is hungry waits for a neighbour that eats and no one else, unless   *)
(* somebody was seated between the two: no release is forgotten            *)
(* (philo.c:255-289).                                                      *)
HungryHasAReason ==
    ~surprised => \A i \in Seated :
        philo[i].state = "HUNGRY" => Eats(philo, LEFT(i)) \/ Eats(philo, RIGHT(i))

Marked(i) == i \in Seated /\ philo[i].die
Held(i) == i \in Seated /\ (Eats(philo, LEFT(i)) \/ Eats(philo, RIGHT(i)))

(* "Si el filosofo fue marcado para morir ... espera a que alguno de los   *)
(* dos filosofos a su lado terminen de comer" (philo.c:227-229): nothing   *)
(* but a neighbour that eats holds up who was marked.                      *)
MarkedLeaves ==
    \A i \in Index : (Marked(i) /\ ~Held(i)) ~> (~Marked(i) \/ Held(i))

(* The same, where nobody was seated between a hungry philosopher and the  *)
(* one who ate beside it.                                                  *)
MarkedLeavesUnsurprised == [](~surprised) => MarkedLeaves
=============================================================================
