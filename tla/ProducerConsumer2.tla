------------------------- MODULE ProducerConsumer2 -------------------------
(***************************************************************************)
(* A producer and a consumer over a shared buffer, a mutex and one         *)
(* condition variable for both (Userland/SampleCodeModule/                 *)
(* producerConsumer2.c).                                                   *)
(*                                                                         *)
(* What a process does from its lock to its unlock or cond_wait is one     *)
(* step, and who is signalled looks at index again like one that arrives   *)
(* (see CondVariable).  A pause is the listener holding the mutex.         *)
(***************************************************************************)
EXTENDS Integers, Sequences, SequencesExt

CONSTANT MaxSize  \* bound: the largest buffer

VARIABLES
    buffer_size,  \* 0 when the problem is not running
    index,        \* of the next free place of the buffer
    waiters,      \* those in cond_wait, in order
    paused

vars == <<buffer_size, index, waiters, paused>>

Init == buffer_size = 0 /\ index = 0 /\ waiters = <<>> /\ paused = FALSE

start_producer_consumer_problem2(n) ==
    /\ buffer_size = 0
    /\ buffer_size' = n /\ index' = 0 /\ waiters' = <<>> /\ paused' = FALSE

(* b as in ProducerConsumer.                                               *)
producerConsumer2(b) == b >= 1 /\ start_producer_consumer_problem2(b)

Enters(who) == buffer_size > 0 /\ ~paused /\ who \notin ToSet(waiters)

Waits(who) == waiters' = Append(waiters, who) /\ UNCHANGED index

Signals == waiters' = SubSeq(waiters, 2, Len(waiters))

producer_OffByOne ==
    /\ Enters("producer")
    /\ IF index = buffer_size
       THEN Waits("producer")
       ELSE /\ index' = index + 1
            /\ IF index = 1 THEN Signals ELSE UNCHANGED waiters
    /\ UNCHANGED <<buffer_size, paused>>

producer ==
    /\ Enters("producer")
    /\ IF index = buffer_size
       THEN Waits("producer")
       ELSE index' = index + 1 /\ Signals
    /\ UNCHANGED <<buffer_size, paused>>

consumer ==
    /\ Enters("consumer")
    /\ IF index = 0
       THEN Waits("consumer")
       ELSE index' = index - 1 /\ Signals
    /\ UNCHANGED <<buffer_size, paused>>

pause == buffer_size > 0 /\ paused' = TRUE /\ UNCHANGED <<buffer_size, index, waiters>>

unpause == paused /\ paused' = FALSE /\ UNCHANGED <<buffer_size, index, waiters>>

(* q: both are killed, and the mutex and the condition are closed.         *)
control_speed ==
    /\ buffer_size > 0
    /\ buffer_size' = 0 /\ index' = 0 /\ waiters' = <<>> /\ paused' = FALSE

Next ==
    \/ \E b \in -1 .. MaxSize : producerConsumer2(b)
    \/ producer \/ consumer
    \/ ~paused /\ pause
    \/ unpause \/ control_speed

(* The mutex is given out in the order of arrival (FifoLock), so that      *)
(* pauses keep nobody from it for ever.                                    *)
Fairness == SF_vars(producer) /\ SF_vars(consumer)

Spec == Init /\ [][Next]_vars /\ Fairness
-----------------------------------------------------------------------------
(* Properties. *)

(* One condition is enough for both: a signal always goes to who can use   *)
(* it, so nobody waits for ever unless the problem stays paused            *)
(* (producerConsumer2.c:32-76).                                            *)
NobodyIsLeftWaiting ==
    \A who \in {"producer", "consumer"} :
        []<>(~paused) => (who \in ToSet(waiters) ~> who \notin ToSet(waiters))
=============================================================================
