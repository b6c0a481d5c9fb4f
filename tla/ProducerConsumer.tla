-------------------------- MODULE ProducerConsumer --------------------------
(***************************************************************************)
(* A producer and a consumer over two fifos, one of empty slots and one of *)
(* items (Userland/SampleCodeModule/producerConsumer.c).                   *)
(*                                                                         *)
(* A fifo is the number of its bytes: what it does with them is in Fifo.   *)
(* How long they sleep, and the help, are left out.                        *)
(***************************************************************************)
EXTENDS Integers

CONSTANTS
    BUF_SIZE,  \* of a fifo
    ITEM,      \* sizeof(int); an empty slot is one byte
    MaxSlots   \* bound: the largest buf_size the problem is started with

VARIABLES
    buf_size,         \* 0 when the problem is not running
    empty, full,      \* the bytes in each fifo
    prod, cons,       \* "none", or what each process does next
    overrun           \* a write found less room than it needed (see Fifo)

vars == <<buf_size, empty, full, prod, cons, overrun>>

Init ==
    /\ buf_size = 0 /\ empty = 0 /\ full = 0
    /\ prod = "none" /\ cons = "none"
    /\ overrun = FALSE

Least(a, b) == IF a < b THEN a ELSE b

start_producer_consumer_problem(n) ==
    /\ buf_size = 0
    /\ buf_size' = n
    /\ empty' = Least(n, BUF_SIZE)
    /\ overrun' = (n > BUF_SIZE)
    /\ full' = 0
    /\ prod' = "reads" /\ cons' = "reads"

(* b is the number that was typed or the default: with no word at all      *)
(* isnum reads address 0, and may find either.                             *)
producerConsumer(b) == b >= 1 /\ start_producer_consumer_problem(b)

(* It takes an empty slot, sleeps, and gives an item.                      *)
producer ==
    \/ /\ prod = "reads" /\ empty > 0
       /\ empty' = empty - 1
       /\ prod' = "writes"
       /\ UNCHANGED <<full, overrun>>
    \/ /\ prod = "writes"
       /\ full' = full + Least(ITEM, BUF_SIZE - full)
       /\ overrun' = (overrun \/ full + ITEM > BUF_SIZE)
       /\ prod' = "reads"
       /\ UNCHANGED empty

consumer_SlotBack ==
    \/ /\ cons = "reads" /\ full > 0
       /\ full' = full - Least(ITEM, full)
       /\ empty' = empty + Least(1, BUF_SIZE - empty)
       /\ cons' = "writes"
       /\ UNCHANGED overrun
    \/ /\ cons = "writes"
       /\ empty' = empty + Least(1, BUF_SIZE - empty)
       /\ overrun' = (overrun \/ empty + 1 > BUF_SIZE)
       /\ cons' = "reads"
       /\ UNCHANGED full

(* It takes an item, sleeps, and gives the slot back.                      *)
consumer ==
    \/ /\ cons = "reads" /\ full > 0
       /\ full' = full - Least(ITEM, full)
       /\ cons' = "writes"
       /\ UNCHANGED <<empty, overrun>>
    \/ /\ cons = "writes"
       /\ empty' = empty + Least(1, BUF_SIZE - empty)
       /\ overrun' = (overrun \/ empty + 1 > BUF_SIZE)
       /\ cons' = "reads"
       /\ UNCHANGED full

(* Both are killed, and the fifos are closed.                              *)
Ends ==
    /\ buf_size' = 0 /\ empty' = 0 /\ full' = 0
    /\ prod' = "none" /\ cons' = "none"
    /\ UNCHANGED overrun

(* q; the other keys only change how long they sleep.                      *)
control_speed == buf_size > 0 /\ Ends

Next ==
    \/ \E b \in -1 .. MaxSlots : producerConsumer(b)
    \/ producer /\ UNCHANGED <<buf_size, cons>>
    \/ consumer /\ UNCHANGED <<buf_size, prod>>
    \/ control_speed

Spec == Init /\ [][Next]_vars
-----------------------------------------------------------------------------
(* Properties. *)

(* "Slots vacios + slots llenos es siempre la misma" (design report,       *)
(* p. 10), counting what either process has in its hands; so that no item  *)
(* is cut in two and no write finds its fifo full, as long as all the      *)
(* slots fit in the fifo as items (producerConsumer.c:17-70).              *)
SlotsAreConserved ==
    (buf_size > 0 /\ buf_size * ITEM <= BUF_SIZE) =>
        /\ ~overrun /\ full % ITEM = 0
        /\ empty + full \div ITEM + (IF prod = "writes" THEN 1 ELSE 0)
             + (IF cons = "writes" THEN 1 ELSE 0) = buf_size

=============================================================================
