----------------------------- MODULE TableScan -----------------------------
(***************************************************************************)
(* The loop with which the kernel copies what a table has in use into an   *)
(* array: the pids (Kernel/process.c), the open mutexes, conditions and    *)
(* fifos (kernelMutex.c, condVariable.c, fifo.c).                          *)
(***************************************************************************)
EXTENDS Integers, Sequences

(* The indices below size that are in use, in order: the first limit ones. *)
Scan(used, size, limit) ==
    LET copied[i \in 0 .. size] ==
            IF i = 0 THEN <<>>
            ELSE IF i - 1 \in used /\ Len(copied[i - 1]) < limit
            THEN Append(copied[i - 1], i - 1)
            ELSE copied[i - 1]
    IN  copied[size]
=============================================================================
