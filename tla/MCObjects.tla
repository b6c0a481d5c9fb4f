------------------------------ MODULE MCObjects ------------------------------
(***************************************************************************)
(* Small instances of what processes of this kernel wait for.  A behaviour *)
(* is about one of them, chosen at the start.                              *)
(***************************************************************************)
EXTENDS Objects, Integers, Sequences, FiniteSets

processes == <<alive, st>>
condvars == <<state, locked, queue, at, holds, lost, misused, cstate, process_queue, waits>>
fifovars == <<open_fifos, open_fds, reads, want, got, holed, shut, call, halted>>
keyvars == <<keys_buffer, ret_index, store_index, buff_size,
             shiftPressed, capsLockPressedCount, capsLockActivated, down,
             pc, left, sti, loaded, ready, unread, dropped, missed, raced>>
vars == <<object, processes, condvars, fifovars, keyvars>>

Init ==
    /\ object \in {"cond", "fifo", "name", "key"}
    /\ alive = Proc
    /\ Conds!CondInit /\ Keys!Init
    /\ \/ object = "name" /\ Names!Init
       \/ object # "name" /\ Fifos!Init

Next ==
    /\ UNCHANGED object
    /\ \/ object = "cond" /\ Conds!CondNext /\ UNCHANGED <<fifovars, keyvars>>
       \/ object = "fifo" /\ Fifos!Next /\ UNCHANGED <<condvars, keyvars>>
       \/ object = "name" /\ Names!Next /\ UNCHANGED <<condvars, keyvars>>
       \/ object = "key" /\ Keys!Next /\ UNCHANGED <<processes, condvars, fifovars>>

Spec == Init /\ [][Next]_vars /\ Conds!CondFairness /\ Keys!Fairness
-----------------------------------------------------------------------------
(* Properties, as their modules state them. *)

(* A condition that is signalled for ever wakes every sleeper.             *)
SignalsReachEveryone == Conds!SignalsReachEveryone

(* A sys_read returns if characters go on being typed.                     *)
KeysEndARead == Keys!KeysEndARead
=============================================================================
