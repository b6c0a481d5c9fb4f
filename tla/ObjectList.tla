----------------------------- MODULE ObjectList -----------------------------
(***************************************************************************)
(* What ipcs shows (Userland/SampleCodeModule/ipc_info.c): the condition   *)
(* variables, mutexes and fifos that are open, each kind asked of the      *)
(* kernel by a call of its own (Kernel/condVariable.c, kernelMutex.c,      *)
(* fifo.c), while others open, lock and close them.                        *)
(***************************************************************************)
EXTENDS TableScan, SequencesExt

CONSTANTS MAX_COND_VAR, MAX_MUTEXES, MAX_FIFOS   \* of the objects of each kind

VARIABLES
    objects,  \* of each key of each kind: Closed, or whether it is locked
    left,     \* the kinds that are still to be asked for
    ipcs,     \* "idle", "asks" or "done"
    shown,    \* what was printed: kind, key or file descriptor, and state
    stayed,   \* history: the objects that were as they are since it began
    seen      \* history: the objects as they were since it began

vars == <<objects, left, ipcs, shown, stayed, seen>>

Kinds == <<"cond", "mutex", "fifo">>
Kind == ToSet(Kinds)
Size == [cond |-> MAX_COND_VAR, mutex |-> MAX_MUTEXES, fifo |-> MAX_FIFOS]
Key == [kind \in Kind |-> 0 .. Size[kind] - 1]

Closed == -1
LOCKED == 0
UNLOCKED == 1
FILE_DESCRIPTORS == 3

Entries(o) ==
    UNION {{<<kind, k, o[kind][k]>> : k \in {k \in Key[kind] : o[kind][k] # Closed}} : kind \in Kind}

Init ==
    /\ objects = [kind \in Kind |-> [k \in Key[kind] |-> Closed]]
    /\ left = Kinds /\ ipcs = "idle"
    /\ shown = {} /\ stayed = {} /\ seen = {}

Becomes(kind, k, state) ==
    /\ objects' = [objects EXCEPT ![kind][k] = state]
    /\ stayed' = stayed \cap Entries(objects') /\ seen' = seen \cup Entries(objects')
    /\ UNCHANGED <<left, ipcs, shown>>

Opens(kind, k) == objects[kind][k] = Closed /\ Becomes(kind, k, UNLOCKED)
Closes(kind, k) == objects[kind][k] # Closed /\ Becomes(kind, k, Closed)
Locks(k) == objects["mutex"][k] = UNLOCKED /\ Becomes("mutex", k, LOCKED)
Unlocks(k) == objects["mutex"][k] = LOCKED /\ Becomes("mutex", k, UNLOCKED)

OpenKeys(kind) ==
    Scan({k \in Key[kind] : objects[kind][k] # Closed}, Size[kind], Size[kind])

(* The array that the kernel fills, from its start.                        *)
get_info(kind) ==
    LET keys == OpenKeys(kind)
    IN  [j \in DOMAIN keys |->
            [key |-> IF kind = "fifo" THEN keys[j] + FILE_DESCRIPTORS ELSE keys[j],
             locked |-> objects[kind][keys[j]]]]

(* The lines that ipc_info.c prints of an array.                           *)
Lines(kind, info) ==
    {<<kind, info[j].key, IF kind # "mutex" THEN "-"
                          ELSE IF info[j].locked = 0 THEN "LOCKED" ELSE "UNLOCKED">>
        : j \in DOMAIN info}

print_ipcs ==
    /\ ipcs = "idle" /\ ipcs' = "asks"
    /\ left' = Kinds /\ shown' = {}
    /\ stayed' = Entries(objects) /\ seen' = Entries(objects)
    /\ UNCHANGED objects

print_ipc_info ==
    /\ ipcs = "asks"
    /\ IF left = <<>>
       THEN ipcs' = "done" /\ UNCHANGED <<left, shown>>
       ELSE /\ left' = Tail(left)
            /\ shown' = shown \cup Lines(Head(left), get_info(Head(left)))
            /\ UNCHANGED ipcs
    /\ UNCHANGED <<objects, stayed, seen>>

ipcs_Ends ==
    /\ ipcs = "done" /\ ipcs' = "idle"
    /\ shown' = {} /\ stayed' = {} /\ seen' = {}
    /\ UNCHANGED <<objects, left>>

Next ==
    \/ \E kind \in Kind : \E k \in Key[kind] : Opens(kind, k) \/ Closes(kind, k)
    \/ \E k \in Key["mutex"] : Locks(k) \/ Unlocks(k)
    \/ print_ipcs \/ print_ipc_info \/ ipcs_Ends

Spec == Init /\ [][Next]_vars
-----------------------------------------------------------------------------
(* Properties. *)

(* How an object is shown.                                                 *)
Shown(entries) ==
    {<<e[1], IF e[1] = "fifo" THEN e[2] + FILE_DESCRIPTORS ELSE e[2],
       IF e[1] # "mutex" THEN "-" ELSE IF e[3] = LOCKED THEN "LOCKED" ELSE "UNLOCKED">>
        : e \in entries}

(* ipcs shows every object that was open and in the same state all along,  *)
(* and nothing that never was, with the key or file descriptor that leads  *)
(* to it (ipc_info.c:5-45, kernelMutex.c:155-174, condVariable.c:142-159,  *)
(* fifo.c:269-287).                                                        *)
IpcsShowsWhatStays ==
    ipcs = "done" => Shown(stayed) \subseteq shown /\ shown \subseteq Shown(seen)
=============================================================================
