-------------------------- MODULE MemoryAllocator --------------------------
(***************************************************************************)
(* The two page allocators of the kernel (Kernel/memoryAllocator.c), and   *)
(* who holds their pages: control blocks and ring nodes (process.c,        *)
(* processManager.c), the pages a program reserves (systemCalls.c), the    *)
(* entries of the sleep list (timer.c), the requests of the readers of a   *)
(* fifo (fifo.c), and a queue with its nodes (queueADT.c).                 *)
(*                                                                         *)
(* Every operation runs with interrupts off and is one step.  An array and *)
(* its index are the sequence of the entries from the index on: what lies  *)
(* before the index is never read again.                                   *)
(*                                                                         *)
(* A definition named X_Y is X with the mistake Y: the properties are      *)
(* tested against it, and nothing else uses it.                            *)
(***************************************************************************)
EXTENDS Integers, FiniteSets, Sequences, SequencesExt

CONSTANTS
    Proc,           \* the processes
    NULL,
    STACK_SIZE,     \* entries of pages_stack
    MAX_PROCESSES,  \* entries of stack_pages_stack
    MAX_DATA_PAGES, \* entries of a control block's data_page
    MaxReserved,    \* bound: the pages a program reserves at a time
    MaxSleeping,    \* bound: the entries of the sleep list
    MaxQueued       \* bound: the pages of the queue

ASSUME SizeAssumption ==
    /\ STACK_SIZE \in Nat \ {0} /\ MAX_PROCESSES \in Nat \ {0}
    /\ MAX_DATA_PAGES \in Nat /\ MaxReserved \in Nat
    /\ MaxSleeping \in Nat /\ MaxQueued \in Nat
    /\ NULL \notin Int

Page == 0 .. STACK_SIZE - 1
StackPage == 1 .. MAX_PROCESSES

VARIABLES
    pages,      \* pages_stack from current_index on
    stacks,     \* stack_pages_stack from current_stack_index on
    pcb, node, stack_page, \* the pages of each process, NULL if it is none
    data_page,  \* the reserved pages its control block lists
    reserved,   \* the pages its program has reserved and not freed
    request,    \* the page of the read it is in, NULL if it is in none
    sleeping,   \* the pages of the sleep list
    queue,      \* a queue's page and those of its nodes, from the first on
    abandoned,  \* the requests of readers that were killed or whose fifo
                \* was closed
    halted      \* the kernel recursed or faulted for lack of pages

procs == <<pcb, node, stack_page>>
kernel == <<sleeping, queue, abandoned>>
vars == <<pages, stacks, procs, data_page, reserved, request, kernel, halted>>

-----------------------------------------------------------------------------
(* The loop leaves the last entry of pages_stack as it was, 0.             *)
initialize_memory_allocator ==
    pages = [i \in 1 .. STACK_SIZE |-> IF i < STACK_SIZE THEN i ELSE 0]

initialize_stack_memory_allocator == stacks = [i \in 1 .. MAX_PROCESSES |-> i]

(* What remains on a stack after n calls that find a page.                 *)
Popped(s, n) == SubSeq(s, n + 1, Len(s))

(* The sequence new is stored from its last element to its first; what a   *)
(* full stack refuses is lost.                                             *)
Stored(s, new, size) ==
    LET room == size - Len(s)
    IN  IF Len(new) <= room THEN new \o s
        ELSE SubSeq(new, Len(new) - room + 1, Len(new)) \o s

get_page == pages # <<>> /\ pages' = Popped(pages, 1)
store_pages(new) == pages' = Stored(pages, new, STACK_SIZE)
store_page(a) == store_pages(<<a>>)
get_stack_page == stacks # <<>> /\ stacks' = Popped(stacks, 1)
store_stack_page(a) == stacks' = Stored(stacks, <<a>>, MAX_PROCESSES)

Init ==
    /\ initialize_memory_allocator
    /\ initialize_stack_memory_allocator
    /\ pcb = [p \in Proc |-> NULL] /\ node = pcb /\ stack_page = pcb /\ request = pcb
    /\ data_page = [p \in Proc |-> {}] /\ reserved = data_page
    /\ sleeping = {} /\ queue = <<>> /\ abandoned = {}
    /\ halted = FALSE

Exists(p) == pcb[p] # NULL
Runs(p) == Exists(p) /\ request[p] = NULL

(* exec: a page for the control block, one for its stack, one for the node.*)
create_process(p) ==
    /\ ~halted /\ ~Exists(p)
    /\ Len(pages) >= 2 /\ pages' = Popped(pages, 2)
    /\ pcb' = [pcb EXCEPT ![p] = pages[1]]
    /\ node' = [node EXCEPT ![p] = pages[2]]
    /\ get_stack_page
    /\ stack_page' = [stack_page EXCEPT ![p] = stacks[1]]
    /\ UNCHANGED <<data_page, reserved, request, kernel, halted>>

(* The pages that a control block lists, in any order: they go by their    *)
(* slots, which sets do not tell.                                          *)
free_data_pages(p) == SetToSeqs(data_page[p])

Gone(p) ==
    /\ ~halted /\ Exists(p)
    /\ store_stack_page(stack_page[p])
    /\ pcb' = [pcb EXCEPT ![p] = NULL]
    /\ node' = [node EXCEPT ![p] = NULL]
    /\ stack_page' = [stack_page EXCEPT ![p] = NULL]
    /\ data_page' = [data_page EXCEPT ![p] = {}]
    /\ reserved' = [reserved EXCEPT ![p] = {}]
    /\ request' = [request EXCEPT ![p] = NULL]
    /\ abandoned' = abandoned \cup ({request[p]} \ {NULL})
    /\ UNCHANGED <<sleeping, queue, halted>>

destroy_process_NodeKept(p) ==
    /\ Gone(p)
    /\ \E listed \in free_data_pages(p) : store_pages(<<pcb[p]>> \o listed)

(* The end of a process, by itself or by the scheduler after a kill: its   *)
(* data pages, its control block and its node are stored.                  *)
destroy_process(p) ==
    /\ Gone(p)
    /\ \E listed \in free_data_pages(p) : store_pages(<<node[p], pcb[p]>> \o listed)

(* A page for which there is no room is not listed.                        *)
add_data_page(p, a) ==
    data_page' = IF Cardinality(data_page[p]) < MAX_DATA_PAGES
                 THEN [data_page EXCEPT ![p] = @ \cup {a}] ELSE data_page

remove_data_page(p, a) == data_page' = [data_page EXCEPT ![p] = @ \ {a}]

(* A page that does not fit in the list belongs to the program all the     *)
(* same.                                                                   *)
sys_malloc(p) ==
    /\ ~halted /\ Runs(p)
    /\ Cardinality(reserved[p]) < MaxReserved
    /\ get_page
    /\ reserved' = [reserved EXCEPT ![p] = @ \cup {pages[1]}]
    /\ add_data_page(p, pages[1])
    /\ UNCHANGED <<stacks, procs, request, kernel, halted>>

sys_free_StillListed(p, a) ==
    /\ ~halted /\ Runs(p) /\ a \in reserved[p]
    /\ reserved' = [reserved EXCEPT ![p] = @ \ {a}]
    /\ store_page(a)
    /\ UNCHANGED <<stacks, procs, data_page, request, kernel, halted>>

(* Programs free what they have reserved, once (external: executer.c,      *)
(* producerConsumer2.c).                                                   *)
sys_free(p, a) ==
    /\ ~halted /\ Runs(p) /\ a \in reserved[p]
    /\ reserved' = [reserved EXCEPT ![p] = @ \ {a}]
    /\ remove_data_page(p, a)
    /\ store_page(a)
    /\ UNCHANGED <<stacks, procs, request, kernel, halted>>

-----------------------------------------------------------------------------
(* A reader's request.  One that is killed while it waits, or that finds   *)
(* the fifo closed, does not store it.                                     *)

create_read_request(p) ==
    /\ ~halted /\ Runs(p)
    /\ get_page
    /\ request' = [request EXCEPT ![p] = pages[1]]
    /\ UNCHANGED <<stacks, procs, data_page, reserved, kernel, halted>>

fifo_read(p) ==
    /\ ~halted /\ Exists(p) /\ ~Runs(p)
    /\ request' = [request EXCEPT ![p] = NULL]
    /\ \/ store_page(request[p]) /\ UNCHANGED abandoned
       \/ abandoned' = abandoned \cup {request[p]} /\ UNCHANGED pages
    /\ UNCHANGED <<stacks, procs, data_page, reserved, sleeping, queue, halted>>

-----------------------------------------------------------------------------
(* The sleep list. *)

create_sleep_process ==
    /\ ~halted /\ Cardinality(sleeping) < MaxSleeping
    /\ get_page
    /\ sleeping' = sleeping \cup {pages[1]}
    /\ UNCHANGED <<stacks, procs, data_page, reserved, request, queue, abandoned, halted>>

timer_handler(a) ==
    /\ ~halted /\ a \in sleeping
    /\ sleeping' = sleeping \ {a}
    /\ store_page(a)
    /\ UNCHANGED <<stacks, procs, data_page, reserved, request, queue, abandoned, halted>>

-----------------------------------------------------------------------------
(* A queue. *)

keeps == <<stacks, procs, data_page, reserved, request, sleeping, abandoned, halted>>

create_queue ==
    /\ ~halted /\ queue = <<>>
    /\ get_page /\ queue' = <<pages[1]>>
    /\ UNCHANGED keeps

enqueue ==
    /\ ~halted /\ queue # <<>> /\ Len(queue) < MaxQueued
    /\ get_page /\ queue' = Append(queue, pages[1])
    /\ UNCHANGED keeps

dequeue ==
    /\ ~halted /\ Len(queue) > 1
    /\ store_page(queue[2]) /\ queue' = <<queue[1]>> \o Popped(queue, 2)
    /\ UNCHANGED keeps

destroy_queue ==
    /\ ~halted /\ queue # <<>>
    /\ store_pages(<<queue[1]>> \o Reverse(Tail(queue))) /\ queue' = <<>>
    /\ UNCHANGED keeps

-----------------------------------------------------------------------------
(* With no page left get_page locks its mutex again: the process enqueues  *)
(* itself, for which it needs a page, and so on until the stack overflows. *)
(* Without a stack page fill_stack writes below address 0.                 *)
Exhausted ==
    /\ ~halted
    /\ \/ pages = <<>>
       \/ (Len(pages) = 1 \/ stacks = <<>>) /\ \E p \in Proc : ~Exists(p)
    /\ halted' = TRUE
    /\ UNCHANGED <<pages, stacks, procs, data_page, reserved, request, kernel>>

Next ==
    \/ \E p \in Proc :
         \/ create_process(p) \/ destroy_process(p) \/ sys_malloc(p)
         \/ create_read_request(p) \/ fifo_read(p)
    \/ \E p \in Proc, a \in Page : sys_free(p, a)
    \/ create_sleep_process \/ \E a \in Page : timer_handler(a)
    \/ create_queue \/ enqueue \/ dequeue \/ destroy_queue
    \/ Exhausted

Spec == Init /\ [][Next]_vars
-----------------------------------------------------------------------------
(* Properties. *)

(* The pages that a process uses, and those that the kernel uses.          *)
Of(p) == IF Exists(p) THEN reserved[p] \cup ({pcb[p], node[p], request[p]} \ {NULL}) ELSE {}
Kernels == sleeping \cup ToSet(queue) \cup abandoned
Used == Kernels \cup UNION {Of(p) : p \in Proc}

(* No page has two users, and none is on the stack while it is used or     *)
(* twice on it: get_page never gives out a page in use, whatever the order *)
(* of reserves, frees, waits, kills and ends (memoryAllocator.c:31-51).    *)
PagesHaveOneUser ==
    /\ IsInjective(pages) /\ IsInjective(stacks) /\ IsInjective(queue)
    /\ ToSet(pages) \cap Used = {}
    /\ sleeping \cap ToSet(queue) = {} /\ abandoned \cap (sleeping \cup ToSet(queue)) = {}
    /\ \A p \in Proc : Exists(p) =>
         /\ stack_page[p] \notin ToSet(stacks)
         /\ Of(p) \cap Kernels = {}
         /\ pcb[p] # node[p] /\ request[p] \notin {pcb[p], node[p]}
         /\ {pcb[p], node[p], request[p]} \cap reserved[p] = {}
         /\ \A q \in Proc \ {p} : Of(p) \cap Of(q) = {} /\ stack_page[p] # stack_page[q]

(* A page that nobody uses is on the stack, but for the requests of        *)
(* readers that were killed or released by the closing of their fifo: the  *)
(* end of a process returns all it had, "las paginas de datos usadas por   *)
(* el proceso" (process.c:242), and the end of a queue all its nodes       *)
(* (queueADT.c:23-28).                                                     *)
NoPageIsLost == Page \subseteq ToSet(pages) \cup Used

(* The start of the data module, which holds the parameters of the         *)
(* fractals, is not given out (memoryAllocator.c:16).                      *)
ParametersAreKept == 0 \notin Used
=============================================================================
