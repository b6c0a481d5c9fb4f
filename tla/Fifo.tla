-------------------------------- MODULE Fifo --------------------------------
(***************************************************************************)
(* The fifos of Kernel/fifo.c: a name, a circular buffer and a queue of    *)
(* readers each.                                                           *)
(*                                                                         *)
(* A call runs with interrupts off up to the yield of fifo_read, so its    *)
(* two mutexes are never found locked and are left out.  The page of a     *)
(* read_request is known by its reader: want and got are its fields.       *)
(***************************************************************************)
EXTENDS Integers, Sequences, SequencesExt

CONSTANTS
    Proc, NULL, Name, Byte,
    MAX_FIFOS, BUF_SIZE, MAX_FDS,
    INT_BITS,      \* the width of the 1 << fd that marks an open fifo
    MaxBytes,      \* bound: the longest write or read
    WriteWhenFull  \* do programs write to a full fifo?

VARIABLES
    open_fifos,
    open_fds,      \* per process: bits
    alive, st,
    reads,         \* the fifo whose fifo_read a process has yet to return from
    want,          \* the bytes that a queued request asks for
    got,           \* those that a reader has been given meanwhile
    holed,         \* history: a fifo was closed before an open one
    shut,          \* history: the readers whose fifo was closed meanwhile
    call,          \* what the call of the last step was given and returned
    halted         \* a memcpy of a negative length has begun

vars == <<open_fifos, open_fds, alive, st, reads, want, got, holed, shut, call, halted>>

Key == 0 .. MAX_FIFOS - 1
Slot == 0 .. BUF_SIZE - 1

(* NULL stands for what the buffer holds before it is written.             *)
create_new_fifo(n) ==
    [name |-> n, state |-> "OPEN",
     buffer |-> [s \in Slot |-> NULL], buf_fill |-> 0, current |-> 0, free_slot |-> 0,
     read_queue |-> <<>>]

(* What an entry that is closed still holds is never looked at again.      *)
Closed == [create_new_fifo(NULL) EXCEPT !.state = "CLOSED"]

Init ==
    /\ open_fifos = [k \in Key |-> Closed]
    /\ open_fds = [p \in Proc |-> {}]
    /\ alive = Proc
    /\ st = [p \in Proc |-> "READY"]
    /\ reads = [p \in Proc |-> NULL]
    /\ want = [p \in Proc |-> 0]
    /\ got = [p \in Proc |-> <<>>]
    /\ holed = FALSE
    /\ shut = {}
    /\ call = <<>>
    /\ halted = FALSE

Runs(p) == ~halted /\ p \in alive /\ st[p] = "READY" /\ reads[p] = NULL

unblock(P) == [p \in Proc |-> IF p \in P /\ st[p] # "DELETE" THEN "READY" ELSE st[p]]

(* 1 << fd is an int: past its width the bits are used again.              *)
Bit(k) == k % INT_BITS

set_file_open(p, k) ==
    open_fds' = IF k < MAX_FDS THEN [open_fds EXCEPT ![p] = @ \cup {Bit(k)}] ELSE open_fds

is_open(p, k) == open_fifos[k].state = "OPEN" /\ k < MAX_FDS /\ Bit(k) \in open_fds[p]

(* The entry that the scan of fifo_open stops at: one with that name, the  *)
(* first closed one, or past the end.                                      *)
Found(n) ==
    CHOOSE k \in 0 .. MAX_FIFOS :
        /\ \A j \in 0 .. k - 1 : open_fifos[j].state = "OPEN" /\ open_fifos[j].name # n
        /\ k \in Key => open_fifos[k].state = "CLOSED" \/ open_fifos[k].name = n

fifo_open_NoScan(p, n) ==
    /\ Runs(p)
    /\ \E k \in Key :
         /\ open_fifos[k].state = "CLOSED"
         /\ set_file_open(p, k)
         /\ open_fifos' = [open_fifos EXCEPT ![k] = create_new_fifo(n)]
    /\ call' = <<>>
    /\ UNCHANGED <<alive, st, reads, want, got, holed, shut, halted>>

fifo_open(p, n) ==
    /\ Runs(p)
    /\ Found(n) \in Key
    /\ set_file_open(p, Found(n))
    /\ open_fifos' = [open_fifos EXCEPT ![Found(n)] =
                        IF @.state = "OPEN" THEN @ ELSE create_new_fifo(n)]
    /\ call' = <<>>
    /\ UNCHANGED <<alive, st, reads, want, got, holed, shut, halted>>

-----------------------------------------------------------------------------
(* The circular buffer.  Both copies go to the end of the buffer and on    *)
(* from its start unless the index moves forward; First is what the first  *)
(* memcpy copies, and n - First, which may be negative, the second.        *)

First(from, n) ==
    IF from < (from + n) % BUF_SIZE THEN n ELSE BUF_SIZE - from

Fits(f, n) == IF f.buf_fill + n > BUF_SIZE THEN BUF_SIZE - f.buf_fill ELSE n

write_circular_buffer_SameSource(f, source) ==
    LET n == Fits(f, Len(source))
        first == First(f.free_slot, n)
        data(i) == IF i <= Len(source) THEN source[i] ELSE NULL
    IN  [f EXCEPT
          !.free_slot = (@ + n) % BUF_SIZE,
          !.buf_fill = @ + n,
          !.buffer = [s \in Slot |->
              IF s >= f.free_slot /\ s < f.free_slot + first THEN data(s - f.free_slot + 1)
              ELSE IF s < n - first THEN data(s + 1)
              ELSE f.buffer[s]]]

(* Past its bytes the source holds anything.                               *)
write_circular_buffer(f, source) ==
    LET n == Fits(f, Len(source))
        first == First(f.free_slot, n)
        data(i) == IF i <= Len(source) THEN source[i] ELSE NULL
    IN  [f EXCEPT
          !.free_slot = (@ + n) % BUF_SIZE,
          !.buf_fill = @ + n,
          !.buffer = [s \in Slot |->
              IF s >= f.free_slot /\ s < f.free_slot + first THEN data(s - f.free_slot + 1)
              ELSE IF s < n - first THEN data(first + s + 1)
              ELSE f.buffer[s]]]

Held(f, n) == IF f.buf_fill < n THEN f.buf_fill ELSE n

read_circular_buffer(f, n) ==
    [f EXCEPT !.current = (@ + Held(f, n)) % BUF_SIZE, !.buf_fill = @ - Held(f, n)]

(* What a read of n bytes copies to its destination.                       *)
Copied(f, n) ==
    LET first == First(f.current, Held(f, n))
    IN  [i \in 1 .. Held(f, n) |->
            IF i <= first THEN f.buffer[f.current + i - 1] ELSE f.buffer[i - first - 1]]

(* The bytes that are left after the first i readers had theirs.           *)
Left(f) ==
    LET q == f.read_queue
        left[i \in 0 .. Len(q)] ==
            IF i = 0 THEN f.buf_fill
            ELSE IF left[i - 1] < want[q[i]] THEN 0 ELSE left[i - 1] - want[q[i]]
    IN  left

After(f, i) ==
    [f EXCEPT !.buf_fill = Left(f)[i], !.current = (@ + f.buf_fill - Left(f)[i]) % BUF_SIZE]

(* The readers are served in turn until the buffer is empty.               *)
Served(f) ==
    CHOOSE m \in 0 .. Len(f.read_queue) :
        /\ m = Len(f.read_queue) \/ Left(f)[m] = 0
        /\ \A i \in 0 .. m - 1 : Left(f)[i] # 0

(* What goes to a dead reader is lost.                                     *)
send_to_readers(f) ==
    LET q == f.read_queue
        m == Served(f)
    IN  [f |-> [After(f, m) EXCEPT !.read_queue = SubSeq(q, m + 1, Len(q))],
         g |-> [p \in Proc |->
            IF p \notin ToSet(SubSeq(q, 1, m)) THEN got[p]
            ELSE IF st[p] = "DELETE" THEN <<>>
            ELSE LET i == CHOOSE i \in 1 .. m : q[i] = p
                 IN  Copied(After(f, i - 1), want[p])]]

(* The requests of P are gone from their queue.                            *)
Done(P) == [p \in Proc |-> IF p \in P THEN 0 ELSE want[p]]

-----------------------------------------------------------------------------
fifo_write(p, k, source) ==
    /\ Runs(p) /\ is_open(p, k)
    /\ WriteWhenFull \/ open_fifos[k].buf_fill < BUF_SIZE
    /\ LET n == Fits(open_fifos[k], Len(source))
           sent == send_to_readers(write_circular_buffer(open_fifos[k], source))
       IN  /\ open_fifos' = [open_fifos EXCEPT ![k] = sent.f]
           /\ got' = sent.g
           /\ st' = unblock(ToSet(open_fifos[k].read_queue) \ ToSet(sent.f.read_queue))
           /\ halted' = (n < First(open_fifos[k].free_slot, n))
           /\ want' = Done(ToSet(open_fifos[k].read_queue) \ ToSet(sent.f.read_queue))
           /\ call' = <<"write", source, n>>
    /\ UNCHANGED <<open_fds, alive, reads, holed, shut>>

(* Only a reader that finds nobody waiting tries at once.                  *)
fifo_read(p, k, n) ==
    /\ Runs(p) /\ is_open(p, k)
    /\ IF open_fifos[k].read_queue = <<>> /\ open_fifos[k].buf_fill > 0
       THEN /\ open_fifos' = [open_fifos EXCEPT ![k] = read_circular_buffer(@, n)]
            /\ call' = <<"read", Copied(open_fifos[k], n)>>
            /\ UNCHANGED <<st, reads, want>>
       ELSE /\ open_fifos' = [open_fifos EXCEPT ![k].read_queue = Append(@, p)]
            /\ want' = [want EXCEPT ![p] = n]
            /\ call' = <<>>
            /\ st' = [st EXCEPT ![p] = "BLOCKED"]
            /\ reads' = [reads EXCEPT ![p] = k]
    /\ UNCHANGED <<open_fds, alive, got, holed, shut, halted>>

(* The fifo is looked at again after the yield.  If it is closed the       *)
(* reader reports an error, even one that was served before the close: its *)
(* bytes are lost.  If it was closed and the entry opened again, one that  *)
(* was released by the close returns what bytes_read happened to be.       *)
ReadReturns(p) ==
    /\ ~halted /\ p \in alive /\ st[p] = "READY" /\ reads[p] # NULL
    /\ call' = IF ~is_open(p, reads[p]) THEN <<"error">>
               ELSE IF got[p] = <<>> THEN <<"unset">>
               ELSE <<"returned", Len(got[p])>>
    /\ reads' = [reads EXCEPT ![p] = NULL]
    /\ got' = [got EXCEPT ![p] = <<>>]
    /\ shut' = shut \ {p}
    /\ UNCHANGED <<open_fifos, open_fds, alive, st, want, holed, halted>>

fifo_close_KeepsReaders(p, k) ==
    /\ Runs(p) /\ is_open(p, k)
    /\ open_fifos' = [open_fifos EXCEPT ![k] = Closed]
    /\ holed' = (holed \/ \E j \in Key : j > k /\ open_fifos[j].state = "OPEN")
    /\ shut' = shut \cup {q \in Proc : reads[q] = k}
    /\ want' = Done(ToSet(open_fifos[k].read_queue))
    /\ call' = <<>>
    /\ UNCHANGED <<open_fds, alive, st, reads, got, halted>>

(* The bits of open_fds stay.                                              *)
fifo_close(p, k) ==
    /\ Runs(p) /\ is_open(p, k)
    /\ st' = unblock(ToSet(open_fifos[k].read_queue))
    /\ open_fifos' = [open_fifos EXCEPT ![k] = Closed]
    /\ holed' = (holed \/ \E j \in Key : j > k /\ open_fifos[j].state = "OPEN")
    /\ shut' = shut \cup {q \in Proc : reads[q] = k}
    /\ want' = Done(ToSet(open_fifos[k].read_queue))
    /\ call' = <<>>
    /\ UNCHANGED <<open_fds, alive, reads, got, halted>>

-----------------------------------------------------------------------------
(* Processes.  A killed reader stays in the queue with its request, and    *)
(* bytes still go to it; pages that a queue points to are not used again   *)
(* here (see KernelMutex, PageReuse).                                      *)

(* It never runs again: nothing it had matters but a request in a queue.   *)
Forgotten(p) ==
    /\ open_fds' = [open_fds EXCEPT ![p] = {}]
    /\ reads' = [reads EXCEPT ![p] = NULL]
    /\ got' = [got EXCEPT ![p] = <<>>]
    /\ shut' = shut \ {p}
    /\ call' = <<>>

kill_process(p, q) ==
    /\ Runs(p) /\ q \in alive \ {p} /\ st[q] # "DELETE"
    /\ st' = [st EXCEPT ![q] = "DELETE"]
    /\ Forgotten(q)
    /\ UNCHANGED <<open_fifos, alive, want, holed, halted>>

destroy_process(p) ==
    /\ ~halted /\ p \in alive /\ st[p] = "DELETE"
    /\ alive' = alive \ {p}
    /\ call' = <<>>
    /\ UNCHANGED <<open_fifos, open_fds, st, reads, want, got, holed, shut, halted>>

create_process(p) ==
    /\ ~halted /\ p \notin alive
    /\ \A k \in Key : p \notin ToSet(open_fifos[k].read_queue)
    /\ alive' = alive \cup {p}
    /\ st' = [st EXCEPT ![p] = "READY"]
    /\ Forgotten(p)
    /\ UNCHANGED <<open_fifos, want, holed, halted>>

Next ==
    \/ \E p \in Proc, n \in Name : fifo_open(p, n)
    \/ \E p \in Proc, k \in Key :
         \/ fifo_close(p, k)
         \/ \E n \in 1 .. MaxBytes : fifo_read(p, k, n)
         \/ \E source \in SeqOf(Byte, MaxBytes) \ {<<>>} : fifo_write(p, k, source)
    \/ \E p \in Proc : ReadReturns(p) \/ destroy_process(p) \/ create_process(p)
    \/ \E p, q \in Proc : kill_process(p, q)

Spec == Init /\ [][Next]_vars
-----------------------------------------------------------------------------
(* Properties. *)

(* A reader sleeps exactly while it is in the queue of the open fifo it    *)
(* reads, once, with its request still to be served (fifo.c:150-190,       *)
(* 200-223): no write, close or kill leaves it asleep and forgotten.       *)
ReaderIsQueued ==
    \A p \in Proc, k \in Key :
        (p \in alive /\ st[p] = "BLOCKED" /\ reads[p] = k)
          <=> (st[p] # "DELETE" /\ open_fifos[k].state = "OPEN"
               /\ \E i \in DOMAIN open_fifos[k].read_queue :
                    open_fifos[k].read_queue[i] = p
                    /\ \A j \in DOMAIN open_fifos[k].read_queue :
                         open_fifos[k].read_queue[j] = p => j = i)

(* As long as no fifo is closed before one that is open, a name leads to   *)
(* one fifo only, the same for all (fifo.c:57-82: the scan stops at the    *)
(* first closed entry).                                                    *)
NameHasOneFifo ==
    ~holed => \A j, k \in Key :
        (open_fifos[j].state = "OPEN" /\ open_fifos[k].state = "OPEN"
           /\ open_fifos[j].name = open_fifos[k].name) => j = k

(* A write never begins a copy that does not end: fifos "do not block on   *)
(* writing" (design report, p. 8), however full (fifo.c:226-245).          *)
WriteReturns == ~halted

(* The bytes from the next to be read to the next free slot.               *)
Content(f) ==
    IF f.state = "CLOSED" THEN <<>>
    ELSE [i \in 1 .. f.buf_fill |-> f.buffer[(f.current + i - 1) % BUF_SIZE]]

Queues == INSTANCE ByteQueues WITH
    Queue <- Key, Reader <- Proc, Capacity <- BUF_SIZE, Longest <- MaxBytes,
    content <- [k \in Key |-> Content(open_fifos[k])],
    line <- [k \in Key |-> open_fifos[k].read_queue],
    given <- got, dead <- {p \in Proc : st[p] = "DELETE"}

(* Every call is a step of bounded byte queues whose readers are served in *)
(* order: of what fifo_write is given no byte is lost that it says it took,*)
(* none is repeated, invented or out of order, whatever the indices have   *)
(* wrapped around; a fifo_read returns exactly the bytes it was given, and *)
(* nobody waits beside a byte (fifo.c:109-267).  A reader whose fifo was   *)
(* closed before its fifo_read returned is excepted, for the code looks at *)
(* the fifo only then (fifo.c:184-189).                                    *)
ImplementsByteQueues == Queues!Spec
=============================================================================
