---------------------------- MODULE Fifo_proofs ----------------------------
(***************************************************************************)
(* Who waits in a fifo, what a name leads to, and that the fifos are       *)
(* queues of bytes, for any number of fifos, of readers and of bytes.      *)
(***************************************************************************)
EXTENDS Fifo, OrderLemmas

(* include/fifo.h:4: there are 128 entries, none of which is no entry.     *)
NullIsNoKey == MAX_FIFOS \in Nat /\ NULL \notin Key

-----------------------------------------------------------------------------
(* The inductive invariants. *)

FifoTypes ==
    /\ DOMAIN open_fifos = Key /\ alive \subseteq Proc
    /\ st \in [Proc -> {"READY", "BLOCKED", "DELETE"}]
    /\ reads \in [Proc -> Key \cup {NULL}]
    /\ \A k \in Key :
         /\ {"name", "state", "read_queue"} \subseteq DOMAIN open_fifos[k]
         /\ open_fifos[k].state \in {"OPEN", "CLOSED"}
         /\ open_fifos[k].read_queue \in Seq(Proc)
         /\ IsInjective(open_fifos[k].read_queue)
         /\ open_fifos[k].state = "CLOSED" => open_fifos[k].read_queue = <<>>

Waits(p, k) == p \in ToSet(open_fifos[k].read_queue)

(* Who is in a queue sleeps and reads that fifo, or was killed.            *)
QueuedReads ==
    \A p \in Proc, k \in Key : Waits(p, k) => (st[p] = "BLOCKED" /\ reads[p] = k) \/ st[p] = "DELETE"

(* Nobody is in two queues, not even the dead.                             *)
OneQueue ==
    \A p \in Proc, j, k \in Key : Waits(p, j) /\ Waits(p, k) => j = k

(* Who sleeps is in the queue of what it reads.                            *)
SleeperWaits ==
    \A p \in Proc, k \in Key : st[p] = "BLOCKED" /\ reads[p] = k => Waits(p, k)

(* Who is gone had been killed.                                            *)
GoneWasKilled == \A p \in Proc : p \notin alive => st[p] = "DELETE"

ReadersInv == FifoTypes /\ QueuedReads /\ OneQueue /\ SleeperWaits /\ GoneWasKilled

(* The open fifos come first, with different names.                        *)
OpenFirst ==
    ~holed => \A j, k \in Key :
        open_fifos[k].state = "OPEN" /\ j < k =>
            open_fifos[j].state = "OPEN" /\ open_fifos[j].name # open_fifos[k].name

-----------------------------------------------------------------------------
(* The operators. *)

(* The elements of a queue.                                                *)
LEMMA QueueElements ==
    ASSUME NEW q \in Seq(Proc)
    PROVE  /\ DOMAIN q = 1 .. Len(q) /\ Len(q) \in Nat
           /\ \A i \in DOMAIN q : q[i] \in Proc /\ q[i] \in ToSet(q)
           /\ \A p \in ToSet(q) : p \in Proc /\ \E i \in DOMAIN q : q[i] = p
<1>1. DOMAIN q = 1 .. Len(q) /\ Len(q) \in Nat
  BY LenProperties
<1>2. \A i \in DOMAIN q : q[i] \in Proc /\ q[i] \in ToSet(q)
  BY <1>1, ElementOfSeq DEF ToSet
<1> QED
  BY <1>1, <1>2 DEF ToSet

(* A reader more at the end of a queue it was not in.                      *)
LEMMA Joins ==
    ASSUME NEW q \in Seq(Proc), IsInjective(q), NEW p \in Proc, p \notin ToSet(q),
           NEW d, d = Append(q, p)
    PROVE  /\ d \in Seq(Proc) /\ IsInjective(d)
           /\ \A r : r \in ToSet(d) <=> r \in ToSet(q) \/ r = p
<1>1. /\ d \in Seq(Proc)
      /\ DOMAIN q = 1 .. Len(q) /\ DOMAIN d = 1 .. Len(q) + 1 /\ Len(q) \in Nat
      /\ \A i \in DOMAIN q : d[i] = q[i]
      /\ d[Len(q) + 1] = p
  BY Appended
<1>2. /\ \A i \in DOMAIN q : q[i] \in Proc /\ q[i] \in ToSet(q)
      /\ \A r \in ToSet(q) : r \in Proc /\ \E i \in DOMAIN q : q[i] = r
  BY QueueElements
<1> DEFINE l == Len(q)
<1>3. /\ l \in Nat /\ DOMAIN q = 1 .. l /\ DOMAIN d = 1 .. l + 1 /\ d[l + 1] = p
      /\ \A i \in DOMAIN d : i = l + 1 \/ i \in DOMAIN q
      /\ \A i \in DOMAIN q : i \in DOMAIN d /\ i # l + 1
      /\ l + 1 \in DOMAIN d
  BY <1>1
<1> HIDE DEF l
<1>4. IsInjective(d)
  BY <1>1, <1>2, <1>3 DEF IsInjective
<1>5. ASSUME NEW r PROVE r \in ToSet(d) <=> r \in ToSet(q) \/ r = p
  <2>1. ASSUME r \in ToSet(d) PROVE r \in ToSet(q) \/ r = p
    <3>1. PICK i \in DOMAIN d : d[i] = r
      BY <2>1 DEF ToSet
    <3> QED
      BY <1>1, <1>2, <1>3, <3>1
  <2>2. ASSUME r \in ToSet(q) PROVE r \in ToSet(d)
    <3>1. PICK i \in DOMAIN q : q[i] = r
      BY <1>2, <2>2
    <3> QED
      BY <1>1, <1>3, <3>1 DEF ToSet
  <2>3. p \in ToSet(d)
    BY <1>3 DEF ToSet
  <2> QED
    BY <2>1, <2>2, <2>3
<1> QED
  BY <1>1, <1>4, <1>5

(* Some are served from the front, the rest keeps its order.               *)
LEMMA Serves ==
    ASSUME NEW q \in Seq(Proc), IsInjective(q), NEW m \in 0 .. Len(q),
           NEW d, d = SubSeq(q, m + 1, Len(q))
    PROVE  d \in Seq(Proc) /\ IsInjective(d) /\ ToSet(d) \subseteq ToSet(q)
<1>1. Len(q) \in Nat /\ DOMAIN q = 1 .. Len(q)
  BY LenProperties
<1>2. m \in Nat /\ m <= Len(q) + 1
  BY <1>1
<1>3. /\ d \in Seq(Proc) /\ DOMAIN d = 1 .. Len(q) - m
      /\ \A i \in DOMAIN d : m + i \in DOMAIN q /\ d[i] = q[m + i]
  BY <1>2, DropFirst
<1>4. ASSUME NEW i \in DOMAIN d, NEW j \in DOMAIN d, d[i] = d[j]
      PROVE  i = j
  <2>1. m + i = m + j
    BY <1>3, <1>4 DEF IsInjective
  <2>2. i \in Int /\ j \in Int
    BY <1>1, <1>3
  <2> QED
    BY <1>2, <2>1, <2>2
<1>5. IsInjective(d)
  BY <1>4 DEF IsInjective
<1>6. ToSet(d) \subseteq ToSet(q)
  BY <1>3 DEF ToSet
<1> QED
  BY <1>3, <1>5, <1>6

(* send_to_readers stops at the first reader that finds nothing left.      *)
LEMMA ServedIs ==
    ASSUME NEW f, f.read_queue \in Seq(Proc)
    PROVE  /\ Served(f) \in 0 .. Len(f.read_queue)
           /\ Served(f) = Len(f.read_queue) \/ Left(f)[Served(f)] = 0
           /\ \A i \in 0 .. Served(f) - 1 : Left(f)[i] # 0
<1>1. Len(f.read_queue) \in Nat
  BY LenProperties
<1> DEFINE l == Len(f.read_queue)
           left == Left(f)
           T == {m \in 0 .. l : m = l \/ left[m] = 0}
<1>2. l \in Nat
  BY <1>1
<1> HIDE DEF l, left
<1>3. T \in SUBSET Nat /\ T # {}
  <2>1. l \in 0 .. l /\ 0 .. l \subseteq Nat
    BY <1>2
  <2>2. l \in T
    BY <2>1
  <2>3. T \subseteq 0 .. l
    OBVIOUS
  <2> QED
    BY <2>1, <2>2, <2>3
<1>4. PICK m \in T : \A n \in T : m <= n
  BY <1>3, SmallestOf
<1>5. \A i \in 0 .. m - 1 : left[i] # 0
  <2> SUFFICES ASSUME NEW i \in 0 .. m - 1, left[i] = 0 PROVE FALSE
    OBVIOUS
  <2>1. i \in T /\ ~(m <= i)
    BY <1>2
  <2> QED
    BY <1>4, <2>1
<1>6. m \in 0 .. l /\ (m = l \/ left[m] = 0)
  OBVIOUS
<1>7. \E n \in 0 .. Len(f.read_queue) :
        /\ n = Len(f.read_queue) \/ Left(f)[n] = 0
        /\ \A i \in 0 .. n - 1 : Left(f)[i] # 0
  BY <1>5, <1>6 DEF l, left
<1> QED
  BY <1>7 DEF Served

(* The fifo that a write leaves is the same one, with part of its queue.   *)
LEMMA WriteKeepsFifo ==
    ASSUME NEW f, {"name", "state", "read_queue"} \subseteq DOMAIN f,
           f.read_queue \in Seq(Proc), IsInjective(f.read_queue),
           NEW source, NEW s, s = send_to_readers(write_circular_buffer(f, source)).f
    PROVE  /\ {"name", "state", "read_queue"} \subseteq DOMAIN s
           /\ s.name = f.name /\ s.state = f.state
           /\ s.read_queue \in Seq(Proc) /\ IsInjective(s.read_queue)
           /\ ToSet(s.read_queue) \subseteq ToSet(f.read_queue)
<1>1. PICK w : w = write_circular_buffer(f, source)
  OBVIOUS
<1>2. /\ {"name", "state", "read_queue"} \subseteq DOMAIN w
      /\ w.name = f.name /\ w.state = f.state /\ w.read_queue = f.read_queue
  BY <1>1 DEF write_circular_buffer
<1>3. PICK m : m = Served(w)
  OBVIOUS
<1>4. m \in 0 .. Len(f.read_queue)
  BY <1>2, <1>3, ServedIs
<1>5. PICK d : d = SubSeq(f.read_queue, m + 1, Len(f.read_queue))
  OBVIOUS
<1>6. d \in Seq(Proc) /\ IsInjective(d) /\ ToSet(d) \subseteq ToSet(f.read_queue)
  BY <1>4, <1>5, Serves
<1>7. s = [After(w, m) EXCEPT !.read_queue = d]
  BY <1>1, <1>2, <1>3, <1>5 DEF send_to_readers
<1>8. PICK a : a = After(w, m)
  OBVIOUS
<1>9. {"name", "state", "read_queue"} \subseteq DOMAIN a /\ a.name = w.name /\ a.state = w.state
  BY <1>2, <1>8 DEF After
<1>10. /\ {"name", "state", "read_queue"} \subseteq DOMAIN s
       /\ s.name = a.name /\ s.state = a.state /\ s.read_queue = d
  BY <1>7, <1>8, <1>9
<1> QED
  BY <1>2, <1>6, <1>9, <1>10

-----------------------------------------------------------------------------
(* The steps. *)

(* What a step leaves of the other fifos is as it was.                     *)
LEMMA OneFifoChanges ==
    ASSUME FifoTypes, NEW k \in Key, DOMAIN open_fifos' = Key,
           \A j \in Key \ {k} : open_fifos'[j] = open_fifos[j],
           {"name", "state", "read_queue"} \subseteq DOMAIN open_fifos'[k],
           open_fifos'[k].state \in {"OPEN", "CLOSED"},
           open_fifos'[k].read_queue \in Seq(Proc), IsInjective(open_fifos'[k].read_queue),
           open_fifos'[k].state = "CLOSED" => open_fifos'[k].read_queue = <<>>,
           alive' \subseteq Proc, st' \in [Proc -> {"READY", "BLOCKED", "DELETE"}],
           reads' \in [Proc -> Key \cup {NULL}]
    PROVE  /\ FifoTypes'
           /\ \A p \in Proc, j \in Key \ {k} : Waits(p, j)' <=> Waits(p, j)
<1>1. \A j \in Key : /\ {"name", "state", "read_queue"} \subseteq DOMAIN open_fifos'[j]
                     /\ open_fifos'[j].state \in {"OPEN", "CLOSED"}
                     /\ open_fifos'[j].read_queue \in Seq(Proc)
                     /\ IsInjective(open_fifos'[j].read_queue)
                     /\ open_fifos'[j].state = "CLOSED" => open_fifos'[j].read_queue = <<>>
  <2> TAKE j \in Key
  <2>1. CASE j = k
    BY <2>1
  <2>2. CASE j # k
    BY <2>2 DEF FifoTypes
  <2> QED
    BY <2>1, <2>2
<1> QED
  BY <1>1 DEF FifoTypes, Waits

(* A closed entry has no readers.                                          *)
LEMMA ClosedIs ==
    /\ {"name", "state", "read_queue"} \subseteq DOMAIN Closed
    /\ Closed.state = "CLOSED" /\ Closed.read_queue = <<>>
BY DEF Closed, create_new_fifo

(* What unblock does (process.c).                                          *)
LEMMA Unblocked ==
    ASSUME st \in [Proc -> {"READY", "BLOCKED", "DELETE"}], NEW P, st' = unblock(P)
    PROVE  /\ st' \in [Proc -> {"READY", "BLOCKED", "DELETE"}]
           /\ \A p \in Proc : /\ p \notin P => st'[p] = st[p]
                              /\ st'[p] = "BLOCKED" => st[p] = "BLOCKED" /\ p \notin P
                              /\ st'[p] = "DELETE" <=> st[p] = "DELETE"
                              /\ p \in P => st'[p] # "BLOCKED"
BY DEF unblock

(* Opening a fifo leaves the queues as they were.                          *)
LEMMA OpenKeepsReaders ==
    ASSUME ReadersInv, NEW p \in Proc, NEW n, fifo_open(p, n)
    PROVE  ReadersInv'
<1>1. PICK k \in Key : k = Found(n)
  BY DEF fifo_open
<1>2. /\ open_fifos' = [open_fifos EXCEPT ![k] =
                          IF @.state = "OPEN" THEN @ ELSE create_new_fifo(n)]
      /\ UNCHANGED <<alive, st, reads>>
  BY <1>1 DEF fifo_open
<1>3. FifoTypes
  BY DEF ReadersInv
<1>4. /\ DOMAIN open_fifos' = Key
      /\ \A j \in Key \ {k} : open_fifos'[j] = open_fifos[j]
      /\ open_fifos'[k] = IF open_fifos[k].state = "OPEN" THEN open_fifos[k] ELSE create_new_fifo(n)
  BY <1>2, <1>3 DEF FifoTypes
<1>5. /\ {"name", "state", "read_queue"} \subseteq DOMAIN create_new_fifo(n)
      /\ create_new_fifo(n).state = "OPEN" /\ create_new_fifo(n).read_queue = <<>>
      /\ create_new_fifo(n).read_queue \in Seq(Proc) /\ IsInjective(create_new_fifo(n).read_queue)
  BY DEF create_new_fifo, IsInjective
<1>6. /\ {"name", "state", "read_queue"} \subseteq DOMAIN open_fifos'[k]
      /\ open_fifos'[k].state = "OPEN"
      /\ open_fifos'[k].read_queue = open_fifos[k].read_queue
  BY <1>3, <1>4, <1>5 DEF FifoTypes
<1>7. FifoTypes' /\ \A q \in Proc, j \in Key \ {k} : Waits(q, j)' <=> Waits(q, j)
  BY <1>2, <1>3, <1>4, <1>6, OneFifoChanges DEF FifoTypes
<1>8. \A q \in Proc : Waits(q, k)' <=> Waits(q, k)
  BY <1>6 DEF Waits
<1>9. \A q \in Proc, j \in Key : Waits(q, j)' <=> Waits(q, j)
  BY <1>7, <1>8
<1> QED
  BY <1>2, <1>7, <1>9 DEF ReadersInv, QueuedReads, OneQueue, SleeperWaits, GoneWasKilled

(* A step of one fifo that wakes whoever leaves its queue.                 *)
LEMMA WakingKeepsReaders ==
    ASSUME ReadersInv, NEW k \in Key, DOMAIN open_fifos' = Key,
           \A j \in Key \ {k} : open_fifos'[j] = open_fifos[j],
           {"name", "state", "read_queue"} \subseteq DOMAIN open_fifos'[k],
           open_fifos'[k].state \in {"OPEN", "CLOSED"},
           open_fifos'[k].read_queue \in Seq(Proc), IsInjective(open_fifos'[k].read_queue),
           open_fifos'[k].state = "CLOSED" => open_fifos'[k].read_queue = <<>>,
           ToSet(open_fifos'[k].read_queue) \subseteq ToSet(open_fifos[k].read_queue),
           NEW P, P = ToSet(open_fifos[k].read_queue) \ ToSet(open_fifos'[k].read_queue),
           st' = unblock(P), UNCHANGED <<alive, reads>>
    PROVE  ReadersInv'
<1>1. /\ FifoTypes /\ alive' \subseteq Proc /\ reads' \in [Proc -> Key \cup {NULL}]
      /\ st \in [Proc -> {"READY", "BLOCKED", "DELETE"}]
  BY DEF ReadersInv, FifoTypes
<1>2. /\ st' \in [Proc -> {"READY", "BLOCKED", "DELETE"}]
      /\ \A p \in Proc : /\ p \notin P => st'[p] = st[p]
                         /\ st'[p] = "BLOCKED" => st[p] = "BLOCKED" /\ p \notin P
                         /\ st'[p] = "DELETE" <=> st[p] = "DELETE"
  BY <1>1, Unblocked
<1>3. /\ FifoTypes'
      /\ \A q \in Proc, j \in Key \ {k} : Waits(q, j)' <=> Waits(q, j)
  BY <1>1, <1>2, OneFifoChanges
<1>4. \A q \in Proc : Waits(q, k)' <=> Waits(q, k) /\ q \notin P
  BY DEF Waits
<1>5. QueuedReads'
  <2> SUFFICES ASSUME NEW q \in Proc, NEW j \in Key, Waits(q, j)'
               PROVE  (st'[q] = "BLOCKED" /\ reads'[q] = j) \/ st'[q] = "DELETE"
    BY DEF QueuedReads
  <2>1. Waits(q, j)
    BY <1>3, <1>4
  <2>2. (st[q] = "BLOCKED" /\ reads[q] = j) \/ st[q] = "DELETE"
    BY <2>1 DEF ReadersInv, QueuedReads
  <2>3. q \notin P
    <3>1. CASE j = k
      BY <1>4, <3>1
    <3>2. CASE j # k
      <4>1. ~Waits(q, k)
        BY <2>1, <3>2 DEF ReadersInv, OneQueue
      <4> QED
        BY <4>1 DEF Waits
    <3> QED
      BY <3>1, <3>2
  <2> QED
    BY <1>2, <2>2, <2>3
<1>6. SleeperWaits'
  <2> SUFFICES ASSUME NEW q \in Proc, NEW j \in Key, st'[q] = "BLOCKED", reads'[q] = j
               PROVE  Waits(q, j)'
    BY DEF SleeperWaits
  <2>1. st[q] = "BLOCKED" /\ q \notin P /\ reads[q] = j
    BY <1>2
  <2>2. Waits(q, j)
    BY <2>1 DEF ReadersInv, SleeperWaits
  <2> QED
    BY <1>3, <1>4, <2>1, <2>2
<1>7. GoneWasKilled'
  BY <1>2 DEF ReadersInv, GoneWasKilled
<1>8. OneQueue'
  BY <1>3, <1>4 DEF ReadersInv, OneQueue
<1> QED
  BY <1>3, <1>5, <1>6, <1>7, <1>8 DEF ReadersInv

(* A write serves readers from the front of the queue and wakes them.      *)
LEMMA WriteKeepsReaders ==
    ASSUME ReadersInv, NEW p \in Proc, NEW k \in Key, NEW source, fifo_write(p, k, source)
    PROVE  ReadersInv'
<1>1. PICK s : s = send_to_readers(write_circular_buffer(open_fifos[k], source)).f
  OBVIOUS
<1>2. /\ open_fifos' = [open_fifos EXCEPT ![k] = s]
      /\ st' = unblock(ToSet(open_fifos[k].read_queue) \ ToSet(s.read_queue))
      /\ open_fifos[k].state = "OPEN" /\ UNCHANGED <<alive, reads>>
  BY <1>1 DEF fifo_write, is_open
<1>3. /\ {"name", "state", "read_queue"} \subseteq DOMAIN open_fifos[k]
      /\ open_fifos[k].read_queue \in Seq(Proc) /\ IsInjective(open_fifos[k].read_queue)
      /\ DOMAIN open_fifos = Key
  BY DEF ReadersInv, FifoTypes
<1>4. /\ {"name", "state", "read_queue"} \subseteq DOMAIN s
      /\ s.name = open_fifos[k].name /\ s.state = open_fifos[k].state
      /\ s.read_queue \in Seq(Proc) /\ IsInjective(s.read_queue)
      /\ ToSet(s.read_queue) \subseteq ToSet(open_fifos[k].read_queue)
  BY <1>1, <1>3, WriteKeepsFifo
<1>5. /\ DOMAIN open_fifos' = Key /\ open_fifos'[k] = s
      /\ \A j \in Key \ {k} : open_fifos'[j] = open_fifos[j]
  BY <1>2, <1>3
<1>6. s.state \in {"OPEN", "CLOSED"} /\ (s.state = "CLOSED" => s.read_queue = <<>>)
  BY <1>2, <1>4
<1> QED
  BY <1>2, <1>4, <1>5, <1>6, WakingKeepsReaders

(* A close wakes the whole queue.                                          *)
LEMMA CloseKeepsReaders ==
    ASSUME ReadersInv, NEW p \in Proc, NEW k \in Key, fifo_close(p, k)
    PROVE  ReadersInv'
<1>1. PICK s : s = Closed
  OBVIOUS
<1>2. /\ open_fifos' = [open_fifos EXCEPT ![k] = s]
      /\ st' = unblock(ToSet(open_fifos[k].read_queue)) /\ UNCHANGED <<alive, reads>>
  BY <1>1 DEF fifo_close
<1>3. DOMAIN open_fifos = Key
  BY DEF ReadersInv, FifoTypes
<1>4. /\ {"name", "state", "read_queue"} \subseteq DOMAIN s
      /\ s.state = "CLOSED" /\ s.read_queue = <<>>
  BY <1>1, ClosedIs
<1>5. /\ DOMAIN open_fifos' = Key /\ open_fifos'[k] = s
      /\ \A j \in Key \ {k} : open_fifos'[j] = open_fifos[j]
  BY <1>2, <1>3
<1>6. s.read_queue \in Seq(Proc) /\ IsInjective(s.read_queue) /\ ToSet(s.read_queue) = {}
  BY <1>4 DEF IsInjective, ToSet
<1> QED
  BY <1>2, <1>4, <1>5, <1>6, WakingKeepsReaders

(* A reader that finds nothing goes to the end of the queue and sleeps.    *)
LEMMA ReadKeepsReaders ==
    ASSUME NullIsNoKey, ReadersInv, NEW p \in Proc, NEW k \in Key, NEW n, fifo_read(p, k, n)
    PROVE  ReadersInv'
<1> DEFINE q == open_fifos[k].read_queue
<1>1. /\ {"name", "state", "read_queue"} \subseteq DOMAIN open_fifos[k] /\ DOMAIN open_fifos = Key
      /\ open_fifos[k].state = "OPEN" /\ p \in alive /\ st[p] = "READY" /\ reads[p] = NULL
      /\ q \in Seq(Proc) /\ IsInjective(q)
      /\ st \in [Proc -> {"READY", "BLOCKED", "DELETE"}] /\ reads \in [Proc -> Key \cup {NULL}]
      /\ alive' = alive /\ alive \subseteq Proc
  BY DEF ReadersInv, FifoTypes, fifo_read, is_open, Runs
<1>2. CASE /\ open_fifos' = [open_fifos EXCEPT ![k] = read_circular_buffer(@, n)]
           /\ UNCHANGED <<st, reads>>
  <2>1. PICK s : s = read_circular_buffer(open_fifos[k], n)
    OBVIOUS
  <2>2. /\ {"name", "state", "read_queue"} \subseteq DOMAIN s
        /\ s.state = open_fifos[k].state /\ s.read_queue = open_fifos[k].read_queue
    BY <1>1, <2>1 DEF read_circular_buffer
  <2>3. /\ DOMAIN open_fifos' = Key /\ open_fifos'[k] = s
        /\ \A j \in Key \ {k} : open_fifos'[j] = open_fifos[j]
    BY <1>1, <1>2, <2>1
  <2>4. FifoTypes
    BY DEF ReadersInv
  <2>5. FifoTypes' /\ \A r \in Proc, j \in Key \ {k} : Waits(r, j)' <=> Waits(r, j)
    BY <1>1, <1>2, <2>2, <2>3, <2>4, OneFifoChanges
  <2>6. \A r \in Proc : Waits(r, k)' <=> Waits(r, k)
    BY <2>2, <2>3 DEF Waits
  <2>7. \A r \in Proc, j \in Key : Waits(r, j)' <=> Waits(r, j)
    BY <2>5, <2>6
  <2> QED
    BY <1>1, <1>2, <2>5, <2>7 DEF ReadersInv, QueuedReads, OneQueue, SleeperWaits, GoneWasKilled
<1>3. CASE /\ open_fifos' = [open_fifos EXCEPT ![k].read_queue = Append(@, p)]
           /\ st' = [st EXCEPT ![p] = "BLOCKED"] /\ reads' = [reads EXCEPT ![p] = k]
  <2>1. PICK d : d = Append(q, p)
    OBVIOUS
  <2>2. PICK s : s = [open_fifos[k] EXCEPT !.read_queue = d]
    OBVIOUS
  <2>3. /\ {"name", "state", "read_queue"} \subseteq DOMAIN s
        /\ s.state = "OPEN" /\ s.read_queue = d
    BY <1>1, <2>2
  <2>4. /\ DOMAIN open_fifos' = Key /\ open_fifos'[k] = s
        /\ \A j \in Key \ {k} : open_fifos'[j] = open_fifos[j]
    BY <1>1, <1>3, <2>1, <2>2
  <2>5. \A j \in Key : ~Waits(p, j)
    BY <1>1 DEF ReadersInv, QueuedReads
  <2>6. /\ d \in Seq(Proc) /\ IsInjective(d)
        /\ \A r : r \in ToSet(d) <=> r \in ToSet(q) \/ r = p
    <3>1. p \notin ToSet(q)
      BY <2>5 DEF Waits
    <3> HIDE DEF q
    <3> QED
      BY <1>1, <2>1, <3>1, Joins
  <2>7. /\ st' \in [Proc -> {"READY", "BLOCKED", "DELETE"}] /\ reads' \in [Proc -> Key \cup {NULL}]
        /\ \A r \in Proc : /\ st'[r] = IF r = p THEN "BLOCKED" ELSE st[r]
                           /\ reads'[r] = IF r = p THEN k ELSE reads[r]
    BY <1>1, <1>3
  <2>8. FifoTypes
    BY DEF ReadersInv
  <2>9. FifoTypes' /\ \A r \in Proc, j \in Key \ {k} : Waits(r, j)' <=> Waits(r, j)
    BY <1>1, <2>3, <2>4, <2>6, <2>7, <2>8, OneFifoChanges
  <2>10. \A r \in Proc : Waits(r, k)' <=> Waits(r, k) \/ r = p
    BY <2>3, <2>4, <2>6 DEF Waits
  <2>11. \A r \in Proc, j \in Key : Waits(r, j)' <=> Waits(r, j) \/ (r = p /\ j = k)
    BY <2>9, <2>10
  <2>12. QueuedReads'
    BY <2>5, <2>7, <2>11 DEF ReadersInv, QueuedReads
  <2>13. SleeperWaits'
    BY <2>7, <2>11 DEF ReadersInv, SleeperWaits
  <2>14. GoneWasKilled'
    BY <1>1, <2>7 DEF ReadersInv, GoneWasKilled
  <2>15. OneQueue'
    BY <2>5, <2>11 DEF ReadersInv, OneQueue
  <2> QED
    BY <2>9, <2>12, <2>13, <2>14, <2>15 DEF ReadersInv
<1> QED
  BY <1>2, <1>3 DEF fifo_read

(* The fifos stay as they are, and who is not in a queue may return, be    *)
(* killed, end or begin; who is in one may be killed.                      *)
LEMMA ProcessesKeepReaders ==
    ASSUME NullIsNoKey, ReadersInv, NEW p \in Proc,
           \/ ReadReturns(p) \/ destroy_process(p) \/ create_process(p)
           \/ \E q \in Proc : kill_process(q, p)
    PROVE  ReadersInv'
<1>1. /\ st \in [Proc -> {"READY", "BLOCKED", "DELETE"}] /\ reads \in [Proc -> Key \cup {NULL}]
      /\ alive \subseteq Proc
  BY DEF ReadersInv, FifoTypes
<1>2. open_fifos' = open_fifos
  BY DEF ReadReturns, destroy_process, create_process, kill_process
<1>3. \A r \in Proc, j \in Key : Waits(r, j)' <=> Waits(r, j)
  BY <1>2 DEF Waits
<1>4. /\ st' \in [Proc -> {"READY", "BLOCKED", "DELETE"}] /\ reads' \in [Proc -> Key \cup {NULL}]
      /\ alive' \subseteq Proc
      /\ \A r \in Proc \ {p} : st'[r] = st[r] /\ reads'[r] = reads[r] /\ (r \in alive' <=> r \in alive)
  BY <1>1 DEF ReadReturns, destroy_process, create_process, kill_process, Forgotten
<1>5. FifoTypes'
  BY <1>2, <1>4 DEF ReadersInv, FifoTypes
<1>6. /\ \A j \in Key : Waits(p, j) => st'[p] = "DELETE"
      /\ st'[p] # "BLOCKED"
      /\ p \notin alive' => st'[p] = "DELETE"
  <2>1. CASE ReadReturns(p)
    <3>1. st[p] = "READY" /\ st' = st /\ p \in alive /\ alive' = alive
      BY <2>1 DEF ReadReturns
    <3> QED
      BY <1>1, <3>1 DEF ReadersInv, QueuedReads
  <2>2. CASE destroy_process(p)
    <3>1. st[p] = "DELETE" /\ st' = st /\ reads' = reads
      BY <2>2 DEF destroy_process
    <3> QED
      BY <3>1 DEF ReadersInv, QueuedReads
  <2>3. CASE create_process(p)
    <3>1. st'[p] = "READY" /\ p \in alive' /\ \A j \in Key : ~Waits(p, j)
      BY <1>1, <2>3 DEF create_process, Waits
    <3> QED
      BY <3>1
  <2>4. CASE \E q \in Proc : kill_process(q, p)
    <3>1. st'[p] = "DELETE"
      BY <1>1, <2>4 DEF kill_process
    <3> QED
      BY <3>1
  <2> QED
    BY <2>1, <2>2, <2>3, <2>4
<1>7. QueuedReads' /\ OneQueue' /\ SleeperWaits' /\ GoneWasKilled'
  <2>1. QueuedReads'
    BY <1>3, <1>4, <1>6 DEF ReadersInv, QueuedReads
  <2>2. SleeperWaits'
    BY <1>3, <1>4, <1>6 DEF ReadersInv, SleeperWaits
  <2>3. GoneWasKilled'
    BY <1>4, <1>6 DEF ReadersInv, GoneWasKilled
  <2>4. OneQueue'
    BY <1>3 DEF ReadersInv, OneQueue
  <2> QED
    BY <2>1, <2>2, <2>3, <2>4
<1> QED
  BY <1>5, <1>7 DEF ReadersInv

(* The invariant is inductive.                                             *)
LEMMA ReadersInvariant ==
    ASSUME NullIsNoKey
    PROVE  /\ Init => ReadersInv
           /\ ReadersInv /\ [Next]_vars => ReadersInv'
<1>1. ASSUME Init PROVE ReadersInv
  <2>1. /\ alive = Proc /\ st = [p \in Proc |-> "READY"] /\ reads = [p \in Proc |-> NULL]
        /\ open_fifos = [k \in Key |-> Closed]
    BY <1>1 DEF Init
  <2>2. \A k \in Key : /\ {"name", "state", "read_queue"} \subseteq DOMAIN open_fifos[k]
                       /\ open_fifos[k].state = "CLOSED" /\ open_fifos[k].read_queue = <<>>
    BY <2>1, ClosedIs
  <2>3. <<>> \in Seq(Proc) /\ IsInjective(<<>>) /\ ToSet(<<>>) = {}
    BY DEF IsInjective, ToSet
  <2>4. FifoTypes
    BY <2>1, <2>2, <2>3 DEF FifoTypes
  <2>5. QueuedReads /\ OneQueue
    BY <2>2, <2>3 DEF QueuedReads, OneQueue, Waits
  <2>6. SleeperWaits /\ GoneWasKilled
    BY <2>1 DEF SleeperWaits, GoneWasKilled
  <2> QED
    BY <2>4, <2>5, <2>6 DEF ReadersInv
<1>2. ASSUME ReadersInv, [Next]_vars PROVE ReadersInv'
  <2>1. ASSUME NEW p \in Proc, NEW n \in Name, fifo_open(p, n) PROVE ReadersInv'
    BY <1>2, <2>1, OpenKeepsReaders
  <2>2. ASSUME NEW p \in Proc, NEW k \in Key, fifo_close(p, k) PROVE ReadersInv'
    BY <1>2, <2>2, CloseKeepsReaders
  <2>3. ASSUME NEW p \in Proc, NEW k \in Key, NEW n \in 1 .. MaxBytes, fifo_read(p, k, n) PROVE ReadersInv'
    BY <1>2, <2>3, ReadKeepsReaders
  <2>4. ASSUME NEW p \in Proc, NEW k \in Key, NEW source \in SeqOf(Byte, MaxBytes) \ {<<>>},
               fifo_write(p, k, source)
        PROVE  ReadersInv'
    BY <1>2, <2>4, WriteKeepsReaders
  <2>5. ASSUME NEW p \in Proc, \/ ReadReturns(p) \/ destroy_process(p) \/ create_process(p)
                               \/ \E q \in Proc : kill_process(q, p)
        PROVE  ReadersInv'
    BY <1>2, <2>5, ProcessesKeepReaders
  <2>6. CASE UNCHANGED vars
    <3>1. UNCHANGED <<open_fifos, alive, st, reads>>
      BY <2>6 DEF vars
    <3> QED
      BY <1>2, <3>1 DEF ReadersInv, FifoTypes, QueuedReads, OneQueue, SleeperWaits, GoneWasKilled, Waits
  <2> QED
    BY <1>2, <2>1, <2>2, <2>3, <2>4, <2>5, <2>6 DEF Next
<1> QED
  BY <1>1, <1>2

(* No write, close, kill or end leaves a reader asleep and forgotten: who  *)
(* sleeps in fifo_read is in the queue of the open fifo it reads, once,    *)
(* and nobody else that may run is (fifo.c:144-190, 200-223).              *)
THEOREM ReadersAreQueued ==
    ASSUME NullIsNoKey
    PROVE  Spec => []ReaderIsQueued
<1>1. (Init => ReadersInv) /\ (ReadersInv /\ [Next]_vars => ReadersInv')
  BY ReadersInvariant
<1>2. ASSUME ReadersInv PROVE ReaderIsQueued
  <2> SUFFICES ASSUME NEW p \in Proc, NEW k \in Key
               PROVE  (p \in alive /\ st[p] = "BLOCKED" /\ reads[p] = k)
                        <=> (st[p] # "DELETE" /\ open_fifos[k].state = "OPEN"
                             /\ \E i \in DOMAIN open_fifos[k].read_queue :
                                  open_fifos[k].read_queue[i] = p
                                  /\ \A j \in DOMAIN open_fifos[k].read_queue :
                                       open_fifos[k].read_queue[j] = p => j = i)
    BY DEF ReaderIsQueued
  <2>1. PICK q : q = open_fifos[k].read_queue
    OBVIOUS
  <2>2. /\ q \in Seq(Proc) /\ IsInjective(q)
        /\ open_fifos[k].state \in {"OPEN", "CLOSED"} /\ (open_fifos[k].state = "CLOSED" => q = <<>>)
        /\ Waits(p, k) <=> p \in ToSet(q)
    BY <1>2, <2>1 DEF ReadersInv, FifoTypes, Waits
  <2>3. ToSet(<<>>) = {}
    BY DEF ToSet
  <2>4. p \in ToSet(q) <=> \E i \in DOMAIN q : q[i] = p /\ \A j \in DOMAIN q : q[j] = p => j = i
    <3>1. ASSUME p \in ToSet(q) PROVE \E i \in DOMAIN q : q[i] = p /\ \A j \in DOMAIN q : q[j] = p => j = i
      <4>1. PICK i \in DOMAIN q : q[i] = p
        BY <2>2, <3>1, QueueElements
      <4>2. \A j \in DOMAIN q : q[j] = p => j = i
        BY <2>2, <4>1 DEF IsInjective
      <4> QED
        BY <4>1, <4>2
    <3>2. ASSUME NEW i \in DOMAIN q, q[i] = p PROVE p \in ToSet(q)
      BY <3>2 DEF ToSet
    <3> QED
      BY <3>1, <3>2
  <2>5. (p \in alive /\ st[p] = "BLOCKED" /\ reads[p] = k)
           <=> (st[p] # "DELETE" /\ open_fifos[k].state = "OPEN" /\ p \in ToSet(q))
    <3>1. ASSUME p \in alive, st[p] = "BLOCKED", reads[p] = k
          PROVE  st[p] # "DELETE" /\ open_fifos[k].state = "OPEN" /\ p \in ToSet(q)
      BY <1>2, <2>2, <2>3, <3>1 DEF ReadersInv, SleeperWaits
    <3>2. ASSUME st[p] # "DELETE", open_fifos[k].state = "OPEN", p \in ToSet(q)
          PROVE  p \in alive /\ st[p] = "BLOCKED" /\ reads[p] = k
      BY <1>2, <2>2, <3>2 DEF ReadersInv, QueuedReads, GoneWasKilled
    <3> QED
      BY <3>1, <3>2
  <2> QED
    BY <2>1, <2>4, <2>5
<1> QED
  BY <1>1, <1>2, PTL DEF Spec

-----------------------------------------------------------------------------
(* Names. *)

(* The scan of fifo_open stops, at the end of the array if not before.     *)
LEMMA ScanStops ==
    ASSUME NullIsNoKey, FifoTypes, NEW n
    PROVE  /\ Found(n) \in 0 .. MAX_FIFOS
           /\ \A j \in 0 .. Found(n) - 1 : open_fifos[j].state = "OPEN" /\ open_fifos[j].name # n
           /\ Found(n) \in Key => open_fifos[Found(n)].state = "CLOSED" \/ open_fifos[Found(n)].name = n
<1> DEFINE Stops(k) == k \in Key => ~(open_fifos[k].state = "OPEN" /\ open_fifos[k].name # n)
           T == {k \in 0 .. MAX_FIFOS : Stops(k)}
<1>1. T \in SUBSET Nat /\ T # {}
  <2>1. MAX_FIFOS \in 0 .. MAX_FIFOS /\ MAX_FIFOS \notin Key /\ 0 .. MAX_FIFOS \subseteq Nat
    BY DEF NullIsNoKey, Key
  <2>2. MAX_FIFOS \in T
    BY <2>1
  <2> QED
    BY <2>1, <2>2
<1>2. PICK m \in T : \A k \in T : m <= k
  BY <1>1, SmallestOf
<1>3. m \in 0 .. MAX_FIFOS /\ Stops(m)
  OBVIOUS
<1>4. ASSUME NEW j \in 0 .. m - 1
      PROVE  open_fifos[j].state = "OPEN" /\ open_fifos[j].name # n
  <2>1. j \in Key /\ j \in 0 .. MAX_FIFOS /\ ~(m <= j)
    BY <1>3 DEF Key, NullIsNoKey
  <2>2. ~Stops(j)
    BY <1>2, <2>1
  <2> QED
    BY <2>2
<1>5. \E k \in 0 .. MAX_FIFOS :
        /\ \A j \in 0 .. k - 1 : open_fifos[j].state = "OPEN" /\ open_fifos[j].name # n
        /\ k \in Key => open_fifos[k].state = "CLOSED" \/ open_fifos[k].name = n
  <2>1. m \in Key => open_fifos[m].state = "CLOSED" \/ open_fifos[m].name = n
    BY <1>3 DEF FifoTypes
  <2> QED
    BY <1>3, <1>4, <2>1
<1> QED
  BY <1>5 DEF Found

(* A step that opens nothing keeps the open ones first.                    *)
LEMMA SameNamesKeepOrder ==
    ASSUME OpenFirst, \A k \in Key : /\ open_fifos'[k].state = open_fifos[k].state
                                     /\ open_fifos'[k].name = open_fifos[k].name,
           holed' = holed
    PROVE  OpenFirst'
BY DEF OpenFirst

(* The scan of fifo_open gives out the first entry that is closed.         *)
LEMMA OpenKeepsOrder ==
    ASSUME NullIsNoKey, FifoTypes, OpenFirst, NEW p \in Proc, NEW n, fifo_open(p, n)
    PROVE  OpenFirst'
<1>1. PICK k \in Key : k = Found(n)
  BY DEF fifo_open
<1>2. /\ \A j \in 0 .. k - 1 : open_fifos[j].state = "OPEN" /\ open_fifos[j].name # n
      /\ open_fifos[k].state = "CLOSED" \/ open_fifos[k].name = n
  BY <1>1, ScanStops
<1>3. /\ open_fifos' = [open_fifos EXCEPT ![k] =
                          IF @.state = "OPEN" THEN @ ELSE create_new_fifo(n)]
      /\ holed' = holed /\ DOMAIN open_fifos = Key
  BY <1>1 DEF fifo_open, FifoTypes
<1>4. CASE open_fifos[k].state = "OPEN"
  <2>1. \A j \in Key : open_fifos'[j] = open_fifos[j]
    BY <1>3, <1>4
  <2> QED
    BY <1>3, <2>1, SameNamesKeepOrder
<1>5. CASE open_fifos[k].state = "CLOSED"
  <2>1. /\ \A j \in Key \ {k} : open_fifos'[j] = open_fifos[j]
        /\ open_fifos'[k].state = "OPEN" /\ open_fifos'[k].name = n
    BY <1>3, <1>5 DEF create_new_fifo
  <2>2. \A j \in Key : j < k => open_fifos[j].state = "OPEN" /\ open_fifos[j].name # n
    BY <1>2 DEF Key, NullIsNoKey
  <2>3. SUFFICES ASSUME ~holed, NEW i \in Key, NEW j \in Key, open_fifos'[j].state = "OPEN", i < j
                 PROVE  open_fifos'[i].state = "OPEN" /\ open_fifos'[i].name # open_fifos'[j].name
    BY <1>3 DEF OpenFirst
  <2>4. CASE j = k
    <3>1. i # k
      BY <2>3, <2>4 DEF Key
    <3> QED
      BY <2>1, <2>2, <2>3, <2>4, <3>1
  <2>5. CASE j # k
    <3>1. open_fifos[j].state = "OPEN"
      BY <2>1, <2>3, <2>5
    <3>2. ~(k < j)
      BY <1>5, <2>3, <3>1 DEF OpenFirst
    <3>3. i # k
      BY <2>3, <3>2
    <3> QED
      BY <2>1, <2>3, <2>5, <3>1, <3>3 DEF OpenFirst
  <2> QED
    BY <2>4, <2>5
<1> QED
  BY <1>4, <1>5 DEF FifoTypes

(* A close takes the last of the open ones, or makes a hole.               *)
LEMMA CloseKeepsOrder ==
    ASSUME NullIsNoKey, FifoTypes, OpenFirst, NEW p \in Proc, NEW k \in Key, fifo_close(p, k)
    PROVE  OpenFirst'
<1>1. /\ open_fifos' = [open_fifos EXCEPT ![k] = Closed]
      /\ holed' = (holed \/ \E j \in Key : j > k /\ open_fifos[j].state = "OPEN")
      /\ DOMAIN open_fifos = Key /\ {"name", "state", "read_queue"} \subseteq DOMAIN open_fifos[k]
  BY DEF fifo_close, FifoTypes
<1>2. /\ \A j \in Key \ {k} : open_fifos'[j] = open_fifos[j]
      /\ open_fifos'[k].state = "CLOSED"
  BY <1>1, ClosedIs
<1> SUFFICES ASSUME ~holed', NEW i \in Key, NEW j \in Key, open_fifos'[j].state = "OPEN", i < j
             PROVE  open_fifos'[i].state = "OPEN" /\ open_fifos'[i].name # open_fifos'[j].name
  BY DEF OpenFirst
<1>3. ~holed /\ \A l \in Key : l > k => open_fifos[l].state # "OPEN"
  BY <1>1
<1>4. j # k /\ open_fifos[j].state = "OPEN"
  BY <1>2
<1>5. i # k
  BY <1>3, <1>4
<1> QED
  BY <1>2, <1>3, <1>4, <1>5 DEF OpenFirst

(* The open fifos come first as long as no hole was made.                  *)
LEMMA OrderInvariant ==
    ASSUME NullIsNoKey
    PROVE  /\ Init => OpenFirst
           /\ ReadersInv /\ OpenFirst /\ [Next]_vars => OpenFirst'
<1>1. ASSUME Init PROVE OpenFirst
  <2>1. \A k \in Key : open_fifos[k].state = "CLOSED"
    BY <1>1, ClosedIs DEF Init
  <2> QED
    BY <2>1 DEF OpenFirst
<1>2. ASSUME ReadersInv, OpenFirst, [Next]_vars PROVE OpenFirst'
  <2>0. FifoTypes
    BY <1>2 DEF ReadersInv
  <2>1. ASSUME NEW p \in Proc, NEW n \in Name, fifo_open(p, n) PROVE OpenFirst'
    BY <1>2, <2>0, <2>1, OpenKeepsOrder
  <2>2. ASSUME NEW p \in Proc, NEW k \in Key, fifo_close(p, k) PROVE OpenFirst'
    BY <1>2, <2>0, <2>2, CloseKeepsOrder
  <2>3. ASSUME NEW p \in Proc, NEW k \in Key, NEW n \in 1 .. MaxBytes, fifo_read(p, k, n) PROVE OpenFirst'
    <3>1. /\ \/ open_fifos' = [open_fifos EXCEPT ![k] = read_circular_buffer(@, n)]
             \/ open_fifos' = [open_fifos EXCEPT ![k].read_queue = Append(@, p)]
          /\ holed' = holed
      BY <2>3 DEF fifo_read
    <3>2. \A j \in Key : open_fifos'[j].state = open_fifos[j].state /\ open_fifos'[j].name = open_fifos[j].name
      <4> TAKE j \in Key
      <4>1. DOMAIN open_fifos = Key /\ {"name", "state", "read_queue"} \subseteq DOMAIN open_fifos[k]
        BY <2>0 DEF FifoTypes
      <4>2. CASE j = k
        <5>1. CASE open_fifos' = [open_fifos EXCEPT ![k] = read_circular_buffer(@, n)]
          <6>1. open_fifos'[k] = read_circular_buffer(open_fifos[k], n)
            BY <4>1, <5>1
          <6> QED
            BY <4>1, <4>2, <6>1 DEF read_circular_buffer
        <5>2. CASE open_fifos' = [open_fifos EXCEPT ![k].read_queue = Append(@, p)]
          BY <4>1, <4>2, <5>2
        <5> QED
          BY <3>1, <5>1, <5>2
      <4>3. CASE j # k
        BY <3>1, <4>1, <4>3
      <4> QED
        BY <4>2, <4>3
    <3> QED
      BY <1>2, <3>1, <3>2, SameNamesKeepOrder
  <2>4. ASSUME NEW p \in Proc, NEW k \in Key, NEW source \in SeqOf(Byte, MaxBytes) \ {<<>>},
               fifo_write(p, k, source)
        PROVE  OpenFirst'
    <3>1. PICK s : s = send_to_readers(write_circular_buffer(open_fifos[k], source)).f
      OBVIOUS
    <3>2. /\ {"name", "state", "read_queue"} \subseteq DOMAIN open_fifos[k]
          /\ open_fifos[k].read_queue \in Seq(Proc) /\ IsInjective(open_fifos[k].read_queue)
          /\ DOMAIN open_fifos = Key
      BY <2>0 DEF FifoTypes
    <3>3. s.name = open_fifos[k].name /\ s.state = open_fifos[k].state
      BY <3>1, <3>2, WriteKeepsFifo
    <3>4. open_fifos' = [open_fifos EXCEPT ![k] = s] /\ holed' = holed
      BY <2>4, <3>1 DEF fifo_write
    <3>5. \A j \in Key : open_fifos'[j].state = open_fifos[j].state /\ open_fifos'[j].name = open_fifos[j].name
      BY <3>2, <3>3, <3>4
    <3> QED
      BY <1>2, <3>4, <3>5, SameNamesKeepOrder
  <2>5. CASE \/ \E p \in Proc : ReadReturns(p) \/ destroy_process(p) \/ create_process(p)
             \/ \E p, q \in Proc : kill_process(p, q)
             \/ UNCHANGED vars
    <3>1. open_fifos' = open_fifos /\ holed' = holed
      BY <2>5 DEF ReadReturns, destroy_process, create_process, kill_process, vars
    <3> QED
      BY <1>2, <3>1, SameNamesKeepOrder
  <2> QED
    BY <1>2, <2>1, <2>2, <2>3, <2>4, <2>5 DEF Next
<1> QED
  BY <1>1, <1>2

(* As long as no fifo is closed before one that is open, a name leads to   *)
(* one fifo only: the scan of fifo_open finds it before a closed entry     *)
(* (fifo.c:57-82).                                                         *)
THEOREM NamesAreUnique ==
    ASSUME NullIsNoKey
    PROVE  Spec => []NameHasOneFifo
<1>1. (Init => ReadersInv) /\ (ReadersInv /\ [Next]_vars => ReadersInv')
  BY ReadersInvariant
<1>2. (Init => OpenFirst) /\ (ReadersInv /\ OpenFirst /\ [Next]_vars => OpenFirst')
  BY OrderInvariant
<1>3. ASSUME OpenFirst PROVE NameHasOneFifo
  <2> SUFFICES ASSUME ~holed, NEW j \in Key, NEW k \in Key,
                      open_fifos[j].state = "OPEN", open_fifos[k].state = "OPEN",
                      open_fifos[j].name = open_fifos[k].name
               PROVE  j = k
    BY DEF NameHasOneFifo
  <2>1. j \in Int /\ k \in Int
    BY DEF Key
  <2>2. ~(j < k) /\ ~(k < j)
    BY <1>3 DEF OpenFirst
  <2> QED
    BY <2>1, <2>2
<1> QED
  BY <1>1, <1>2, <1>3, PTL DEF Spec

-----------------------------------------------------------------------------
(* The circular buffer. *)

(* include/fifo.h:7: a buffer has 1024 bytes.                              *)
BuffersHaveRoom == BUF_SIZE \in Nat \ {0} /\ MaxBytes \in Nat

Wrap(x) == IF x < BUF_SIZE THEN x ELSE x - BUF_SIZE

(* The bytes are from the one to be read next up to the next free slot.    *)
Ring(f) ==
    /\ {"buffer", "buf_fill", "current", "free_slot"} \subseteq DOMAIN f
    /\ f.buf_fill \in 0 .. BUF_SIZE /\ f.current \in Slot
    /\ f.free_slot = Wrap(f.current + f.buf_fill)

(* The i-th of them.                                                       *)
At(f, i) == f.buffer[Wrap(f.current + i - 1)]

Bytes(f) == [i \in 1 .. f.buf_fill |-> At(f, i)]

(* The indices wrap around at most once.                                   *)
LEMMA Wraps ==
    ASSUME BuffersHaveRoom, NEW x \in 0 .. 2 * BUF_SIZE - 1
    PROVE  x % BUF_SIZE = Wrap(x) /\ Wrap(x) \in Slot
<1>1. x % BUF_SIZE = IF x < BUF_SIZE THEN x ELSE x - BUF_SIZE
  BY WrapsOnce DEF BuffersHaveRoom
<1> QED
  BY <1>1 DEF BuffersHaveRoom, Wrap, Slot

(* What is to be read from an open fifo, without the remainder.            *)
LEMMA ContentIsBytes ==
    ASSUME BuffersHaveRoom, NEW f, Ring(f), f.state # "CLOSED"
    PROVE  Content(f) = Bytes(f)
<1>1. f.buf_fill \in 0 .. BUF_SIZE /\ f.current \in 0 .. BUF_SIZE - 1 /\ BUF_SIZE \in Nat \ {0}
  BY DEF BuffersHaveRoom, Ring, Slot
<1>2. ASSUME NEW i \in 1 .. f.buf_fill
      PROVE  (f.current + i - 1) % BUF_SIZE = Wrap(f.current + i - 1)
  <2>1. f.current + i - 1 \in 0 .. 2 * BUF_SIZE - 1
    BY <1>1
  <2> QED
    BY <2>1, Wraps
<1>3. Content(f) = [i \in 1 .. f.buf_fill |-> f.buffer[(f.current + i - 1) % BUF_SIZE]]
  BY DEF Content
<1> QED
  BY <1>2, <1>3 DEF Bytes, At

(* How much of the buffer the first memcpy of two covers.                  *)
LEMMA FirstCopy ==
    ASSUME BuffersHaveRoom, NEW from \in Slot, NEW n \in 0 .. BUF_SIZE
    PROVE  First(from, n) = IF n > 0 /\ from + n < BUF_SIZE THEN n ELSE BUF_SIZE - from
<1>1. from \in 0 .. BUF_SIZE - 1 /\ n \in 0 .. BUF_SIZE /\ BUF_SIZE \in Nat \ {0}
  BY DEF BuffersHaveRoom, Slot
<1>2. from + n \in 0 .. 2 * BUF_SIZE - 1
  BY <1>1
<1>3. (from + n) % BUF_SIZE = IF from + n < BUF_SIZE THEN from + n ELSE from + n - BUF_SIZE
  <2>1. PICK x \in 0 .. 2 * BUF_SIZE - 1 : x = from + n
    BY <1>2
  <2>2. x % BUF_SIZE = IF x < BUF_SIZE THEN x ELSE x - BUF_SIZE
    BY Wraps DEF Wrap
  <2> QED
    BY <1>1, <2>1, <2>2
<1>4. PICK w : w = (from + n) % BUF_SIZE
  OBVIOUS
<1>5. (from < w) <=> (n > 0 /\ from + n < BUF_SIZE)
  BY <1>1, <1>3, <1>4
<1> QED
  BY <1>4, <1>5 DEF First

(* The slot behind n more bytes.                                           *)
LEMMA FreeSlotMoves ==
    ASSUME NEW b \in Nat \ {0}, NEW c \in 0 .. b - 1, NEW k \in 0 .. b - 1,
           NEW n \in 1 .. b, k + n <= b,
           NEW from, from = IF c + k < b THEN c + k ELSE c + k - b,
           NEW y, y = IF from + n < b THEN from + n ELSE from + n - b
    PROVE  y = IF c + (k + n) < b THEN c + (k + n) ELSE c + (k + n) - b
<1>1. CASE c + k < b
  BY <1>1
<1>2. CASE ~(c + k < b)
  BY <1>2
<1> QED
  BY <1>1, <1>2

(* A write puts its bytes behind those that are there, wherever the buffer *)
(* wraps around, and changes none of them (fifo.c:226-245).                *)
LEMMA WrittenBytes ==
    ASSUME BuffersHaveRoom, NEW f, Ring(f), NEW source, Len(source) \in Nat \ {0},
           f.buf_fill < BUF_SIZE,
           NEW n, n = Fits(f, Len(source)),
           NEW w, w = write_circular_buffer(f, source)
    PROVE  /\ n \in 1 .. BUF_SIZE /\ n <= Len(source) /\ w.buf_fill = f.buf_fill + n
           /\ First(f.free_slot, n) <= n
           /\ Ring(w) /\ w.read_queue = f.read_queue /\ w.state = f.state
           /\ \A i \in 1 .. f.buf_fill : At(w, i) = At(f, i)
           /\ \A i \in 1 .. n : At(w, f.buf_fill + i) = source[i]
<1> DEFINE B == BUF_SIZE
           l == Len(source)
           fill == f.buf_fill
           from == f.free_slot
           cur == f.current
           first == First(from, n)
           data(i) == IF i <= l THEN source[i] ELSE NULL
<1>1. /\ B \in Nat \ {0} /\ fill \in 0 .. B - 1 /\ cur \in 0 .. B - 1 /\ l \in Nat \ {0}
      /\ from = IF cur + fill < B THEN cur + fill ELSE cur + fill - B
  BY DEF BuffersHaveRoom, Ring, Slot, Wrap
<1>2. n = IF fill + l > B THEN B - fill ELSE l
  BY DEF Fits
<1>3. /\ {"buffer", "buf_fill", "current", "free_slot"} \subseteq DOMAIN w
      /\ w.free_slot = (from + n) % B /\ w.buf_fill = fill + n /\ w.current = cur
      /\ w.buffer = [s \in Slot |->
              IF s >= from /\ s < from + first THEN data(s - from + 1)
              ELSE IF s < n - first THEN data(first + s + 1)
              ELSE f.buffer[s]]
      /\ w.read_queue = f.read_queue /\ w.state = f.state
  BY DEF Ring, write_circular_buffer
<1> HIDE DEF B, l, fill, from, cur, first
<1>4. n \in 1 .. B /\ n <= l /\ fill + n <= B /\ from \in 0 .. B - 1
  BY <1>1, <1>2
<1>5. first = IF n > 0 /\ from + n < B THEN n ELSE B - from
  <2>1. from \in Slot /\ n \in 0 .. BUF_SIZE
    BY <1>4 DEF B, Slot
  <2> QED
    BY <2>1, FirstCopy DEF B, first
<1>6. first <= n
  BY <1>1, <1>2, <1>4, <1>5
<1>7. (from + n) % B = IF from + n < B THEN from + n ELSE from + n - B
  <2>1. PICK x \in 0 .. 2 * BUF_SIZE - 1 : x = from + n
    BY <1>1, <1>4 DEF B
  <2>2. x % BUF_SIZE = IF x < BUF_SIZE THEN x ELSE x - BUF_SIZE
    BY Wraps DEF Wrap
  <2> QED
    BY <1>1, <1>4, <2>1, <2>2 DEF B
<1>8. Ring(w)
  <2>1. w.buf_fill \in 0 .. B /\ w.current \in 0 .. B - 1
    BY <1>1, <1>3, <1>4
  <2>2. w.free_slot = IF cur + (fill + n) < B THEN cur + (fill + n) ELSE cur + (fill + n) - B
    <3>1. PICK y : y = w.free_slot
      OBVIOUS
    <3>2. y = IF from + n < B THEN from + n ELSE from + n - B
      BY <1>3, <1>7, <3>1
    <3> QED
      BY <1>1, <1>4, <3>1, <3>2, FreeSlotMoves
  <2>3. w.free_slot = Wrap(w.current + w.buf_fill)
    <3>1. w.current + w.buf_fill = cur + (fill + n)
      BY <1>3
    <3>2. Wrap(cur + (fill + n)) = w.free_slot
      BY <1>1, <1>4, <2>2 DEF Wrap, B
    <3> QED
      BY <3>1, <3>2
  <2> QED
    BY <1>3, <2>1, <2>3 DEF Ring, Slot, B
<1>9. ASSUME NEW i \in 1 .. fill
      PROVE  At(w, i) = At(f, i)
  <2>1. PICK s : s = Wrap(cur + i - 1)
    OBVIOUS
  <2>2. s = IF cur + i - 1 < B THEN cur + i - 1 ELSE cur + i - 1 - B
    BY <1>1, <1>4, <2>1 DEF Wrap, B
  <2>3. s \in 0 .. B - 1 /\ ~(s >= from /\ s < from + first) /\ ~(s < n - first)
    BY <1>1, <1>4, <1>5, <2>2
  <2>4. s \in Slot
    BY <2>3 DEF Slot, B
  <2>5. w.buffer[s] = f.buffer[s]
    BY <1>3, <2>3, <2>4
  <2> QED
    BY <1>3, <2>1, <2>5 DEF At, cur
<1>10. ASSUME NEW i \in 1 .. n
       PROVE  At(w, fill + i) = source[i]
  <2>1. PICK s : s = Wrap(cur + (fill + i) - 1)
    OBVIOUS
  <2>2. s = IF cur + (fill + i) - 1 < B THEN cur + (fill + i) - 1 ELSE cur + (fill + i) - 1 - B
    BY <1>1, <1>4, <2>1 DEF Wrap, B
  <2>3. s \in 0 .. B - 1 /\ IF i <= first THEN s = from + i - 1 ELSE s = i - first - 1
    BY <1>1, <1>4, <1>5, <2>2
  <2>4. s \in Slot /\ At(w, fill + i) = w.buffer[s] /\ data(i) = source[i]
    <3>1. s \in Slot
      BY <2>3 DEF Slot, B
    <3>2. At(w, fill + i) = w.buffer[s]
      BY <1>3, <2>1 DEF At
    <3>3. i <= l
      BY <1>1, <1>4
    <3> QED
      BY <3>1, <3>2, <3>3
  <2>5. CASE i <= first
    <3>1. s >= from /\ s < from + first /\ s - from + 1 = i
      BY <1>4, <1>5, <2>3, <2>5
    <3>2. w.buffer[s] = data(i)
      BY <1>3, <2>4, <3>1
    <3> QED
      BY <2>4, <3>2
  <2>6. CASE ~(i <= first)
    <3>1. ~(s >= from /\ s < from + first) /\ s < n - first /\ first + s + 1 = i
      BY <1>1, <1>4, <1>5, <2>3, <2>6
    <3>2. w.buffer[s] = data(i)
      BY <1>3, <2>4, <3>1
    <3> QED
      BY <2>4, <3>2
  <2> QED
    BY <2>5, <2>6
<1> QED
  BY <1>3, <1>4, <1>6, <1>8, <1>9, <1>10 DEF B, l, fill, from, first

(* A read copies the bytes in their order, wherever they wrap around       *)
(* (fifo.c:248-267).                                                       *)
LEMMA CopiedBytes ==
    ASSUME BuffersHaveRoom, NEW f, Ring(f), NEW n \in Nat
    PROVE  /\ Held(f, n) \in 0 .. f.buf_fill /\ Held(f, n) <= n
           /\ n > 0 /\ f.buf_fill > 0 => Held(f, n) > 0
           /\ Copied(f, n) = [i \in 1 .. Held(f, n) |-> At(f, i)]
<1> DEFINE B == BUF_SIZE
           cur == f.current
           h == Held(f, n)
           first == First(cur, h)
<1>1. B \in Nat \ {0} /\ f.buf_fill \in 0 .. B /\ cur \in 0 .. B - 1
  BY DEF BuffersHaveRoom, Ring, Slot
<1>2. h = IF f.buf_fill < n THEN f.buf_fill ELSE n
  BY DEF Held
<1>3. Copied(f, n) = [i \in 1 .. h |-> IF i <= first THEN f.buffer[cur + i - 1] ELSE f.buffer[i - first - 1]]
  BY DEF Copied
<1> HIDE DEF B, cur, h, first
<1>4. h \in 0 .. B /\ h \in 0 .. f.buf_fill /\ h <= n /\ (n > 0 /\ f.buf_fill > 0 => h > 0)
  BY <1>1, <1>2
<1>5. first = IF h > 0 /\ cur + h < B THEN h ELSE B - cur
  <2>1. cur \in Slot /\ h \in 0 .. BUF_SIZE
    BY <1>1, <1>4 DEF Slot, B
  <2> QED
    BY <2>1, FirstCopy DEF B, first
<1>6. ASSUME NEW i \in 1 .. h
      PROVE  (IF i <= first THEN f.buffer[cur + i - 1] ELSE f.buffer[i - first - 1]) = At(f, i)
  <2>1. Wrap(cur + i - 1) = IF i <= first THEN cur + i - 1 ELSE i - first - 1
    BY <1>1, <1>4, <1>5 DEF Wrap, B
  <2> QED
    BY <2>1 DEF At, cur
<1> QED
  BY <1>3, <1>4, <1>6 DEF h

-----------------------------------------------------------------------------
(* A part of a sequence.                                                   *)
LEMMA Slice ==
    ASSUME NEW S, NEW s \in Seq(S), NEW a \in 0 .. Len(s), NEW b \in a .. Len(s)
    PROVE  /\ SubSeq(s, a + 1, b) = [j \in 1 .. b - a |-> s[a + j]]
           /\ Len(SubSeq(s, a + 1, b)) = b - a
<1>1. Len(s) \in Nat /\ DOMAIN s = 1 .. Len(s)
  BY LenProperties
<1> DEFINE l == Len(s)
           d == SubSeq(s, a + 1, b)
<1>2. l \in Nat /\ a \in 0 .. l /\ b \in a .. l
  BY <1>1
<1>3. /\ d \in Seq(S)
      /\ Len(d) = IF a + 1 <= b THEN b - (a + 1) + 1 ELSE 0
      /\ \A i \in 1 .. b - (a + 1) + 1 : d[i] = s[(a + 1) + i - 1]
  <2>1. \A i \in a + 1 .. b : s[i] \in S
    BY <1>1, ElementOfSeq
  <2>2. a + 1 \in Int /\ b \in Int
    BY <1>1
  <2> QED
    BY <2>1, <2>2, SubSeqProperties
<1>4. PICK n : n = Len(d)
  OBVIOUS
<1>5. n = b - a
  <2>1. n = IF a + 1 <= b THEN b - (a + 1) + 1 ELSE 0
    BY <1>3, <1>4
  <2> HIDE DEF l, d
  <2> QED
    BY <1>2, <2>1
<1>6. d = [j \in 1 .. n |-> d[j]]
  BY <1>3, <1>4, LenProperties
<1>7. ASSUME NEW j \in 1 .. b - a PROVE d[j] = s[a + j]
  <2>1. j \in 1 .. b - (a + 1) + 1 /\ (a + 1) + j - 1 = a + j
    <3> HIDE DEF l, d
    <3> QED
      BY <1>2
  <2> QED
    BY <1>3, <2>1
<1> HIDE DEF d
<1>8. d = [j \in 1 .. b - a |-> s[a + j]] /\ Len(d) = b - a
  BY <1>4, <1>5, <1>6, <1>7
<1> QED
  BY <1>8 DEF d

(* One sequence after the other.                                           *)
LEMMA Joined ==
    ASSUME NEW S, NEW a \in Seq(S), NEW b \in Seq(S)
    PROVE  a \o b = [i \in 1 .. Len(a) + Len(b) |-> IF i <= Len(a) THEN a[i] ELSE b[i - Len(a)]]
<1> DEFINE d == a \o b
<1>1. /\ d \in Seq(S) /\ Len(d) = Len(a) + Len(b)
      /\ \A i \in 1 .. Len(a) + Len(b) : d[i] = IF i <= Len(a) THEN a[i] ELSE b[i - Len(a)]
  BY ConcatProperties
<1> HIDE DEF d
<1>2. d = [i \in 1 .. Len(a) + Len(b) |-> d[i]]
  BY <1>1, LenProperties
<1> QED
  BY <1>1, <1>2 DEF d

(* The first bytes are taken away.                                         *)
LEMMA Advances ==
    ASSUME BuffersHaveRoom, NEW f, Ring(f), NEW h \in 0 .. f.buf_fill, NEW g,
           {"buffer", "buf_fill", "current", "free_slot"} \subseteq DOMAIN g,
           g.current = (f.current + h) % BUF_SIZE, g.buf_fill = f.buf_fill - h,
           g.buffer = f.buffer, g.free_slot = f.free_slot
    PROVE  Ring(g) /\ \A j \in 1 .. g.buf_fill : At(g, j) = At(f, h + j)
<1> DEFINE B == BUF_SIZE
           fill == f.buf_fill
           cur == f.current
<1>1. /\ B \in Nat \ {0} /\ fill \in 0 .. B /\ cur \in 0 .. B - 1 /\ h \in 0 .. fill
      /\ f.free_slot = Wrap(cur + fill)
  BY DEF BuffersHaveRoom, Ring, Slot
<1> HIDE DEF B, fill, cur
<1>2. g.current = Wrap(cur + h) /\ Wrap(cur + h) \in Slot
  <2>1. PICK x : x = cur + h
    OBVIOUS
  <2>2. x \in 0 .. 2 * BUF_SIZE - 1
    BY <1>1, <2>1 DEF B
  <2> QED
    BY <2>1, <2>2, Wraps DEF cur
<1>3. g.current = IF cur + h < B THEN cur + h ELSE cur + h - B
  BY <1>1, <1>2 DEF Wrap, B
<1>4. PICK c : c = g.current
  OBVIOUS
<1>5. c \in 0 .. B - 1 /\ c = IF cur + h < B THEN cur + h ELSE cur + h - B
  BY <1>1, <1>3, <1>4
<1>6. Wrap(c + (fill - h)) = Wrap(cur + fill)
  BY <1>1, <1>5 DEF Wrap, B
<1>7. g.buf_fill = fill - h /\ fill - h \in 0 .. B
  BY <1>1 DEF fill
<1>8. Ring(g)
  BY <1>1, <1>2, <1>4, <1>6, <1>7 DEF Ring, B
<1>9. ASSUME NEW j \in 1 .. fill - h PROVE At(g, j) = At(f, h + j)
  <2>1. Wrap(c + j - 1) = Wrap(cur + (h + j) - 1)
    BY <1>1, <1>5 DEF Wrap, B
  <2> QED
    BY <1>4, <2>1 DEF At, cur
<1> QED
  BY <1>7, <1>8, <1>9

-----------------------------------------------------------------------------
(* What is left for the readers. *)

(* What is left of `fill` bytes when each reader in turn took W[i].        *)
Counts(g, l, fill, W) ==
    g = [i \in 0 .. l |-> IF i = 0 THEN fill
                          ELSE IF g[i - 1] < W[i] THEN 0 ELSE g[i - 1] - W[i]]

(* There is such a function.                                               *)
LEMMA CountsExist ==
    ASSUME NEW l \in Nat, NEW fill, NEW W
    PROVE  \E g : Counts(g, l, fill, W)
<1> DEFINE Next1(g, i) == IF i = 0 THEN fill ELSE IF g[i - 1] < W[i] THEN 0 ELSE g[i - 1] - W[i]
           Counts1(g, n) == g = [i \in 0 .. n |-> Next1(g, i)]
           T == {n \in 0 .. l : \A g : ~Counts1(g, n)}
<1>1. ASSUME T # {} PROVE FALSE
  <2>1. T \in SUBSET Nat
    OBVIOUS
  <2>2. PICK m \in T : \A n \in T : m <= n
    BY <1>1, <2>1, SmallestOf
  <2>3. m \in 0 .. l /\ \A g : ~Counts1(g, m)
    OBVIOUS
  <2>4. m # 0
    <3> SUFFICES ASSUME m = 0 PROVE FALSE
      OBVIOUS
    <3>1. PICK g : g = [i \in 0 .. 0 |-> fill]
      OBVIOUS
    <3>2. \A i \in 0 .. 0 : Next1(g, i) = fill
      OBVIOUS
    <3>3. Counts1(g, 0)
      <4> HIDE DEF Next1
      <4> QED
        BY <3>1, <3>2
    <3> QED
      BY <2>3, <3>3
  <2>5. m - 1 \in 0 .. l /\ m - 1 \notin T
    <3>1. m - 1 \in 0 .. l /\ ~(m <= m - 1)
      BY <2>3, <2>4
    <3> QED
      BY <2>2, <3>1
  <2>6. PICK g : Counts1(g, m - 1)
    BY <2>5
  <2>7. PICK h : h = [i \in 0 .. m |-> Next1(g, i)]
    OBVIOUS
  <2>8. \A i \in 0 .. m - 1 : h[i] = g[i]
    <3> TAKE i \in 0 .. m - 1
    <3>1. i \in 0 .. m
      BY <2>3
    <3>2. h[i] = Next1(g, i)
      BY <2>7, <3>1
    <3>3. g[i] = Next1(g, i)
      BY <2>6
    <3> QED
      BY <3>2, <3>3
  <2>9. \A i \in 0 .. m : Next1(h, i) = Next1(g, i)
    <3> TAKE i \in 0 .. m
    <3>1. CASE i = 0
      BY <3>1
    <3>2. CASE i # 0
      <4>1. i - 1 \in 0 .. m - 1
        BY <2>3, <3>2
      <4>2. h[i - 1] = g[i - 1]
        BY <2>8, <4>1
      <4> QED
        BY <3>2, <4>2
    <3> QED
      BY <3>1, <3>2
  <2>10. Counts1(h, m)
    BY <2>7, <2>9
  <2> QED
    BY <2>3, <2>10
<1>2. l \in 0 .. l
  OBVIOUS
<1>3. PICK g : Counts1(g, l)
  BY <1>1, <1>2
<1> QED
  BY <1>3 DEF Counts

(* What send_to_readers leaves after each reader: the rest of it, as far   *)
(* as there is one (fifo.c:109-142).                                       *)
LEMMA LeftIs ==
    ASSUME NEW f, f.read_queue \in Seq(Proc), f.buf_fill \in Nat,
           \A i \in DOMAIN f.read_queue : want[f.read_queue[i]] \in Nat \ {0}
    PROVE  /\ Left(f)[0] = f.buf_fill
           /\ \A i \in 0 .. Len(f.read_queue) : Left(f)[i] \in 0 .. f.buf_fill
           /\ \A i \in 1 .. Len(f.read_queue) :
                Left(f)[i] = IF Left(f)[i - 1] < want[f.read_queue[i]] THEN 0
                             ELSE Left(f)[i - 1] - want[f.read_queue[i]]
<1> DEFINE q == f.read_queue
           fill == f.buf_fill
           IsLeft(g) == g = [i \in 0 .. Len(q) |-> IF i = 0 THEN fill
                              ELSE IF g[i - 1] < want[q[i]] THEN 0 ELSE g[i - 1] - want[q[i]]]
<1>1. PICK l \in Nat : l = Len(q) /\ DOMAIN q = 1 .. l
  BY LenProperties
<1>2. \E g : IsLeft(g)
  <2>1. PICK W : W = [i \in 1 .. l |-> want[q[i]]]
    OBVIOUS
  <2>2. PICK g : Counts(g, l, fill, W)
    BY CountsExist
  <2>3. \A i \in 0 .. l : i # 0 => W[i] = want[q[i]]
    BY <2>1
  <2>4. ASSUME NEW i \in 0 .. l
        PROVE  (IF i = 0 THEN fill ELSE IF g[i - 1] < W[i] THEN 0 ELSE g[i - 1] - W[i])
                 = (IF i = 0 THEN fill ELSE IF g[i - 1] < want[q[i]] THEN 0 ELSE g[i - 1] - want[q[i]])
    <3>1. CASE i = 0
      BY <3>1
    <3>2. CASE i # 0
      <4>1. W[i] = want[q[i]]
        BY <2>3, <3>2
      <4> QED
        BY <3>2, <4>1
    <3> QED
      BY <3>1, <3>2
  <2>5. IsLeft(g)
    BY <1>1, <2>2, <2>4 DEF Counts
  <2> QED
    BY <2>5
<1>3. Left(f) = CHOOSE g : IsLeft(g)
  BY DEF Left
<1>4. IsLeft(Left(f))
  <2> HIDE DEF IsLeft
  <2> QED
    BY <1>2, <1>3, Zenon
<1>5. PICK left : left = Left(f)
  OBVIOUS
<1>6. /\ left[0] = fill
      /\ \A i \in 1 .. l : left[i] = IF left[i - 1] < want[q[i]] THEN 0 ELSE left[i - 1] - want[q[i]]
  BY <1>1, <1>4, <1>5
<1>7. \A i \in 1 .. l : want[q[i]] \in Nat \ {0}
  BY <1>1
<1> DEFINE T == {i \in 0 .. l : left[i] \notin 0 .. fill}
<1> HIDE DEF q, fill
<1>8. fill \in Nat
  BY DEF fill
<1>9. ASSUME T # {} PROVE FALSE
  <2>1. T \in SUBSET Nat
    OBVIOUS
  <2>2. PICK m \in T : \A n \in T : m <= n
    BY <1>9, <2>1, SmallestOf
  <2>3. m \in 0 .. l /\ left[m] \notin 0 .. fill
    OBVIOUS
  <2>4. m # 0
    BY <1>6, <1>8, <2>3
  <2>5. m - 1 \in 0 .. l /\ m - 1 \notin T /\ m \in 1 .. l
    BY <2>2, <2>3, <2>4
  <2>6. left[m - 1] \in 0 .. fill
    BY <2>5
  <2>7. left[m] = IF left[m - 1] < want[q[m]] THEN 0 ELSE left[m - 1] - want[q[m]]
    BY <1>6, <2>5
  <2> QED
    BY <1>7, <1>8, <2>3, <2>5, <2>6, <2>7
<1>10. \A i \in 0 .. l : left[i] \in 0 .. fill
  BY <1>9
<1> QED
  BY <1>1, <1>5, <1>6, <1>10 DEF q, fill

-----------------------------------------------------------------------------
(* What it leaves after i readers starts that much further on.             *)
LEMMA AfterIs ==
    ASSUME BuffersHaveRoom, NEW w, Ring(w), {"state", "read_queue"} \subseteq DOMAIN w, w.read_queue \in Seq(Proc),
           \A i \in DOMAIN w.read_queue : want[w.read_queue[i]] \in Nat \ {0},
           NEW i \in 0 .. Len(w.read_queue), NEW a, a = After(w, i)
    PROVE  /\ Ring(a) /\ a.buf_fill = Left(w)[i] /\ a.buf_fill \in 0 .. w.buf_fill
           /\ DOMAIN a = DOMAIN w
           /\ a.state = w.state /\ a.read_queue = w.read_queue
           /\ \A j \in 1 .. a.buf_fill : At(a, j) = At(w, (w.buf_fill - Left(w)[i]) + j)
<1>1. /\ w.buf_fill \in 0 .. BUF_SIZE /\ w.current \in 0 .. BUF_SIZE - 1
      /\ {"buffer", "buf_fill", "current", "free_slot"} \subseteq DOMAIN w
      /\ BUF_SIZE \in Nat \ {0}
  BY DEF Ring, Slot, BuffersHaveRoom
<1>2. PICK x : x = Left(w)[i]
  OBVIOUS
<1>3. x \in 0 .. w.buf_fill
  BY <1>1, <1>2, LeftIs
<1>4. /\ a.buf_fill = x /\ a.current = (w.current + w.buf_fill - x) % BUF_SIZE
      /\ a.buffer = w.buffer /\ a.free_slot = w.free_slot
      /\ DOMAIN a = DOMAIN w /\ a.state = w.state /\ a.read_queue = w.read_queue
  BY <1>1, <1>2 DEF After
<1>5. PICK h \in 0 .. w.buf_fill : h = w.buf_fill - x
  BY <1>1, <1>3
<1>6. w.current + w.buf_fill - x = w.current + h /\ x = w.buf_fill - h
  BY <1>1, <1>3, <1>5
<1>7. /\ a.current = (w.current + h) % BUF_SIZE /\ a.buf_fill = w.buf_fill - h
      /\ {"buffer", "buf_fill", "current", "free_slot"} \subseteq DOMAIN a
  BY <1>1, <1>4, <1>6
<1>8. Ring(a) /\ \A j \in 1 .. a.buf_fill : At(a, j) = At(w, h + j)
  BY <1>4, <1>7, Advances
<1> QED
  BY <1>2, <1>3, <1>4, <1>5, <1>8

(* A piece between the x bytes that were left and the y that are.          *)
LEMMA PieceBetween ==
    ASSUME NEW fill \in Nat, NEW x \in 0 .. fill, NEW y \in 0 .. x
    PROVE  /\ fill - x \in 0 .. fill /\ fill - y \in fill - x .. fill
           /\ (fill - y) - (fill - x) = x - y
           /\ \A j \in 1 .. x - y : j \in 1 .. x /\ (fill - x) + j \in 1 .. fill
OBVIOUS

(* The bytes of a fifo are a sequence.                                     *)
LEMMA BytesAreListed ==
    ASSUME BuffersHaveRoom, NEW f, Ring(f), NEW S, S = {At(f, j) : j \in 1 .. f.buf_fill}
    PROVE  Bytes(f) \in Seq(S) /\ Len(Bytes(f)) = f.buf_fill /\ f.buf_fill \in Nat
<1>1. f.buf_fill \in Nat
  BY DEF Ring, BuffersHaveRoom
<1>2. Bytes(f) \in [1 .. f.buf_fill -> S]
  BY DEF Bytes
<1> QED
  BY <1>1, <1>2, FunctionIsSeq

(* The reader p takes as much as it wants of what there is after c, up to  *)
(* d, and has it if it lives.                                              *)
Piece(p, all, fill, c, d, g) ==
    /\ c < d /\ c < fill /\ d = IF c + want[p] <= fill THEN c + want[p] ELSE fill
    /\ g[p] = IF st[p] = "DELETE" THEN <<>> ELSE SubSeq(all, c + 1, d)

(* The first m of the queue get the pieces of the bytes between the cuts,  *)
(* f is what is left, and nobody waits beside a byte.                      *)
Pieces(w, q, m, all, fill, cut, f, g) ==
    /\ m \in 0 .. Len(q) /\ Len(q) \in Nat
    /\ cut \in [0 .. m -> 0 .. fill] /\ cut[0] = 0
    /\ \A i \in 1 .. m : Piece(q[i], all, fill, cut[i - 1], cut[i], g)
    /\ Bytes(f) = SubSeq(all, cut[m] + 1, fill)
    /\ Ring(f) /\ f.state = w.state /\ f.read_queue = SubSeq(q, m + 1, Len(q))
    /\ f.buf_fill # 0 => m = Len(q)
    /\ \A p \in Proc : p \notin ToSet(SubSeq(q, 1, m)) => g[p] = got[p]

Cuts(w) == [i \in 0 .. Served(w) |-> w.buf_fill - Left(w)[i]]

(* send_to_readers cuts the bytes into such pieces (fifo.c:109-150).       *)
LEMMA SentBytes ==
    ASSUME BuffersHaveRoom, NEW w, Ring(w), {"state", "read_queue"} \subseteq DOMAIN w,
           w.read_queue \in Seq(Proc), IsInjective(w.read_queue),
           \A i \in DOMAIN w.read_queue : want[w.read_queue[i]] \in Nat \ {0}
    PROVE  Pieces(w, w.read_queue, Served(w), Bytes(w), w.buf_fill, Cuts(w),
                  send_to_readers(w).f, send_to_readers(w).g)
<1> SUFFICES ASSUME NEW q \in Seq(Proc), q = w.read_queue, IsInjective(q),
                    \A i \in DOMAIN q : want[q[i]] \in Nat \ {0},
                    NEW m, m = Served(w), NEW all, all = Bytes(w),
                    NEW fill, fill = w.buf_fill,
                    NEW cut, cut = [i \in 0 .. m |-> fill - Left(w)[i]],
                    NEW f, f = send_to_readers(w).f, NEW g, g = send_to_readers(w).g
             PROVE  Pieces(w, q, m, all, fill, cut, f, g)
  BY DEF Cuts
<1>1. PICK l \in Nat : l = Len(q) /\ DOMAIN q = 1 .. l
  BY LenProperties
<1>2. BUF_SIZE \in Nat \ {0} /\ fill \in 0 .. BUF_SIZE
  BY DEF Ring, BuffersHaveRoom
<1>3. PICK left : left = Left(w)
  OBVIOUS
<1>4. /\ left[0] = fill
      /\ \A i \in 0 .. l : left[i] \in 0 .. fill
      /\ \A i \in 1 .. l : left[i] = IF left[i - 1] < want[q[i]] THEN 0 ELSE left[i - 1] - want[q[i]]
  <2>1. w.buf_fill \in Nat
    BY <1>2
  <2> QED
    BY <1>1, <1>3, <2>1, LeftIs
<1>5. m \in 0 .. l /\ (m = l \/ left[m] = 0) /\ \A i \in 0 .. m - 1 : left[i] # 0
  BY <1>1, <1>3, ServedIs
<1>6. \A i \in 1 .. l : want[q[i]] \in Nat \ {0} /\ q[i] \in Proc
  BY <1>1, ElementOfSeq
<1>7. \A i \in 0 .. m : cut[i] = fill - left[i] /\ left[i] \in 0 .. fill /\ cut[i] \in 0 .. fill
  BY <1>2, <1>3, <1>4, <1>5
<1>8. cut \in [0 .. m -> 0 .. fill] /\ cut[0] = 0
  <2>1. 0 \in 0 .. m
    BY <1>5
  <2> QED
    BY <1>2, <1>4, <1>7, <2>1
<1>9. /\ all \in Seq({At(w, j) : j \in 1 .. fill}) /\ Len(all) = fill
      /\ \A j \in 1 .. fill : all[j] = At(w, j)
  BY BytesAreListed DEF Bytes
<1>10. \A i \in 1 .. m : i - 1 \in 0 .. m /\ i \in 0 .. m /\ i \in 1 .. l /\ i - 1 \in 0 .. m - 1 /\ i - 1 \in 0 .. l
  BY <1>5
<1>11. /\ f = [After(w, m) EXCEPT !.read_queue = SubSeq(q, m + 1, Len(q))]
       /\ g = [p \in Proc |->
            IF p \notin ToSet(SubSeq(q, 1, m)) THEN got[p]
            ELSE IF st[p] = "DELETE" THEN <<>>
            ELSE LET i == CHOOSE i \in 1 .. m : q[i] = p
                 IN  Copied(After(w, i - 1), want[p])]
  BY DEF send_to_readers
<1>12. ASSUME NEW i \in 1 .. m
       PROVE  Piece(q[i], all, fill, cut[i - 1], cut[i], g)
  <2>1. /\ left[i] = IF left[i - 1] < want[q[i]] THEN 0 ELSE left[i - 1] - want[q[i]]
        /\ left[i - 1] # 0 /\ left[i - 1] \in 0 .. fill /\ left[i] \in 0 .. fill
        /\ cut[i - 1] = fill - left[i - 1] /\ cut[i] = fill - left[i]
        /\ want[q[i]] \in Nat \ {0} /\ q[i] \in Proc
    BY <1>4, <1>5, <1>6, <1>7, <1>10
  <2>2. PICK n \in Nat : n = want[q[i]] /\ n # 0
    BY <2>1
  <2>3. PICK x \in 0 .. fill, y \in 0 .. fill : x = left[i - 1] /\ y = left[i]
    BY <2>1
  <2>4. /\ cut[i - 1] = fill - x /\ cut[i] = fill - y /\ x # 0
        /\ y = IF x < n THEN 0 ELSE x - n
    BY <2>1, <2>2, <2>3
  <2>5. /\ cut[i - 1] < cut[i] /\ cut[i - 1] < fill
        /\ cut[i] = IF cut[i - 1] + n <= fill THEN cut[i - 1] + n ELSE fill
    <3>1. \A c, d : c = fill - x /\ d = fill - y =>
            c < d /\ c < fill /\ d = IF c + n <= fill THEN c + n ELSE fill
      <4>1. fill \in Nat /\ x \in Nat /\ y \in Nat /\ n \in Nat /\ x <= fill /\ x > 0 /\ n > 0
        BY <1>2, <2>2, <2>3, <2>4
      <4>2. y = IF x < n THEN 0 ELSE x - n
        BY <2>4
      <4> QED
        BY ONLY <4>1, <4>2
    <3> QED
      BY ONLY <2>4, <3>1
  <2>6. q[i] \in ToSet(SubSeq(q, 1, m)) /\ (CHOOSE j \in 1 .. m : q[j] = q[i]) = i
    <3>1. SubSeq(q, 0 + 1, m) = [j \in 1 .. m - 0 |-> q[0 + j]]
      <4>1. 0 \in 0 .. Len(q) /\ m \in 0 .. Len(q)
        BY <1>1, <1>5
      <4> QED
        BY <4>1, Slice
    <3>2. SubSeq(q, 1, m)[i] = q[i] /\ i \in DOMAIN SubSeq(q, 1, m)
      BY <1>5, <3>1
    <3>3. \A j \in 1 .. m : q[j] = q[i] => j = i
      BY <1>1, <1>10 DEF IsInjective
    <3> QED
      BY <3>2, <3>3 DEF ToSet
  <2>7. PICK a : a = After(w, i - 1)
    OBVIOUS
  <2>8. g[q[i]] = IF st[q[i]] = "DELETE" THEN <<>> ELSE Copied(a, n)
    BY <1>11, <2>1, <2>2, <2>6, <2>7
  <2>9. /\ Ring(a) /\ a.buf_fill = x
        /\ \A j \in 1 .. x : At(a, j) = At(w, (fill - x) + j)
    <3>1. i - 1 \in 0 .. Len(w.read_queue)
      BY <1>1, <1>10
    <3> QED
      BY <1>3, <2>3, <2>7, <3>1, AfterIs
  <2>10. Held(a, n) = x - y
    BY <2>2, <2>3, <2>4, <2>9 DEF Held
  <2>11. Copied(a, n) = [j \in 1 .. x - y |-> At(a, j)]
    <3>1. Copied(a, n) = [j \in 1 .. Held(a, n) |-> At(a, j)]
      BY <2>9, CopiedBytes
    <3> QED
      BY <2>10, <3>1
  <2>12. /\ fill - x \in 0 .. fill /\ fill - y \in fill - x .. fill
         /\ (fill - y) - (fill - x) = x - y
         /\ \A j \in 1 .. x - y : j \in 1 .. x /\ (fill - x) + j \in 1 .. fill
    <3>1. fill \in Nat /\ y \in 0 .. x
      BY <1>2, <2>2, <2>4
    <3> QED
      BY <3>1, PieceBetween
  <2>13. PICK c, d : c = fill - x /\ d = fill - y
    OBVIOUS
  <2>14. SubSeq(all, c + 1, d) = [j \in 1 .. d - c |-> all[c + j]]
    <3>1. c \in 0 .. Len(all) /\ d \in c .. Len(all)
      BY <1>9, <2>12, <2>13
    <3> QED
      BY <1>9, <3>1, Slice
  <2>15. d - c = x - y
    BY <2>12, <2>13
  <2>16. \A j \in 1 .. x - y : all[c + j] = At(a, j)
    BY <1>9, <2>9, <2>12, <2>13
  <2>17. c = cut[i - 1] /\ d = cut[i]
    BY <2>4, <2>13
  <2>18. SubSeq(all, cut[i - 1] + 1, cut[i]) = [j \in 1 .. x - y |-> At(a, j)]
    <3>1. SubSeq(all, c + 1, d) = [j \in 1 .. x - y |-> all[c + j]]
      BY <2>14, <2>15
    <3>2. SubSeq(all, c + 1, d) = [j \in 1 .. x - y |-> At(a, j)]
      BY <2>16, <3>1
    <3> QED
      BY <2>17, <3>2
  <2> QED
    <3>1. Copied(a, n) = SubSeq(all, cut[i - 1] + 1, cut[i])
      BY <2>11, <2>18
    <3>2. g[q[i]] = IF st[q[i]] = "DELETE" THEN <<>> ELSE SubSeq(all, cut[i - 1] + 1, cut[i])
      BY <2>8, <3>1
    <3>3. /\ cut[i - 1] < cut[i] /\ cut[i - 1] < fill
          /\ cut[i] = IF cut[i - 1] + want[q[i]] <= fill THEN cut[i - 1] + want[q[i]] ELSE fill
      BY <2>2, <2>5
    <3> QED
      BY <3>2, <3>3 DEF Piece
<1>13. PICK a : a = After(w, m)
  OBVIOUS
<1>14. PICK x \in 0 .. fill : x = left[m]
  BY <1>4, <1>5
<1>15. /\ Ring(a) /\ a.buf_fill = x /\ DOMAIN a = DOMAIN w /\ a.state = w.state
       /\ \A j \in 1 .. x : At(a, j) = At(w, (fill - x) + j)
  <2>1. m \in 0 .. Len(w.read_queue)
    BY <1>1, <1>5
  <2> QED
    BY <1>3, <1>13, <1>14, <2>1, AfterIs
<1>16. {"buffer", "buf_fill", "current", "free_slot"} \subseteq DOMAIN w
  BY DEF Ring
<1>17. /\ f.buffer = a.buffer /\ f.buf_fill = a.buf_fill /\ f.current = a.current
       /\ f.free_slot = a.free_slot /\ f.state = a.state /\ DOMAIN f = DOMAIN a
       /\ f.read_queue = SubSeq(q, m + 1, Len(q))
  <2>1. f = [a EXCEPT !.read_queue = SubSeq(q, m + 1, Len(q))]
    BY <1>11, <1>13
  <2>2. {"state", "read_queue", "buffer", "buf_fill", "current", "free_slot"} \subseteq DOMAIN a
    BY <1>15, <1>16
  <2> QED
    BY <2>1, <2>2
<1>18. Ring(f) /\ f.buf_fill = x /\ \A j \in 1 .. x : At(f, j) = At(w, (fill - x) + j)
  BY <1>15, <1>17 DEF Ring, At
<1>19. Bytes(f) = SubSeq(all, cut[m] + 1, fill)
  <2>1. m \in 0 .. m
    BY <1>5
  <2>2. PICK c \in 0 .. fill : c = cut[m] /\ c = fill - x
    BY <1>2, <1>7, <1>14, <2>1
  <2>3. SubSeq(all, c + 1, fill) = [j \in 1 .. x |-> all[c + j]]
    <3>1. c \in 0 .. Len(all) /\ fill \in c .. Len(all) /\ fill - c = x
      BY <1>2, <1>9, <2>2
    <3>2. PICK V : all \in Seq(V)
      BY <1>9
    <3>3. SubSeq(all, c + 1, fill) = [j \in 1 .. fill - c |-> all[c + j]]
      BY <3>1, <3>2, Slice
    <3> QED
      BY <3>1, <3>3
  <2>4. ASSUME NEW j \in 1 .. x PROVE all[c + j] = At(f, j)
    <3>1. c + j = (fill - x) + j /\ c + j \in 1 .. fill
      BY <1>2, <2>2
    <3> QED
      BY <1>9, <1>18, <3>1
  <2>5. Bytes(f) = [j \in 1 .. x |-> At(f, j)]
    <3>1. f.buf_fill = x
      BY <1>18
    <3> QED
      BY <3>1, Zenon DEF Bytes
  <2>6. [j \in 1 .. x |-> all[c + j]] = [j \in 1 .. x |-> At(f, j)]
    BY <2>4, Zenon
  <2> QED
    BY <2>2, <2>3, <2>5, <2>6, Zenon
<1>20. f.buf_fill # 0 => m = Len(q)
  BY <1>1, <1>5, <1>14, <1>18
<1> QED
  BY <1>1, <1>5, <1>8, <1>11, <1>12, <1>15, <1>17, <1>18, <1>19, <1>20 DEF Pieces

-----------------------------------------------------------------------------
(* The fifos are queues of bytes. *)

(* The bytes of each fifo lie in a ring, and who waits has asked for some. *)
BytesInv ==
    /\ want \in [Proc -> Nat]
    /\ \A k \in Key : /\ {"state", "read_queue"} \subseteq DOMAIN open_fifos[k]
                      /\ Ring(open_fifos[k])
                      /\ \A p \in Proc : Waits(p, k) => want[p] # 0

(* A new fifo is an empty ring.                                            *)
LEMMA NewIsEmpty ==
    ASSUME BuffersHaveRoom, NEW n, NEW f, f = create_new_fifo(n)
    PROVE  /\ {"state", "read_queue"} \subseteq DOMAIN f /\ Ring(f)
           /\ f.buf_fill = 0 /\ f.read_queue = <<>> /\ f.state = "OPEN"
           /\ Content(f) = <<>>
<1>1. /\ {"state", "read_queue", "buffer", "buf_fill", "current", "free_slot"} \subseteq DOMAIN f
      /\ f.buf_fill = 0 /\ f.current = 0 /\ f.free_slot = 0 /\ f.read_queue = <<>> /\ f.state = "OPEN"
  BY DEF create_new_fifo
<1>2. BUF_SIZE \in Nat \ {0}
  BY DEF BuffersHaveRoom
<1>3. Ring(f)
  BY <1>1, <1>2 DEF Ring, Slot, Wrap
<1>4. Content(f) = Bytes(f)
  BY <1>1, <1>3, ContentIsBytes
<1>5. Bytes(f) = <<>>
  BY <1>1 DEF Bytes
<1> QED
  BY <1>1, <1>3, <1>4, <1>5

(* So is a closed one.                                                     *)
LEMMA ClosedIsEmpty ==
    ASSUME BuffersHaveRoom
    PROVE  /\ {"state", "read_queue"} \subseteq DOMAIN Closed /\ Ring(Closed)
           /\ Closed.read_queue = <<>> /\ Content(Closed) = <<>>
<1>1. PICK f, s : f = create_new_fifo(NULL) /\ s = [f EXCEPT !.state = "CLOSED"] /\ s = Closed
  BY DEF Closed
<1>2. {"state", "read_queue"} \subseteq DOMAIN f /\ Ring(f) /\ f.read_queue = <<>>
  BY <1>1, NewIsEmpty
<1>3. /\ s.state = "CLOSED" /\ s.read_queue = <<>> /\ DOMAIN s = DOMAIN f
      /\ s.buffer = f.buffer /\ s.buf_fill = f.buf_fill /\ s.current = f.current
      /\ s.free_slot = f.free_slot
  BY <1>1, <1>2 DEF Ring
<1>4. Ring(s)
  BY <1>2, <1>3 DEF Ring
<1>5. Content(s) = <<>>
  BY <1>3 DEF Content
<1> QED
  BY <1>1, <1>2, <1>3, <1>4, <1>5

(* Who is in a queue has asked for bytes.                                  *)
LEMMA WaitersWant ==
    ASSUME ReadersInv, BytesInv, NEW k \in Key, NEW q, q = open_fifos[k].read_queue
    PROVE  /\ q \in Seq(Proc) /\ IsInjective(q)
           /\ \A i \in DOMAIN q : want[q[i]] \in Nat \ {0}
<1>1. q \in Seq(Proc) /\ IsInjective(q)
  BY DEF ReadersInv, FifoTypes
<1>2. \A i \in DOMAIN q : q[i] \in Proc /\ q[i] \in ToSet(q)
  BY <1>1, QueueElements
<1>3. \A i \in DOMAIN q : want[q[i]] # 0 /\ want[q[i]] \in Nat
  BY <1>2 DEF BytesInv, Waits
<1> QED
  BY <1>1, <1>3

(* What has been written to a fifo is behind what it held.                 *)
LEMMA WrittenContent ==
    ASSUME BuffersHaveRoom, NEW f, Ring(f), {"state", "read_queue"} \subseteq DOMAIN f,
           f.state # "CLOSED", f.buf_fill < BUF_SIZE,
           NEW source, Len(source) \in Nat \ {0},
           NEW n, n = Fits(f, Len(source)),
           NEW w, w = write_circular_buffer(f, source)
    PROVE  /\ n \in 1 .. BUF_SIZE /\ n <= Len(source)
           /\ Ring(w) /\ w.read_queue = f.read_queue /\ w.state = f.state /\ DOMAIN w = DOMAIN f
           /\ Content(f) \o [i \in 1 .. n |-> source[i]] = Bytes(w)
<1>1. /\ n \in 1 .. BUF_SIZE /\ n <= Len(source) /\ w.buf_fill = f.buf_fill + n
      /\ Ring(w) /\ w.read_queue = f.read_queue /\ w.state = f.state
      /\ \A i \in 1 .. f.buf_fill : At(w, i) = At(f, i)
      /\ \A i \in 1 .. n : At(w, f.buf_fill + i) = source[i]
  BY WrittenBytes
<1>2. DOMAIN w = DOMAIN f
  BY DEF write_circular_buffer
<1>3. PICK x \in Nat, y \in Nat : x = f.buf_fill /\ y = w.buf_fill
  BY <1>1 DEF Ring, BuffersHaveRoom
<1>4. PICK S : S = {At(w, j) : j \in 1 .. y}
  OBVIOUS
<1>5. PICK a, b : a = Content(f) /\ b = [i \in 1 .. n |-> source[i]]
  OBVIOUS
<1>6. a = [i \in 1 .. x |-> At(f, i)]
  BY <1>3, <1>5, ContentIsBytes DEF Bytes
<1>7. y = x + n /\ n \in Nat
  BY <1>1, <1>3
<1>8. a \in [1 .. x -> S]
  <2>1. \A i \in 1 .. x : i \in 1 .. y /\ At(f, i) = At(w, i)
    BY <1>1, <1>3, <1>7
  <2> QED
    BY <1>4, <1>6, <2>1
<1>9. b \in [1 .. n -> S]
  <2>1. \A i \in 1 .. n : x + i \in 1 .. y /\ source[i] = At(w, x + i)
    BY <1>1, <1>3, <1>7
  <2>2. \A i \in 1 .. n : source[i] \in S
    BY <1>4, <2>1
  <2> QED
    BY <1>5, <2>2
<1>10. a \in Seq(S) /\ Len(a) = x /\ b \in Seq(S) /\ Len(b) = n
  BY <1>3, <1>7, <1>8, <1>9, FunctionIsSeq
<1>11. a \o b = [i \in 1 .. y |-> IF i <= x THEN a[i] ELSE b[i - x]]
  <2>1. a \o b = [i \in 1 .. Len(a) + Len(b) |-> IF i <= Len(a) THEN a[i] ELSE b[i - Len(a)]]
    BY <1>10, Joined
  <2>2. Len(a) = x /\ Len(b) = n
    BY <1>10
  <2>3. a \o b = [i \in 1 .. x + n |-> IF i <= x THEN a[i] ELSE b[i - x]]
    BY <2>1, <2>2, Zenon
  <2> QED
    BY <1>7, <2>3
<1>12. ASSUME NEW i \in 1 .. y
       PROVE  (IF i <= x THEN a[i] ELSE b[i - x]) = At(w, i)
  <2>1. CASE i <= x
    <3>1. i \in 1 .. x
      BY <2>1
    <3> QED
      BY <1>1, <1>3, <1>6, <2>1, <3>1
  <2>2. CASE ~(i <= x)
    <3>1. PICK j \in 1 .. n : i = x + j /\ i - x = j
      <4>1. i - x \in 1 .. n /\ i = x + (i - x)
        BY <1>7, <2>2
      <4> QED
        BY <4>1
    <3>2. At(w, x + j) = source[j] /\ b[j] = source[j]
      BY <1>1, <1>3, <1>5
    <3> QED
      BY <2>2, <3>1, <3>2
  <2> QED
    BY <2>1, <2>2
<1>13. Bytes(w) = [i \in 1 .. y |-> At(w, i)]
  BY <1>3 DEF Bytes
<1>14. a \o b = [i \in 1 .. y |-> At(w, i)]
  BY <1>11, <1>12
<1>15. a \o b = Bytes(w)
  BY <1>13, <1>14
<1> QED
  BY <1>1, <1>2, <1>5, <1>15

-----------------------------------------------------------------------------
(* A step that changes one fifo, and lets nobody wait there but who did or *)
(* has asked for bytes.                                                    *)
LEMMA RingsStay ==
    ASSUME BytesInv, NEW k \in Key, want' \in [Proc -> Nat],
           \A j \in Key \ {k} : open_fifos'[j] = open_fifos[j],
           {"state", "read_queue"} \subseteq DOMAIN open_fifos'[k], Ring(open_fifos'[k]),
           \A p \in Proc : want'[p] # want[p] => \A j \in Key \ {k} : ~Waits(p, j),
           \A p \in Proc : p \in ToSet(open_fifos'[k].read_queue) => want'[p] # 0
    PROVE  BytesInv'
<1> SUFFICES ASSUME NEW j \in Key
             PROVE  /\ {"state", "read_queue"} \subseteq DOMAIN open_fifos'[j]
                    /\ Ring(open_fifos'[j])
                    /\ \A p \in Proc : p \in ToSet(open_fifos'[j].read_queue) => want'[p] # 0
  BY DEF BytesInv, Waits, Ring, Wrap
<1>1. CASE j = k
  BY <1>1
<1>2. CASE j # k
  BY <1>2 DEF BytesInv, Waits
<1> QED
  BY <1>1, <1>2

(* Nobody dies or is born.                                                 *)
DeadStay == {r \in Proc : st'[r] = "DELETE"} = {r \in Proc : st[r] = "DELETE"}

(* Who leaves the queue, and lives, is given something, and nobody else.   *)
Fed(k) ==
    \A r \in Proc :
        IF r \in ToSet(open_fifos[k].read_queue) \ ToSet(open_fifos'[k].read_queue)
        THEN st[r] = "DELETE" \/ got'[r] # <<>>
        ELSE got'[r] = got[r]

(* Who is served is who leaves the queue.                                  *)
LEMMA ServedLeave ==
    ASSUME NEW q \in Seq(Proc), IsInjective(q), NEW m \in 0 .. Len(q)
    PROVE  ToSet(SubSeq(q, 1, m)) = ToSet(q) \ ToSet(SubSeq(q, m + 1, Len(q)))
<1>1. Len(q) \in Nat /\ DOMAIN q = 1 .. Len(q)
  BY LenProperties
<1>2. PICK a, b : a = SubSeq(q, 1, m) /\ b = SubSeq(q, m + 1, Len(q))
  OBVIOUS
<1>3. DOMAIN a = 1 .. m /\ \A i \in 1 .. m : a[i] = q[i] /\ i \in DOMAIN q
  <2>1. 0 \in 0 .. Len(q) /\ m \in 0 .. Len(q)
    BY <1>1
  <2>2. SubSeq(q, 0 + 1, m) = [j \in 1 .. m - 0 |-> q[0 + j]]
    BY <2>1, Slice
  <2> QED
    BY <1>1, <1>2, <2>2
<1>4. /\ DOMAIN b = 1 .. Len(q) - m
      /\ \A i \in DOMAIN b : m + i \in DOMAIN q /\ b[i] = q[m + i]
  <2>1. m \in Nat /\ m <= Len(q) + 1
    BY <1>1
  <2> QED
    BY <1>2, <2>1, DropFirst
<1>5. ASSUME NEW p \in ToSet(a) PROVE p \in ToSet(q) /\ p \notin ToSet(b)
  <2>1. PICK i \in 1 .. m : a[i] = p /\ q[i] = p
    BY <1>3 DEF ToSet
  <2>2. ASSUME NEW j \in DOMAIN b, b[j] = p PROVE FALSE
    <3>1. q[m + j] = q[i] /\ m + j \in DOMAIN q /\ i \in DOMAIN q
      BY <1>3, <1>4, <2>1, <2>2
    <3>2. m + j = i
      BY <3>1 DEF IsInjective
    <3> QED
      BY <1>1, <1>4, <3>2
  <2> QED
    BY <1>3, <2>1, <2>2 DEF ToSet
<1>6. ASSUME NEW p \in ToSet(q), p \notin ToSet(b) PROVE p \in ToSet(a)
  <2>1. PICK i \in DOMAIN q : q[i] = p
    BY <1>6 DEF ToSet
  <2>2. CASE i <= m
    BY <1>1, <1>3, <2>1, <2>2 DEF ToSet
  <2>3. CASE ~(i <= m)
    <3>1. i - m \in 1 .. Len(q) - m /\ m + (i - m) = i
      BY <1>1, <2>3
    <3>2. b[i - m] = p /\ i - m \in DOMAIN b
      BY <1>4, <2>1, <3>1
    <3> QED
      BY <1>6, <3>2 DEF ToSet
  <2> QED
    BY <2>2, <2>3
<1> QED
  BY <1>2, <1>5, <1>6

(* A write is one: the readers it serves get the pieces, in their order.   *)
LEMMA WriteImplements ==
    ASSUME BuffersHaveRoom, ~WriteWhenFull, ReadersInv, BytesInv, NEW p \in Proc, NEW k \in Key,
           NEW source \in SeqOf(Byte, MaxBytes) \ {<<>>}, fifo_write(p, k, source)
    PROVE  BytesInv' /\ Queues!Write(k, source) /\ Fed(k)
<1>1. PICK f, w, s, g : /\ f = open_fifos[k] /\ w = write_circular_buffer(f, source)
                        /\ s = send_to_readers(w).f /\ g = send_to_readers(w).g
  OBVIOUS
<1>2. PICK l \in Nat \ {0} : l = Len(source) /\ source \in [1 .. l -> Byte]
  <2>1. PICK l \in 0 .. MaxBytes : source \in [1 .. l -> Byte]
    BY DEF SeqOf
  <2>2. l \in Nat
    BY DEF BuffersHaveRoom
  <2>3. source \in Seq(Byte) /\ Len(source) = l
    BY <2>1, <2>2, FunctionIsSeq
  <2>4. l # 0
    BY <2>3, EmptySeq
  <2> QED
    BY <2>1, <2>2, <2>3, <2>4
<1>3. /\ open_fifos' = [open_fifos EXCEPT ![k] = s] /\ got' = g
      /\ want' = Done(ToSet(f.read_queue) \ ToSet(s.read_queue))
      /\ st' = unblock(ToSet(f.read_queue) \ ToSet(s.read_queue))
      /\ call' = <<"write", source, Fits(f, Len(source))>>
      /\ reads' = reads /\ shut' = shut
      /\ f.state = "OPEN" /\ f.buf_fill < BUF_SIZE
  BY <1>1 DEF fifo_write, is_open
<1>4. DOMAIN open_fifos = Key /\ Ring(f) /\ {"state", "read_queue"} \subseteq DOMAIN f
  BY <1>1 DEF ReadersInv, FifoTypes, BytesInv
<1>5. PICK q \in Seq(Proc) : /\ q = f.read_queue /\ IsInjective(q)
                            /\ \A i \in DOMAIN q : want[q[i]] \in Nat \ {0}
  BY <1>1, WaitersWant
<1>6. PICK n : n = Fits(f, l)
  OBVIOUS
<1>7. PICK data : data = [i \in 1 .. n |-> source[i]]
  OBVIOUS
<1>8. PICK all : all = Bytes(w)
  OBVIOUS
<1>9. /\ n \in 1 .. BUF_SIZE /\ n <= l
      /\ Ring(w) /\ w.read_queue = f.read_queue /\ w.state = f.state /\ DOMAIN w = DOMAIN f
      /\ Content(f) \o data = all
  <2>1. /\ f.state # "CLOSED" /\ Len(source) \in Nat \ {0} /\ n = Fits(f, Len(source))
        /\ w = write_circular_buffer(f, source)
    BY <1>1, <1>2, <1>3, <1>6
  <2>2. /\ n \in 1 .. BUF_SIZE /\ n <= Len(source)
        /\ Ring(w) /\ w.read_queue = f.read_queue /\ w.state = f.state /\ DOMAIN w = DOMAIN f
        /\ Content(f) \o [i \in 1 .. n |-> source[i]] = Bytes(w)
    BY <1>3, <1>4, <2>1, WrittenContent
  <2> QED
    BY <1>2, <1>7, <1>8, <2>2
<1>10. PICK m, fill : m = Served(w) /\ fill = w.buf_fill
  OBVIOUS
<1>11. PICK cut : cut = Cuts(w)
  OBVIOUS
<1>12. Pieces(w, q, m, all, fill, cut, s, g)
  <2>1. /\ {"state", "read_queue"} \subseteq DOMAIN w /\ q = w.read_queue /\ Ring(w)
        /\ w.read_queue \in Seq(Proc) /\ IsInjective(w.read_queue)
        /\ \A i \in DOMAIN w.read_queue : want[w.read_queue[i]] \in Nat \ {0}
    BY <1>4, <1>5, <1>9
  <2>2. Pieces(w, w.read_queue, Served(w), Bytes(w), w.buf_fill, Cuts(w),
               send_to_readers(w).f, send_to_readers(w).g)
    BY <2>1, SentBytes
  <2> QED
    BY <1>1, <1>8, <1>10, <1>11, <2>1, <2>2
<1>13. /\ open_fifos'[k] = s /\ DOMAIN open_fifos' = Key
       /\ \A j \in Key \ {k} : open_fifos'[j] = open_fifos[j]
  BY <1>3, <1>4
<1>14. {"state", "read_queue"} \subseteq DOMAIN s
  <2>1. DOMAIN s = DOMAIN w
    BY <1>1 DEF send_to_readers, After
  <2> QED
    BY <1>4, <1>9, <2>1
<1>15. BytesInv'
  <2>1. ToSet(s.read_queue) \subseteq ToSet(q)
    BY <1>5, <1>12, Serves DEF Pieces
  <2>2. /\ want \in [Proc -> Nat] /\ want' \in [Proc -> Nat]
        /\ \A r \in Proc : want'[r] = IF r \in ToSet(q) \ ToSet(s.read_queue) THEN 0 ELSE want[r]
    BY <1>3, <1>5 DEF BytesInv, Done
  <2>3. ASSUME NEW r \in Proc, r \in ToSet(s.read_queue) PROVE want'[r] # 0
    BY <1>1, <1>5, <2>1, <2>2, <2>3 DEF BytesInv, Waits
  <2>4. ASSUME NEW r \in Proc, want'[r] # want[r], NEW j \in Key \ {k} PROVE ~Waits(r, j)
    <3>1. Waits(r, k)
      BY <1>1, <1>5, <2>2, <2>4 DEF Waits
    <3> QED
      BY <2>4, <3>1 DEF ReadersInv, OneQueue
  <2> QED
    BY <1>12, <1>13, <1>14, <2>2, <2>3, <2>4, RingsStay DEF Pieces
<1>16. Len(all) = fill /\ fill \in 0 .. BUF_SIZE
  BY <1>8, <1>9, <1>10, BytesAreListed DEF Ring
<1>17. PICK served : served = SubSeq(q, 1, m)
  OBVIOUS
<1>18. Len(served) = m /\ \A i \in 1 .. m : served[i] = q[i]
  <2>1. 0 \in 0 .. Len(q) /\ m \in 0 .. Len(q)
    BY <1>12 DEF Pieces
  <2>2. SubSeq(q, 0 + 1, m) = [j \in 1 .. m - 0 |-> q[0 + j]] /\ Len(SubSeq(q, 0 + 1, m)) = m - 0
    BY <2>1, Slice
  <2> QED
    BY <1>12, <1>17, <2>2 DEF Pieces
<1>19. Content(s) = Bytes(s)
  BY <1>3, <1>9, <1>12, ContentIsBytes DEF Pieces
<1>20. Len(Content(s)) <= BUF_SIZE /\ (Content(s) # <<>> => s.read_queue = <<>>)
  <2>1. Len(Bytes(s)) = s.buf_fill /\ s.buf_fill \in 0 .. BUF_SIZE
    BY <1>12, BytesAreListed DEF Ring, Pieces
  <2>2. s.buf_fill = 0 => Bytes(s) = <<>>
    BY DEF Bytes
  <2>3. m = Len(q) => SubSeq(q, m + 1, Len(q)) = <<>>
    BY <1>12, DropFirst DEF Pieces
  <2> QED
    <3>1. Len(Content(s)) <= BUF_SIZE
      BY <1>19, <2>1 DEF BuffersHaveRoom
    <3>2. Content(s) # <<>> => s.read_queue = <<>>
      BY <1>12, <1>19, <2>2, <2>3 DEF Pieces
    <3> QED
      BY <3>1, <3>2
<1>21. /\ data = SubSeq(source, 1, n) /\ Len(Content(f)) = f.buf_fill
       /\ n = Queues!UpTo(Len(source), BUF_SIZE - f.buf_fill)
  <2>1. source \in Seq(Byte) /\ Len(source) = l
    BY <1>2
  <2>2. 0 \in 0 .. Len(source) /\ n \in 0 .. Len(source)
    BY <1>2, <1>9
  <2>3. SubSeq(source, 0 + 1, n) = [j \in 1 .. n - 0 |-> source[0 + j]]
    BY <2>1, <2>2, Slice
  <2>4. data = SubSeq(source, 1, n)
    BY <1>7, <1>9, <2>3
  <2>5. Content(f) = Bytes(f)
    BY <1>3, <1>4, ContentIsBytes
  <2>6. Len(Bytes(f)) = f.buf_fill /\ f.buf_fill \in Nat /\ BUF_SIZE \in Nat
    BY <1>4, BytesAreListed DEF BuffersHaveRoom
  <2>7. n = Queues!UpTo(l, BUF_SIZE - f.buf_fill)
    BY <1>6, <2>6 DEF Fits, Queues!UpTo
  <2> QED
    BY <1>2, <2>4, <2>5, <2>6, <2>7
<1>22. /\ ToSet(served) = ToSet(f.read_queue) \ ToSet(s.read_queue)
       /\ Queues!ToSet(served) = ToSet(served)
  <2>1. Queues!ToSet(served) = ToSet(served)
    BY DEF Queues!ToSet, ToSet
  <2>2. m \in 0 .. Len(q) /\ s.read_queue = SubSeq(q, m + 1, Len(q))
    BY <1>12 DEF Pieces
  <2> QED
    BY <1>5, <1>17, <2>1, <2>2, ServedLeave
<1>23. PICK lines : lines = [j \in Key |-> open_fifos[j].read_queue]
  OBVIOUS
<1>24. /\ lines[k] = q /\ [j \in Key |-> open_fifos'[j].read_queue][k] = s.read_queue
       /\ [j \in Key |-> Content(open_fifos'[j])][k] = Content(s)
  BY <1>1, <1>5, <1>13, <1>23
<1>25. [j \in Key |-> open_fifos'[j].read_queue]
          = [lines EXCEPT ![k] = SubSeq(lines[k], m + 1, Len(lines[k]))]
  <2>1. s.read_queue = SubSeq(lines[k], m + 1, Len(lines[k]))
    BY <1>12, <1>24 DEF Pieces
  <2>2. \A j \in Key : open_fifos'[j].read_queue = IF j = k THEN s.read_queue ELSE lines[j]
    BY <1>13, <1>23
  <2>3. lines = [j \in Key |-> lines[j]]
    BY <1>23
  <2> QED
    BY <2>1, <2>2, <2>3
<1>26. DeadStay
  <2>1. st \in [Proc -> {"READY", "BLOCKED", "DELETE"}]
    BY DEF ReadersInv, FifoTypes
  <2> QED
    BY <1>3, <2>1, Unblocked DEF DeadStay
<1>27. Queues!Serve(k, Content(f) \o data, served)
  <2>1. /\ cut \in [0 .. Len(served) -> 0 .. Len(all)] /\ cut[0] = 0
        /\ Content(s) = SubSeq(all, cut[Len(served)] + 1, Len(all))
    BY <1>12, <1>16, <1>18, <1>19 DEF Pieces
  <2>2. ASSUME NEW i \in 1 .. Len(served)
        PROVE  /\ cut[i - 1] < Len(all)
               /\ cut[i] = Queues!UpTo(cut[i - 1] + want[served[i]], Len(all))
               /\ got'[served[i]] = IF served[i] \in {r \in Proc : st[r] = "DELETE"} THEN <<>>
                                    ELSE SubSeq(all, cut[i - 1] + 1, cut[i])
    <3>1. i \in 1 .. m /\ served[i] = q[i]
      BY <1>18
    <3>2. Piece(q[i], all, fill, cut[i - 1], cut[i], g)
      BY <1>12, <3>1 DEF Pieces
    <3>3. q[i] \in Proc
      <4>1. i \in 1 .. Len(q)
        BY <1>12, <3>1 DEF Pieces
      <4> QED
        BY <4>1, ElementOfSeq
    <3>4. got'[served[i]] = IF served[i] \in {r \in Proc : st[r] = "DELETE"} THEN <<>>
                            ELSE SubSeq(all, cut[i - 1] + 1, cut[i])
      BY <1>3, <3>1, <3>2, <3>3 DEF Piece
    <3> QED
      BY <1>16, <3>1, <3>2, <3>4 DEF Piece, Queues!UpTo
  <2>3. \A r \in Proc \ ToSet(served) : got'[r] = got[r]
    BY <1>3, <1>12, <1>17 DEF Pieces
  <2>4. want' = Queues!Leave(ToSet(served))
    BY <1>3, <1>22 DEF Done, Queues!Leave
  <2>5. [j \in Key |-> Content(open_fifos'[j])]
           = [[j \in Key |-> Content(open_fifos[j])] EXCEPT ![k] = Content(s)]
    BY <1>13
  <2> QED
    BY <1>9, <1>22, <2>1, <2>2, <2>3, <2>4, <2>5 DEF Queues!Serve
<1>28. Fed(k)
  <2> SUFFICES ASSUME NEW r \in Proc
               PROVE  IF r \in ToSet(served) THEN st[r] = "DELETE" \/ got'[r] # <<>> ELSE got'[r] = got[r]
    BY <1>1, <1>13, <1>22 DEF Fed
  <2>1. CASE r \notin ToSet(served)
    BY <1>3, <1>12, <1>17, <2>1 DEF Pieces
  <2>2. CASE r \in ToSet(served) /\ st[r] # "DELETE"
    <3>1. PICK i \in 1 .. m : q[i] = r
      <4>1. PICK i \in DOMAIN served : served[i] = r
        BY <2>2 DEF ToSet
      <4>2. DOMAIN served = 1 .. m
        <5>1. 0 \in 0 .. Len(q) /\ m \in 0 .. Len(q)
          BY <1>12 DEF Pieces
        <5>2. SubSeq(q, 0 + 1, m) = [j \in 1 .. m - 0 |-> q[0 + j]]
          BY <5>1, Slice
        <5> QED
          BY <1>12, <1>17, <5>2 DEF Pieces
      <4> QED
        BY <1>18, <4>1, <4>2
    <3>2. PICK c \in 0 .. fill, d \in 0 .. fill : c = cut[i - 1] /\ d = cut[i]
      <4>1. i - 1 \in 0 .. m /\ i \in 0 .. m
        BY <1>12 DEF Pieces
      <4> QED
        BY <1>12, <4>1 DEF Pieces
    <3>3. Piece(r, all, fill, c, d, g)
      BY <1>12, <3>1, <3>2 DEF Pieces
    <3>4. c < d /\ got'[r] = SubSeq(all, c + 1, d)
      BY <1>3, <2>2, <3>3 DEF Piece
    <3>5. PICK V : all \in Seq(V)
      BY <1>8, <1>9, BytesAreListed
    <3>6. c \in 0 .. Len(all) /\ d \in c .. Len(all) /\ d - c # 0
      BY <1>16, <3>4
    <3>7. Len(SubSeq(all, c + 1, d)) = d - c
      BY <3>5, <3>6, Slice
    <3> QED
      BY <2>2, <3>4, <3>6, <3>7, EmptySeq
  <2> QED
    BY <2>1, <2>2
<1> QED
  <2>1. m \in 0 .. Len(lines[k]) /\ served = SubSeq(lines[k], 1, m)
    BY <1>12, <1>17, <1>24 DEF Pieces
  <2>2. [j \in Key |-> Content(open_fifos'[j])][k] # <<>>
           => [j \in Key |-> open_fifos'[j].read_queue][k] = <<>>
    BY <1>20, <1>24
  <2>3. [j \in Key |-> Content(open_fifos[j])][k] = Content(f)
    BY <1>1
  <2>4. n = Fits(f, Len(source))
    BY <1>2, <1>6
  <2>5. Queues!Write(k, source)
    BY <1>3, <1>21, <1>23, <1>25, <1>26, <1>27, <2>1, <2>2, <2>3, <2>4 DEF Queues!Write, DeadStay
  <2> QED
    BY <1>15, <1>28, <2>5

-----------------------------------------------------------------------------
(* A read that finds bytes takes the first of them.                        *)
LEMMA ReadNowImplements ==
    ASSUME BuffersHaveRoom, ReadersInv, BytesInv, NEW p \in Proc, NEW k \in Key,
           NEW n \in 1 .. MaxBytes, fifo_read(p, k, n),
           open_fifos[k].read_queue = <<>>, open_fifos[k].buf_fill > 0
    PROVE  BytesInv' /\ Queues!Read(p, k, n)
<1>1. PICK f, s : f = open_fifos[k] /\ s = read_circular_buffer(f, n)
  OBVIOUS
<1>2. /\ open_fifos' = [open_fifos EXCEPT ![k] = s] /\ want' = want
      /\ call' = <<"read", Copied(f, n)>> /\ f.state = "OPEN"
      /\ UNCHANGED <<st, reads, got, shut>>
  BY <1>1 DEF fifo_read, is_open
<1>3. /\ DOMAIN open_fifos = Key /\ Ring(f) /\ {"state", "read_queue"} \subseteq DOMAIN f
      /\ f.read_queue = <<>>
  BY <1>1 DEF ReadersInv, FifoTypes, BytesInv
<1>4. n \in Nat /\ n > 0
  BY DEF BuffersHaveRoom
<1>5. PICK h, fill : h = Held(f, n) /\ fill = f.buf_fill
  OBVIOUS
<1>6. fill \in 1 .. BUF_SIZE /\ h \in 1 .. fill /\ Copied(f, n) = [i \in 1 .. h |-> At(f, i)]
  <2>1. fill \in 1 .. BUF_SIZE
    BY <1>1, <1>3, <1>5 DEF Ring, BuffersHaveRoom
  <2>2. h \in 0 .. fill /\ h > 0 /\ Copied(f, n) = [i \in 1 .. h |-> At(f, i)]
    BY <1>3, <1>4, <1>5, <2>1, CopiedBytes
  <2> QED
    BY <2>1, <2>2
<1>7. /\ s.current = (f.current + h) % BUF_SIZE /\ s.buf_fill = fill - h
      /\ s.buffer = f.buffer /\ s.free_slot = f.free_slot /\ s.read_queue = f.read_queue
      /\ s.state = f.state /\ DOMAIN s = DOMAIN f
  BY <1>1, <1>3, <1>5 DEF read_circular_buffer, Ring
<1>8. Ring(s) /\ \A j \in 1 .. s.buf_fill : At(s, j) = At(f, h + j)
  <2>1. {"buffer", "buf_fill", "current", "free_slot"} \subseteq DOMAIN s
    BY <1>3, <1>7 DEF Ring
  <2>2. h \in 0 .. f.buf_fill /\ s.buf_fill = f.buf_fill - h
    BY <1>5, <1>6, <1>7
  <2> QED
    BY <1>3, <1>7, <2>1, <2>2, Advances
<1>9. /\ open_fifos'[k] = s /\ DOMAIN open_fifos' = Key
      /\ \A j \in Key \ {k} : open_fifos'[j] = open_fifos[j]
  BY <1>2, <1>3
<1>10. BytesInv'
  <2>1. ToSet(<<>>) = {}
    BY DEF ToSet
  <2> QED
    BY <1>2, <1>3, <1>7, <1>8, <1>9, <2>1, RingsStay DEF BytesInv
<1>11. PICK all : all = Content(f)
  OBVIOUS
<1>12. /\ all \in Seq({At(f, j) : j \in 1 .. fill}) /\ Len(all) = fill
       /\ all = [i \in 1 .. fill |-> At(f, i)]
  <2>1. all = Bytes(f)
    BY <1>2, <1>3, <1>11, ContentIsBytes
  <2>2. Bytes(f) \in Seq({At(f, j) : j \in 1 .. fill}) /\ Len(Bytes(f)) = fill
    BY <1>3, <1>5, BytesAreListed
  <2> QED
    BY <1>5, <2>1, <2>2 DEF Bytes
<1>14. Copied(f, n) = SubSeq(all, 1, h)
  <2>1. 0 \in 0 .. Len(all) /\ h \in 0 .. Len(all)
    BY <1>6, <1>12
  <2>2. SubSeq(all, 0 + 1, h) = [j \in 1 .. h - 0 |-> all[0 + j]]
    BY <1>12, <2>1, Slice
  <2>3. \A j \in 1 .. h : all[0 + j] = At(f, j)
    BY <1>6, <1>12
  <2> QED
    BY <1>6, <2>2, <2>3
<1>15. Content(s) = SubSeq(all, h + 1, fill) /\ Len(Content(s)) <= BUF_SIZE
  <2>1. h \in 0 .. Len(all) /\ fill \in h .. Len(all)
    BY <1>6, <1>12
  <2>2. SubSeq(all, h + 1, fill) = [j \in 1 .. fill - h |-> all[h + j]] /\ Len(SubSeq(all, h + 1, fill)) = fill - h
    BY <1>12, <2>1, Slice
  <2>3. \A j \in 1 .. fill - h : all[h + j] = At(s, j)
    <3> TAKE j \in 1 .. fill - h
    <3>1. h + j \in 1 .. fill
      BY <1>6
    <3> QED
      BY <1>7, <1>8, <1>12, <3>1
  <2>4. Content(s) = [j \in 1 .. fill - h |-> At(s, j)]
    <3>1. Content(s) = Bytes(s)
      BY <1>2, <1>7, <1>8, ContentIsBytes
    <3> QED
      BY <1>7, <3>1 DEF Bytes
  <2>5. fill - h <= BUF_SIZE
    BY <1>6 DEF BuffersHaveRoom
  <2> QED
    BY <2>2, <2>3, <2>4, <2>5
<1>16. [j \in Key |-> Content(open_fifos'[j])]
          = [[j \in Key |-> Content(open_fifos[j])] EXCEPT ![k] = SubSeq(all, h + 1, Len(all))]
  <2>1. Content(open_fifos'[k]) = SubSeq(all, h + 1, Len(all))
    BY <1>9, <1>12, <1>15
  <2> QED
    BY <1>9, <2>1
<1>17. h = Queues!UpTo(n, Len(all))
  BY <1>4, <1>5, <1>6, <1>12 DEF Held, Queues!UpTo
<1>20. /\ [j \in Key |-> open_fifos'[j].read_queue] = [j \in Key |-> open_fifos[j].read_queue]
       /\ [j \in Key |-> open_fifos[j].read_queue][k] = <<>>
       /\ [j \in Key |-> Content(open_fifos[j])][k] # <<>>
  <2>1. \A j \in Key : open_fifos'[j].read_queue = open_fifos[j].read_queue
    BY <1>1, <1>7, <1>9
  <2>2. all # <<>>
    BY <1>6, <1>12, EmptySeq
  <2> QED
    <3>1. [j \in Key |-> Content(open_fifos[j])][k] = all /\ open_fifos[k].read_queue = <<>>
      BY <1>1, <1>3, <1>11
    <3> QED
      BY <2>1, <2>2, <3>1
<1>21. [j \in Key |-> Content(open_fifos[j])][k] = all
  BY <1>1, <1>11
<1> QED
  BY <1>2, <1>10, <1>14, <1>16, <1>17, <1>20, <1>21 DEF Queues!Read

(* One that does not goes to the end of the line.                          *)
LEMMA ReadLaterImplements ==
    ASSUME BuffersHaveRoom, ReadersInv, BytesInv, NullIsNoKey, NEW p \in Proc, NEW k \in Key,
           NEW n \in 1 .. MaxBytes, fifo_read(p, k, n),
           ~(open_fifos[k].read_queue = <<>> /\ open_fifos[k].buf_fill > 0)
    PROVE  BytesInv' /\ Queues!Read(p, k, n)
<1>1. PICK f, d, s : /\ f = open_fifos[k] /\ d = Append(f.read_queue, p)
                     /\ s = [f EXCEPT !.read_queue = d]
  OBVIOUS
<1>2. /\ open_fifos' = [open_fifos EXCEPT ![k].read_queue = d] /\ want' = [want EXCEPT ![p] = n]
      /\ call' = <<>> /\ st' = [st EXCEPT ![p] = "BLOCKED"] /\ reads' = [reads EXCEPT ![p] = k]
      /\ UNCHANGED <<got, shut>>
      /\ f.state = "OPEN" /\ reads[p] = NULL /\ st[p] = "READY"
  BY <1>1 DEF fifo_read, is_open, Runs
<1>3. /\ DOMAIN open_fifos = Key /\ Ring(f) /\ {"state", "read_queue"} \subseteq DOMAIN f
      /\ f.read_queue \in Seq(Proc) /\ IsInjective(f.read_queue)
  BY <1>1 DEF ReadersInv, FifoTypes, BytesInv
<1>4. /\ open_fifos'[k] = s /\ DOMAIN open_fifos' = Key
      /\ \A j \in Key \ {k} : open_fifos'[j] = open_fifos[j]
  BY <1>1, <1>2, <1>3
<1>5. /\ s.buffer = f.buffer /\ s.buf_fill = f.buf_fill /\ s.current = f.current
      /\ s.free_slot = f.free_slot /\ s.state = f.state /\ s.read_queue = d /\ DOMAIN s = DOMAIN f
  BY <1>1, <1>3 DEF Ring
<1>6. n \in Nat /\ n # 0
  BY DEF BuffersHaveRoom
<1>7. \A j \in Key : ~Waits(p, j)
  BY <1>2 DEF ReadersInv, QueuedReads, NullIsNoKey
<1>8. BytesInv'
  <2>1. want \in [Proc -> Nat]
    BY DEF BytesInv
  <2>2. /\ want' \in [Proc -> Nat]
        /\ \A r \in Proc : want'[r] = IF r = p THEN n ELSE want[r]
    BY <1>2, <1>6, <2>1
  <2>3. Ring(s) /\ {"state", "read_queue"} \subseteq DOMAIN s
    BY <1>3, <1>5 DEF Ring
  <2>4. ASSUME NEW r \in Proc, r \in ToSet(d) PROVE want'[r] # 0
    <3>1. r \in ToSet(f.read_queue) \/ r = p
      <4>1. PICK q : q = f.read_queue
        OBVIOUS
      <4>2. q \in Seq(Proc) /\ IsInjective(q) /\ p \notin ToSet(q) /\ d = Append(q, p)
        BY <1>1, <1>3, <1>7, <4>1 DEF Waits
      <4>3. r \in ToSet(q) \/ r = p
        BY <2>4, <4>2, Joins
      <4> QED
        BY <4>1, <4>3
    <3> QED
      BY <1>1, <1>6, <2>2, <3>1 DEF BytesInv, Waits
  <2> QED
    BY <1>4, <1>5, <1>7, <2>2, <2>3, <2>4, RingsStay
<1>9. Content(s) = Content(f)
  BY <1>5 DEF Content
<1>10. [j \in Key |-> Content(open_fifos'[j])] = [j \in Key |-> Content(open_fifos[j])]
  <2>1. \A j \in Key : Content(open_fifos'[j]) = Content(open_fifos[j])
    BY <1>1, <1>4, <1>9
  <2> QED
    BY <2>1
<1>11. PICK lines : lines = [j \in Key |-> open_fifos[j].read_queue]
  OBVIOUS
<1>12. [j \in Key |-> open_fifos'[j].read_queue] = [lines EXCEPT ![k] = Append(lines[k], p)]
  <2>1. lines[k] = f.read_queue /\ lines = [j \in Key |-> lines[j]]
    BY <1>1, <1>11
  <2>2. \A j \in Key : open_fifos'[j].read_queue = IF j = k THEN Append(lines[k], p) ELSE lines[j]
    BY <1>1, <1>4, <1>5, <1>11, <2>1
  <2> QED
    BY <2>1, <2>2
<1>13. ~(lines[k] = <<>> /\ [j \in Key |-> Content(open_fifos[j])][k] # <<>>)
  <2>1. SUFFICES ASSUME lines[k] = <<>> PROVE Content(f) = <<>>
    BY <1>1
  <2>2. f.buf_fill = 0
    BY <1>1, <1>3, <1>11, <2>1 DEF Ring, BuffersHaveRoom
  <2>3. Bytes(f) = <<>>
    BY <2>2 DEF Bytes
  <2> QED
    BY <1>2, <1>3, <2>3, ContentIsBytes
<1>14. DeadStay
  BY <1>2 DEF DeadStay, ReadersInv, FifoTypes
<1>15. Queues!Read(p, k, n)
  BY <1>2, <1>10, <1>11, <1>12, <1>13, <1>14 DEF Queues!Read, DeadStay
<1> QED
  BY <1>8, <1>15

(* A close takes the bytes and the line away.                              *)
LEMMA CloseImplements ==
    ASSUME BuffersHaveRoom, ReadersInv, BytesInv, NEW p \in Proc, NEW k \in Key, fifo_close(p, k)
    PROVE  BytesInv' /\ Queues!Close(k)
<1>1. PICK s : s = Closed
  OBVIOUS
<1>2. /\ open_fifos' = [open_fifos EXCEPT ![k] = s]
      /\ want' = Done(ToSet(open_fifos[k].read_queue))
      /\ st' = unblock(ToSet(open_fifos[k].read_queue))
      /\ shut' = shut \cup {r \in Proc : reads[r] = k}
      /\ call' = <<>> /\ UNCHANGED <<reads, got>>
  BY <1>1 DEF fifo_close
<1>3. DOMAIN open_fifos = Key /\ want \in [Proc -> Nat]
  BY DEF ReadersInv, FifoTypes, BytesInv
<1>4. /\ open_fifos'[k] = s /\ DOMAIN open_fifos' = Key
      /\ \A j \in Key \ {k} : open_fifos'[j] = open_fifos[j]
  BY <1>2, <1>3
<1>5. /\ {"state", "read_queue"} \subseteq DOMAIN s /\ Ring(s)
      /\ s.read_queue = <<>> /\ Content(s) = <<>>
  BY <1>1, ClosedIsEmpty
<1>6. BytesInv'
  <2>1. ToSet(<<>>) = {}
    BY DEF ToSet
  <2>2. /\ want' \in [Proc -> Nat]
        /\ \A r \in Proc : want'[r] = IF r \in ToSet(open_fifos[k].read_queue) THEN 0 ELSE want[r]
    BY <1>2, <1>3 DEF Done
  <2>3. ASSUME NEW r \in Proc, want'[r] # want[r], NEW j \in Key \ {k} PROVE ~Waits(r, j)
    <3>1. Waits(r, k)
      BY <2>2, <2>3 DEF Waits
    <3> QED
      BY <2>3, <3>1 DEF ReadersInv, OneQueue
  <2> QED
    BY <1>4, <1>5, <2>1, <2>2, <2>3, RingsStay
<1>7. PICK lines, contents : /\ lines = [j \in Key |-> open_fifos[j].read_queue]
                             /\ contents = [j \in Key |-> Content(open_fifos[j])]
  OBVIOUS
<1>8. [j \in Key |-> open_fifos'[j].read_queue] = [lines EXCEPT ![k] = <<>>]
  <2>1. \A j \in Key : open_fifos'[j].read_queue = IF j = k THEN <<>> ELSE lines[j]
    BY <1>4, <1>5, <1>7
  <2>2. lines = [j \in Key |-> lines[j]]
    BY <1>7
  <2> QED
    BY <2>1, <2>2
<1>9. [j \in Key |-> Content(open_fifos'[j])] = [contents EXCEPT ![k] = <<>>]
  <2>2. \A j \in Key : Content(open_fifos'[j]) = IF j = k THEN <<>> ELSE contents[j]
    BY <1>4, <1>5, <1>7
  <2>3. contents = [j \in Key |-> contents[j]]
    BY <1>7
  <2> QED
    BY <2>2, <2>3
<1>10. DeadStay
  <2>1. st \in [Proc -> {"READY", "BLOCKED", "DELETE"}]
    BY DEF ReadersInv, FifoTypes
  <2> QED
    BY <1>2, <2>1, Unblocked DEF DeadStay
<1>11. want' = Queues!Leave(ToSet(lines[k]))
  <2>1. Queues!ToSet(lines[k]) = ToSet(open_fifos[k].read_queue)
    BY <1>7 DEF ToSet, Queues!ToSet
  <2>2. ToSet(lines[k]) = ToSet(open_fifos[k].read_queue)
    BY <1>7
  <2> QED
    BY <1>2, <2>2 DEF Done, Queues!Leave
<1>12. Queues!ToSet(lines[k]) = ToSet(lines[k])
  BY DEF ToSet, Queues!ToSet
<1>13. Queues!Close(k)
  BY <1>2, <1>7, <1>8, <1>9, <1>10, <1>11, <1>12 DEF Queues!Close, DeadStay
<1> QED
  BY <1>6, <1>13

(* What leaves content and lines as they are.                              *)
LEMMA SameQueues ==
    ASSUME \A j \in Key : /\ Content(open_fifos'[j]) = Content(open_fifos[j])
                          /\ open_fifos'[j].read_queue = open_fifos[j].read_queue
    PROVE  /\ [j \in Key |-> Content(open_fifos'[j])] = [j \in Key |-> Content(open_fifos[j])]
           /\ [j \in Key |-> open_fifos'[j].read_queue] = [j \in Key |-> open_fifos[j].read_queue]
OBVIOUS

(* An open finds the fifo as it is, or begins with an empty one.           *)
LEMMA OpenImplements ==
    ASSUME BuffersHaveRoom, ReadersInv, BytesInv, NEW p \in Proc, NEW n, fifo_open(p, n)
    PROVE  BytesInv' /\ Queues!Nothing
<1>1. PICK k \in Key : k = Found(n)
  BY DEF fifo_open
<1>2. /\ open_fifos' = [open_fifos EXCEPT ![k] =
                          IF @.state = "OPEN" THEN @ ELSE create_new_fifo(n)]
      /\ UNCHANGED <<st, reads, want, got, shut>> /\ call' = <<>>
  BY <1>1 DEF fifo_open
<1>3. PICK f, s : f = open_fifos[k] /\ s = open_fifos'[k]
  OBVIOUS
<1>4. /\ DOMAIN open_fifos = Key /\ Ring(f) /\ {"state", "read_queue"} \subseteq DOMAIN f
      /\ f.state \in {"OPEN", "CLOSED"} /\ (f.state = "CLOSED" => f.read_queue = <<>>)
      /\ want \in [Proc -> Nat]
  BY <1>3 DEF ReadersInv, FifoTypes, BytesInv
<1>5. /\ \A j \in Key \ {k} : open_fifos'[j] = open_fifos[j]
      /\ s = IF f.state = "OPEN" THEN f ELSE create_new_fifo(n)
  BY <1>2, <1>3, <1>4
<1>6. /\ {"state", "read_queue"} \subseteq DOMAIN s /\ Ring(s)
      /\ Content(s) = Content(f) /\ s.read_queue = f.read_queue
  <2>1. CASE f.state = "OPEN"
    BY <1>4, <1>5, <2>1
  <2>2. CASE f.state = "CLOSED"
    <3>1. Content(f) = <<>>
      BY <2>2 DEF Content
    <3> QED
      BY <1>4, <1>5, <2>2, <3>1, NewIsEmpty
  <2> QED
    BY <1>4, <2>1, <2>2
<1>7. \A r \in Proc : r \in ToSet(s.read_queue) => want[r] # 0
  BY <1>3, <1>6 DEF BytesInv, Waits
<1>8. BytesInv'
  BY <1>2, <1>3, <1>4, <1>5, <1>6, <1>7, RingsStay
<1>9. \A j \in Key : /\ Content(open_fifos'[j]) = Content(open_fifos[j])
                     /\ open_fifos'[j].read_queue = open_fifos[j].read_queue
  BY <1>3, <1>5, <1>6
<1>10. Queues!Nothing
  BY <1>2, <1>9, SameQueues DEF Queues!Nothing
<1> QED
  BY <1>8, <1>10

-----------------------------------------------------------------------------
(* Returning from fifo_read. *)

(* The fifo that a reader has yet to return from is open for it, and who   *)
(* was woken was given bytes, unless it has been closed meanwhile.         *)
ReturnsInv ==
    \A p \in Proc :
        reads[p] # NULL /\ p \notin shut =>
            is_open(p, reads[p]) /\ (st[p] = "READY" => got[p] # <<>>)

(* Nobody who is killed returns.                                           *)
DeadRead == \A p \in Proc : st[p] = "DELETE" => reads[p] = NULL

ReturnInv ==
    /\ ReturnsInv /\ DeadRead
    /\ DOMAIN open_fds = Proc /\ shut \subseteq Proc

(* Opening one leaves the open ones open.                                  *)
LEMMA OpenKeepsReturns ==
    ASSUME ReadersInv, ReturnInv, NEW p \in Proc, NEW n, fifo_open(p, n)
    PROVE  ReturnInv'
<1>1. PICK k \in Key : k = Found(n)
  BY DEF fifo_open
<1>2. /\ open_fifos' = [open_fifos EXCEPT ![k] =
                          IF @.state = "OPEN" THEN @ ELSE create_new_fifo(n)]
      /\ set_file_open(p, k) /\ UNCHANGED <<st, reads, got, shut>>
      /\ DOMAIN open_fifos = Key
  BY <1>1 DEF fifo_open, ReadersInv, FifoTypes
<1>3. DOMAIN open_fds' = Proc /\ \A r \in Proc : open_fds[r] \subseteq open_fds'[r]
  BY <1>2 DEF set_file_open, ReturnInv
<1>4. \A j \in Key : open_fifos[j].state = "OPEN" => open_fifos'[j].state = "OPEN"
  BY <1>2
<1>5. reads \in [Proc -> Key \cup {NULL}]
  BY DEF ReadersInv, FifoTypes
<1>6. \A r \in Proc : reads[r] # NULL /\ is_open(r, reads[r]) => is_open(r, reads[r])'
  BY <1>2, <1>3, <1>4, <1>5 DEF is_open
<1> QED
  BY <1>2, <1>3, <1>6 DEF ReturnInv, ReturnsInv, DeadRead

(* A step of one fifo that leaves it open or shuts whoever reads it.       *)
LEMMA OneFifoReturns ==
    ASSUME ReadersInv, ReturnInv, NEW k \in Key, NEW s,
           open_fifos' = [open_fifos EXCEPT ![k] = s], open_fds' = open_fds, reads' = reads,
           shut' \subseteq Proc, shut \subseteq shut',
           \A r \in Proc : st'[r] = "DELETE" => st[r] = "DELETE",
           \A r \in Proc : st'[r] = "READY" /\ reads[r] # NULL /\ r \notin shut' =>
                              \/ st[r] = "READY" /\ got'[r] = got[r]
                              \/ got'[r] # <<>>,
           \A r \in Proc : reads[r] = k /\ r \notin shut' => s.state = open_fifos[k].state
    PROVE  ReturnInv'
<1>1. DOMAIN open_fifos = Key
  BY DEF ReadersInv, FifoTypes
<1>2. reads \in [Proc -> Key \cup {NULL}]
  BY DEF ReadersInv, FifoTypes
<1>3. ASSUME NEW r \in Proc, reads[r] # NULL, r \notin shut', is_open(r, reads[r])
      PROVE  is_open(r, reads[r])'
  <2>1. reads[r] \in Key
    BY <1>2, <1>3
  <2>2. open_fifos'[reads[r]].state = open_fifos[reads[r]].state
    BY <1>1, <1>3, <2>1
  <2> QED
    BY <1>3, <2>2 DEF is_open
<1>4. ASSUME NEW r \in Proc, reads'[r] # NULL, r \notin shut'
      PROVE  is_open(r, reads[r])' /\ (st'[r] = "READY" => got'[r] # <<>>)
  <2>1. reads[r] # NULL /\ r \notin shut
    BY <1>4
  <2>2. is_open(r, reads[r]) /\ (st[r] = "READY" => got[r] # <<>>)
    BY <2>1 DEF ReturnInv, ReturnsInv
  <2>3. is_open(r, reads[r])'
    BY <1>3, <1>4, <2>1, <2>2
  <2>4. st'[r] = "READY" => got'[r] # <<>>
    BY <1>4, <2>1, <2>2
  <2> QED
    BY <2>3, <2>4
<1> QED
  BY <1>4 DEF ReturnInv, ReturnsInv, DeadRead

(* A reader that is served is given something.                             *)
LEMMA WriteKeepsReturns ==
    ASSUME ReadersInv, ReturnInv, NEW p \in Proc, NEW k \in Key, NEW source,
           fifo_write(p, k, source), Fed(k)
    PROVE  ReturnInv'
<1>1. PICK s : s = send_to_readers(write_circular_buffer(open_fifos[k], source)).f
  OBVIOUS
<1>2. PICK P : P = ToSet(open_fifos[k].read_queue) \ ToSet(s.read_queue)
  OBVIOUS
<1>3. /\ open_fifos' = [open_fifos EXCEPT ![k] = s] /\ st' = unblock(P)
      /\ UNCHANGED <<open_fds, reads, shut>>
      /\ DOMAIN open_fifos = Key
  BY <1>1, <1>2 DEF fifo_write, ReadersInv, FifoTypes
<1>4. s.state = open_fifos[k].state
  BY <1>1, WriteKeepsFifo DEF ReadersInv, FifoTypes
<1>5. \A r \in Proc : r \notin P => got'[r] = got[r]
  BY <1>2, <1>3 DEF Fed
<1>6. \A r \in P : r \in Proc => st[r] = "DELETE" \/ got'[r] # <<>>
  BY <1>2, <1>3 DEF Fed
<1>7. \A r \in Proc : /\ r \notin P => st'[r] = st[r]
                      /\ st'[r] = "DELETE" <=> st[r] = "DELETE"
  <2>1. st \in [Proc -> {"READY", "BLOCKED", "DELETE"}]
    BY DEF ReadersInv, FifoTypes
  <2> QED
    BY <1>3, <2>1, Unblocked
<1> QED
  BY <1>3, <1>4, <1>5, <1>6, <1>7, OneFifoReturns DEF ReturnInv

(* A close shuts whoever reads.                                            *)
LEMMA CloseKeepsReturns ==
    ASSUME NullIsNoKey, ReadersInv, ReturnInv, NEW p \in Proc, NEW k \in Key, fifo_close(p, k)
    PROVE  ReturnInv'
<1>1. PICK s, P : s = Closed /\ P = ToSet(open_fifos[k].read_queue)
  OBVIOUS
<1>2. /\ open_fifos' = [open_fifos EXCEPT ![k] = s] /\ st' = unblock(P)
      /\ shut' = shut \cup {r \in Proc : reads[r] = k}
      /\ UNCHANGED <<open_fds, reads, got>>
  BY <1>1 DEF fifo_close
<1>3. \A r \in Proc : /\ r \notin P => st'[r] = st[r]
                      /\ st'[r] = "DELETE" <=> st[r] = "DELETE"
  <2>1. st \in [Proc -> {"READY", "BLOCKED", "DELETE"}]
    BY DEF ReadersInv, FifoTypes
  <2> QED
    BY <1>2, <2>1, Unblocked
<1>4. \A r \in Proc : r \in P => reads[r] = k \/ st[r] = "DELETE"
  BY <1>1 DEF ReadersInv, QueuedReads, Waits
<1> QED
  BY <1>2, <1>3, <1>4, OneFifoReturns DEF ReturnInv

(* Who begins to wait does so in a fifo that is open for it.               *)
LEMMA ReadKeepsReturns ==
    ASSUME NullIsNoKey, ReadersInv, ReturnInv, NEW p \in Proc, NEW k \in Key, NEW n, fifo_read(p, k, n)
    PROVE  ReturnInv'
<1>1. /\ st \in [Proc -> {"READY", "BLOCKED", "DELETE"}] /\ reads \in [Proc -> Key \cup {NULL}]
      /\ DOMAIN open_fifos = Key /\ {"name", "state", "read_queue"} \subseteq DOMAIN open_fifos[k]
      /\ is_open(p, k)
  BY DEF ReadersInv, FifoTypes, fifo_read
<1>2. PICK s : /\ open_fifos' = [open_fifos EXCEPT ![k] = s] /\ s.state = open_fifos[k].state
               /\ UNCHANGED <<open_fds, got, shut>>
               /\ \/ UNCHANGED <<st, reads>>
                  \/ st' = [st EXCEPT ![p] = "BLOCKED"] /\ reads' = [reads EXCEPT ![p] = k]
  <2>1. CASE open_fifos' = [open_fifos EXCEPT ![k] = read_circular_buffer(@, n)] /\ UNCHANGED <<st, reads>>
    <3>1. PICK s : s = read_circular_buffer(open_fifos[k], n)
      OBVIOUS
    <3>2. s.state = open_fifos[k].state
      BY <1>1, <3>1 DEF read_circular_buffer
    <3> QED
      BY <2>1, <3>1, <3>2 DEF fifo_read
  <2>2. CASE /\ open_fifos' = [open_fifos EXCEPT ![k].read_queue = Append(@, p)]
             /\ st' = [st EXCEPT ![p] = "BLOCKED"] /\ reads' = [reads EXCEPT ![p] = k]
    <3>1. PICK s : s = [open_fifos[k] EXCEPT !.read_queue = Append(@, p)]
      OBVIOUS
    <3>2. s.state = open_fifos[k].state
      BY <1>1, <3>1
    <3> QED
      BY <2>2, <3>1, <3>2 DEF fifo_read
  <2> QED
    BY <2>1, <2>2 DEF fifo_read
<1>3. \A r \in Proc, j \in Key : is_open(r, j)' <=> is_open(r, j)
  BY <1>1, <1>2 DEF is_open
<1>4. ASSUME NEW r \in Proc, reads'[r] # NULL, r \notin shut'
      PROVE  is_open(r, reads[r])' /\ (st'[r] = "READY" => got'[r] # <<>>)
  <2>1. CASE reads'[r] = reads[r] /\ st'[r] = st[r]
    <3>1. reads[r] \in Key /\ is_open(r, reads[r])
      BY <1>1, <1>2, <1>4, <2>1 DEF ReturnInv, ReturnsInv
    <3> QED
      BY <1>2, <1>3, <1>4, <2>1, <3>1 DEF ReturnInv, ReturnsInv
  <2>2. CASE r = p /\ reads'[r] = k /\ st'[r] = "BLOCKED"
    BY <1>1, <1>3, <2>2
  <2> QED
    BY <1>1, <1>2, <2>1, <2>2
<1> QED
  BY <1>1, <1>2, <1>4 DEF ReturnInv, ReturnsInv, DeadRead

(* Who is killed reads nothing any more, nor who begins or returns.        *)
LEMMA ProcessesKeepReturns ==
    ASSUME NullIsNoKey, ReadersInv, ReturnInv, NEW p \in Proc,
           \/ ReadReturns(p) \/ destroy_process(p) \/ create_process(p)
           \/ \E q \in Proc : kill_process(q, p)
    PROVE  ReturnInv'
<1>1. /\ st \in [Proc -> {"READY", "BLOCKED", "DELETE"}] /\ reads \in [Proc -> Key \cup {NULL}]
      /\ DOMAIN open_fds = Proc /\ shut \subseteq Proc
  BY DEF ReadersInv, FifoTypes, ReturnInv
<1>2. CASE destroy_process(p)
  <2>1. UNCHANGED <<open_fifos, open_fds, st, reads, got, shut>>
    BY <1>2 DEF destroy_process
  <2> QED
    BY <2>1 DEF ReturnInv, ReturnsInv, DeadRead, is_open
<1>3. CASE \/ ReadReturns(p) \/ create_process(p) \/ \E q \in Proc : kill_process(q, p)
  <2>1. /\ open_fifos' = open_fifos /\ reads' = [reads EXCEPT ![p] = NULL]
        /\ shut' = shut \ {p} /\ DOMAIN open_fds' = Proc
        /\ \A r \in Proc \ {p} : open_fds'[r] = open_fds[r] /\ st'[r] = st[r] /\ got'[r] = got[r]
    <3>1. CASE ReadReturns(p)
      BY <1>1, <3>1 DEF ReadReturns
    <3>2. CASE create_process(p)
      BY <1>1, <3>2 DEF create_process, Forgotten
    <3>3. CASE \E q \in Proc : kill_process(q, p)
      BY <1>1, <3>3 DEF kill_process, Forgotten
    <3> QED
      BY <1>3, <3>1, <3>2, <3>3
  <2>2. reads'[p] = NULL /\ \A r \in Proc \ {p} : reads'[r] = reads[r]
    BY <1>1, <2>1
  <2>3. \A r \in Proc \ {p} : is_open(r, reads[r])' <=> is_open(r, reads[r])
    BY <2>1, <2>2 DEF is_open
  <2> QED
    BY <1>1, <2>1, <2>2, <2>3 DEF ReturnInv, ReturnsInv, DeadRead
<1> QED
  BY <1>2, <1>3

(* Who returns is told what it was given, who is killed is served no more, *)
(* and the rest is no step of a queue.                                     *)
LEMMA ProcessesImplement ==
    ASSUME NullIsNoKey, ReadersInv, BytesInv, ReturnInv, NEW p \in Proc,
           \/ ReadReturns(p) \/ destroy_process(p) \/ create_process(p)
           \/ \E q \in Proc : kill_process(q, p)
    PROVE  /\ BytesInv'
           /\ Queues!Return(p) \/ Queues!Die(p) \/ Queues!Renew(p) \/ Queues!Nothing
<1>1. /\ st \in [Proc -> {"READY", "BLOCKED", "DELETE"}]
      /\ UNCHANGED <<open_fifos, want>>
  BY DEF ReadersInv, FifoTypes, ReadReturns, destroy_process, create_process, kill_process
<1>2. BytesInv'
  BY <1>1 DEF BytesInv, Waits, Ring, Wrap
<1>3. /\ [j \in Key |-> Content(open_fifos'[j])] = [j \in Key |-> Content(open_fifos[j])]
      /\ [j \in Key |-> open_fifos'[j].read_queue] = [j \in Key |-> open_fifos[j].read_queue]
  BY <1>1
<1>4. CASE ReadReturns(p)
  <2>1. /\ reads' = [reads EXCEPT ![p] = NULL] /\ got' = [got EXCEPT ![p] = <<>>]
        /\ shut' = shut \ {p} /\ st' = st /\ st[p] = "READY" /\ reads[p] # NULL
        /\ call' = IF ~is_open(p, reads[p]) THEN <<"error">>
                   ELSE IF got[p] = <<>> THEN <<"unset">>
                   ELSE <<"returned", Len(got[p])>>
    BY <1>4 DEF ReadReturns
  <2>2. p \in shut \/ (is_open(p, reads[p]) /\ got[p] # <<>>)
    BY <2>1 DEF ReturnInv, ReturnsInv
  <2>3. \/ got[p] # <<>> /\ call' = <<"returned", Len(got[p])>>
        \/ p \in shut /\ call' = <<"error">>
        \/ p \in shut /\ got[p] = <<>> /\ call' = <<"unset">>
    BY <2>1, <2>2
  <2>4. DeadStay
    BY <2>1 DEF DeadStay
  <2>5. Queues!Return(p)
    BY <1>1, <1>3, <2>1, <2>3, <2>4 DEF Queues!Return, Queues!Forgets, DeadStay
  <2> QED
    BY <1>2, <2>5
<1>5. CASE destroy_process(p)
  <2>1. UNCHANGED <<st, reads, got, shut>> /\ call' = <<>>
    BY <1>5 DEF destroy_process
  <2>2. Queues!Nothing
    BY <1>1, <1>3, <2>1 DEF Queues!Nothing
  <2> QED
    BY <1>2, <2>2
<1>6. CASE create_process(p)
  <2>1. /\ reads' = [reads EXCEPT ![p] = NULL] /\ got' = [got EXCEPT ![p] = <<>>]
        /\ shut' = shut \ {p} /\ call' = <<>> /\ st' = [st EXCEPT ![p] = "READY"]
    BY <1>6 DEF create_process, Forgotten
  <2>2. {r \in Proc : st'[r] = "DELETE"} = {r \in Proc : st[r] = "DELETE"} \ {p}
    BY <1>1, <2>1
  <2>3. Queues!Renew(p)
    BY <1>1, <1>3, <2>1, <2>2 DEF Queues!Renew, Queues!Forgets
  <2> QED
    BY <1>2, <2>3
<1>7. CASE \E q \in Proc : kill_process(q, p)
  <2>1. /\ reads' = [reads EXCEPT ![p] = NULL] /\ got' = [got EXCEPT ![p] = <<>>]
        /\ shut' = shut \ {p} /\ call' = <<>> /\ st' = [st EXCEPT ![p] = "DELETE"]
    BY <1>7 DEF kill_process, Forgotten
  <2>2. {r \in Proc : st'[r] = "DELETE"} = {r \in Proc : st[r] = "DELETE"} \cup {p}
    BY <1>1, <2>1
  <2>3. Queues!Die(p)
    BY <1>1, <1>3, <2>1, <2>2 DEF Queues!Die, Queues!Forgets
  <2> QED
    BY <1>2, <2>3
<1> QED
  BY <1>4, <1>5, <1>6, <1>7

(* Every call of fifo.c is a step of bounded queues of bytes with a line   *)
(* of readers each: of the bytes that fifo_write is given, none is lost    *)
(* that it says it took, none is repeated, invented or out of order,       *)
(* wherever the indices of the buffer have wrapped around; fifo_read       *)
(* returns what it was given, and nobody waits beside a byte               *)
(* (fifo.c:109-267), for any number and size of fifos, as long as nobody   *)
(* writes to a full one.  What the kernel tells a reader whose fifo was    *)
(* closed before it returned is left open (fifo.c:185-190).                *)
THEOREM FifosAreByteQueues ==
    ASSUME NullIsNoKey, BuffersHaveRoom, ~WriteWhenFull
    PROVE  Spec => ImplementsByteQueues
<1>1. (Init => ReadersInv) /\ (ReadersInv /\ [Next]_vars => ReadersInv')
  BY ReadersInvariant
<1>2. ASSUME Init PROVE BytesInv /\ ReturnInv /\ Queues!Init
  <2>1. /\ open_fifos = [k \in Key |-> Closed] /\ open_fds = [p \in Proc |-> {}]
        /\ st = [p \in Proc |-> "READY"] /\ reads = [p \in Proc |-> NULL]
        /\ want = [p \in Proc |-> 0] /\ got = [p \in Proc |-> <<>>] /\ shut = {} /\ call = <<>>
    BY <1>2 DEF Init
  <2>2. \A k \in Key : /\ {"state", "read_queue"} \subseteq DOMAIN open_fifos[k] /\ Ring(open_fifos[k])
                       /\ open_fifos[k].read_queue = <<>> /\ Content(open_fifos[k]) = <<>>
    BY <2>1, ClosedIsEmpty
  <2>3. ToSet(<<>>) = {}
    BY DEF ToSet
  <2>4. BytesInv
    BY <2>1, <2>2, <2>3 DEF BytesInv, Waits
  <2>5. ReturnInv
    BY <2>1 DEF ReturnInv, ReturnsInv, DeadRead
  <2>6. {p \in Proc : st[p] = "DELETE"} = {}
    BY <2>1
  <2>7. Queues!Init
    BY <2>1, <2>2, <2>6 DEF Queues!Init
  <2> QED
    BY <2>4, <2>5, <2>7
<1>3. ASSUME ReadersInv, BytesInv, ReturnInv, [Next]_vars
      PROVE  BytesInv' /\ ReturnInv' /\ [Queues!Next]_(Queues!vars)
  <2>1. ASSUME NEW p \in Proc, NEW n \in Name, fifo_open(p, n)
        PROVE  BytesInv' /\ ReturnInv' /\ Queues!Next
    BY <1>3, <2>1, OpenImplements, OpenKeepsReturns DEF Queues!Next
  <2>2. ASSUME NEW p \in Proc, NEW k \in Key, fifo_close(p, k)
        PROVE  BytesInv' /\ ReturnInv' /\ Queues!Next
    BY <1>3, <2>2, CloseImplements, CloseKeepsReturns DEF Queues!Next
  <2>3. ASSUME NEW p \in Proc, NEW k \in Key, NEW n \in 1 .. MaxBytes, fifo_read(p, k, n)
        PROVE  BytesInv' /\ ReturnInv' /\ Queues!Next
    <3>1. BytesInv' /\ Queues!Read(p, k, n)
      BY <1>3, <2>3, ReadNowImplements, ReadLaterImplements
    <3>2. ReturnInv'
      BY <1>3, <2>3, ReadKeepsReturns
    <3> QED
      BY <3>1, <3>2 DEF Queues!Next
  <2>4. ASSUME NEW p \in Proc, NEW k \in Key, NEW source \in SeqOf(Byte, MaxBytes) \ {<<>>},
               fifo_write(p, k, source)
        PROVE  BytesInv' /\ ReturnInv' /\ Queues!Next
    <3>1. BytesInv' /\ Queues!Write(k, source) /\ Fed(k)
      BY <1>3, <2>4, WriteImplements
    <3>2. ReturnInv'
      BY <1>3, <2>4, <3>1, WriteKeepsReturns
    <3>3. source \in Queues!SeqOf(Byte, MaxBytes) \ {<<>>}
      BY DEF Queues!SeqOf, SeqOf
    <3> QED
      BY <3>1, <3>2, <3>3 DEF Queues!Next
  <2>5. ASSUME NEW p \in Proc, \/ ReadReturns(p) \/ destroy_process(p) \/ create_process(p)
                               \/ \E q \in Proc : kill_process(q, p)
        PROVE  BytesInv' /\ ReturnInv' /\ Queues!Next
    <3>1. /\ BytesInv'
          /\ Queues!Return(p) \/ Queues!Die(p) \/ Queues!Renew(p) \/ Queues!Nothing
      BY <1>3, <2>5, ProcessesImplement
    <3>2. ReturnInv'
      BY <1>3, <2>5, ProcessesKeepReturns
    <3> QED
      BY <3>1, <3>2 DEF Queues!Next
  <2>6. CASE UNCHANGED vars
    <3>1. UNCHANGED <<open_fifos, open_fds, st, reads, want, got, shut, call>>
      BY <2>6 DEF vars
    <3>2. BytesInv'
      BY <1>3, <3>1 DEF BytesInv, Waits, Ring, Wrap
    <3>3. ReturnInv'
      BY <1>3, <3>1 DEF ReturnInv, ReturnsInv, DeadRead, is_open
    <3>4. UNCHANGED Queues!vars
      BY <3>1 DEF Queues!vars
    <3> QED
      BY <3>2, <3>3, <3>4
  <2> QED
    BY <1>3, <2>1, <2>2, <2>3, <2>4, <2>5, <2>6 DEF Next
<1>4. Spec => Queues!Spec
  BY <1>1, <1>2, <1>3, PTL DEF Spec, Queues!Spec
<1> QED
  BY <1>4 DEF ImplementsByteQueues
=============================================================================
