-------------------------- MODULE Programs_proofs --------------------------
(***************************************************************************)
(* What the programs of user land keep, for any number of slots, items,    *)
(* philosophers, processes, commands and pages, and for lines of any       *)
(* length.                                                                 *)
(***************************************************************************)
EXTENDS Programs, OrderLemmas

-----------------------------------------------------------------------------
(* The producer and the consumer. *)

(* producerConsumer.c: an item is an int, and the fifo has a size.         *)
SizesAreNumbers == ITEM \in Nat \ {0} /\ BUF_SIZE \in Nat /\ MaxSlots \in Nat

Holds(place) == IF place = "writes" THEN 1 ELSE 0

(* Whole items, and with the slots as many as there have to be.            *)
Adds(items) ==
    /\ full = ITEM * items
    /\ empty + items + Holds(prod) + Holds(cons) = buf_size

SlotsInv ==
    /\ buf_size \in Nat
    /\ (buf_size > 0 /\ buf_size * ITEM <= BUF_SIZE) =>
         /\ ~overrun /\ empty \in Nat
         /\ \E items \in Nat : Adds(items)

(* All the slots fit, so that some of them and an item more do.            *)
LEMMA ItemsFit ==
    ASSUME SizesAreNumbers, NEW n \in Nat, n * ITEM <= BUF_SIZE, NEW k \in Nat, k <= n
    PROVE  k <= BUF_SIZE /\ ITEM * k <= BUF_SIZE /\ ITEM * k \in Nat
<1>1. PICK d \in Nat : n = k + d
  <2>1. n - k \in Nat /\ n = k + (n - k)
    OBVIOUS
  <2> QED
    BY <2>1
<1>2. PICK j \in Nat : ITEM = j + 1
  <2>1. ITEM - 1 \in Nat /\ ITEM = (ITEM - 1) + 1
    BY DEF SizesAreNumbers
  <2> QED
    BY <2>1
<1>3. k * j \in Nat /\ d * j \in Nat
  BY <1>1, <1>2
<1>4. n * ITEM = k * j + k + d * j + d
  BY <1>1, <1>2
<1>5. ITEM * k = k * j + k
  BY <1>2
<1> QED
  BY <1>1, <1>3, <1>4, <1>5 DEF SizesAreNumbers

(* Slots and items go on adding up.                                        *)
LEMMA SlotsInvariant ==
    ASSUME SizesAreNumbers
    PROVE  (Prod!Init => SlotsInv) /\ (SlotsInv /\ [Prod!Next]_(Prod!vars) => SlotsInv')
<1>1. Prod!Init => SlotsInv
  BY DEF Prod!Init, SlotsInv
<1>2. ASSUME SlotsInv, [Prod!Next]_(Prod!vars) PROVE SlotsInv'
  <2>1. CASE \E b \in -1 .. MaxSlots : Prod!producerConsumer(b)
    <3>1. PICK b \in -1 .. MaxSlots : Prod!producerConsumer(b)
      BY <2>1
    <3>2. b \in Nat /\ b > 0
      BY <3>1 DEF Prod!producerConsumer, SizesAreNumbers
    <3>3. /\ buf_size' = b /\ empty' = IF b < BUF_SIZE THEN b ELSE BUF_SIZE
          /\ (~(b > BUF_SIZE) => ~overrun') /\ full' = 0 /\ prod' = "reads" /\ cons' = "reads"
      BY <3>1 DEF Prod!producerConsumer, Prod!start_producer_consumer_problem, Prod!Least
    <3>4. ASSUME b * ITEM <= BUF_SIZE
          PROVE  ~overrun' /\ empty' \in Nat /\ Adds(0)'
      <4>1. b <= BUF_SIZE
        BY <3>2, <3>4, ItemsFit
      <4>2. empty' = b /\ ~overrun'
        BY <3>2, <3>3, <4>1 DEF SizesAreNumbers
      <4>3. ITEM * 0 = 0
        BY DEF SizesAreNumbers
      <4> QED
        BY <3>2, <3>3, <4>2, <4>3 DEF Adds, Holds
    <3> QED
      BY <3>2, <3>3, <3>4 DEF SlotsInv
  <2>2. ASSUME buf_size' = buf_size,
               \/ Prod!producer /\ UNCHANGED cons
               \/ Prod!consumer /\ UNCHANGED prod
               \/ UNCHANGED Prod!vars
        PROVE  SlotsInv'
    <3> SUFFICES ASSUME buf_size > 0, buf_size * ITEM <= BUF_SIZE
                 PROVE  ~overrun' /\ empty' \in Nat /\ \E items \in Nat : Adds(items)'
      BY <1>2, <2>2 DEF SlotsInv
    <3>1. /\ buf_size \in Nat /\ ~overrun /\ empty \in Nat
          /\ ITEM \in Nat \ {0} /\ BUF_SIZE \in Nat
      BY <1>2 DEF SlotsInv, SizesAreNumbers
    <3>2. PICK items \in Nat : Adds(items)
      BY <1>2 DEF SlotsInv
    <3>3. /\ full = ITEM * items
          /\ empty + items + Holds(prod) + Holds(cons) = buf_size
          /\ Holds(prod) \in 0 .. 1 /\ Holds(cons) \in 0 .. 1
      BY <3>2 DEF Adds, Holds
    <3>4. items <= buf_size /\ empty <= buf_size
      BY <3>1, <3>3
    <3>5. full \in Nat /\ full <= BUF_SIZE
      BY <3>3, <3>4, <3>1, ItemsFit
    <3>6. CASE Prod!producer /\ UNCHANGED cons /\ prod = "reads"
      <4>1. /\ empty > 0 /\ empty' = empty - 1 /\ prod' = "writes" /\ cons' = cons
            /\ full' = full /\ overrun' = overrun
        BY <3>6 DEF Prod!producer
      <4>2. Adds(items)'
        BY <2>2, <3>1, <3>3, <3>6, <4>1 DEF Adds, Holds
      <4> QED
        BY <3>1, <4>1, <4>2
    <3>7. CASE Prod!producer /\ UNCHANGED cons /\ prod = "writes"
      <4>1. /\ full' = full + IF ITEM < BUF_SIZE - full THEN ITEM ELSE BUF_SIZE - full
            /\ ~overrun /\ ~(full + ITEM > BUF_SIZE) => ~overrun'
            /\ prod' = "reads" /\ cons' = cons /\ empty' = empty
        BY <3>7 DEF Prod!producer, Prod!Least
      <4>2. items + 1 <= buf_size
        BY <3>1, <3>3, <3>7 DEF Holds
      <4>3. ITEM * (items + 1) <= BUF_SIZE
        BY <3>1, <4>2, ItemsFit
      <4>4. ITEM * (items + 1) = full + ITEM
        BY <3>1, <3>3
      <4>5. full' = ITEM * (items + 1) /\ ~overrun'
        BY <3>1, <3>5, <4>1, <4>3, <4>4
      <4>6. Adds(items + 1)'
        BY <2>2, <3>1, <3>3, <3>7, <4>1, <4>5 DEF Adds, Holds
      <4> QED
        BY <3>1, <4>1, <4>5, <4>6
    <3>8. CASE Prod!consumer /\ UNCHANGED prod /\ cons = "reads"
      <4>1. /\ full > 0 /\ full' = full - (IF ITEM < full THEN ITEM ELSE full)
            /\ cons' = "writes" /\ prod' = prod /\ empty' = empty /\ overrun' = overrun
        BY <3>8 DEF Prod!consumer, Prod!Least
      <4>2. items # 0
        BY <3>1, <3>3, <4>1
      <4>3. PICK less \in Nat : items = less + 1
        <5>1. items - 1 \in Nat /\ items = (items - 1) + 1
          BY <4>2
        <5> QED
          BY <5>1
      <4>4. full = ITEM * less + ITEM /\ ITEM * less \in Nat
        BY <3>1, <3>3, <4>3
      <4>5. full' = ITEM * less
        BY <3>1, <4>1, <4>4
      <4>6. Adds(less)'
        BY <2>2, <3>1, <3>3, <3>8, <4>1, <4>3, <4>5 DEF Adds, Holds
      <4> QED
        BY <3>1, <4>1, <4>6
    <3>9. CASE Prod!consumer /\ UNCHANGED prod /\ cons = "writes"
      <4>1. /\ empty' = empty + IF 1 < BUF_SIZE - empty THEN 1 ELSE BUF_SIZE - empty
            /\ ~overrun /\ ~(empty + 1 > BUF_SIZE) => ~overrun'
            /\ cons' = "reads" /\ prod' = prod /\ full' = full
        BY <3>9 DEF Prod!consumer, Prod!Least
      <4>2. empty + 1 <= buf_size
        BY <3>1, <3>3, <3>9 DEF Holds
      <4>3. empty + 1 <= BUF_SIZE
        BY <3>1, <4>2, ItemsFit
      <4>4. empty' = empty + 1 /\ ~overrun'
        BY <3>1, <4>1, <4>3
      <4>5. Adds(items)'
        BY <2>2, <3>1, <3>3, <3>9, <4>1, <4>4 DEF Adds, Holds
      <4> QED
        BY <3>1, <4>4, <4>5
    <3>10. CASE UNCHANGED Prod!vars
      BY <3>1, <3>2, <3>10 DEF Prod!vars, Adds, Holds
    <3> QED
      BY <2>2, <3>6, <3>7, <3>8, <3>9, <3>10 DEF Prod!producer, Prod!consumer
  <2>3. CASE Prod!control_speed
    BY <2>3 DEF Prod!control_speed, Prod!Ends, SlotsInv
  <2> QED
    BY <1>2, <2>1, <2>2, <2>3 DEF Prod!Next, Prod!vars
<1> QED
  BY <1>1, <1>2

(* Slots and items are always as many as the problem was started with, no  *)
(* item is cut in two and no write finds its fifo full, while all of them  *)
(* fit (producerConsumer.c:17-70).                                         *)
THEOREM SlotsAddUp ==
    ASSUME SizesAreNumbers
    PROVE  Prod!Spec => []SlotsAreConserved
<1>1. ASSUME SlotsInv PROVE SlotsAreConserved
  <2> SUFFICES ASSUME buf_size > 0, buf_size * ITEM <= BUF_SIZE
               PROVE  /\ ~overrun /\ full % ITEM = 0
                      /\ empty + full \div ITEM + (IF prod = "writes" THEN 1 ELSE 0)
                           + (IF cons = "writes" THEN 1 ELSE 0) = buf_size
    BY DEF SlotsAreConserved, Prod!SlotsAreConserved
  <2>1. PICK items \in Nat : Adds(items)
    BY <1>1 DEF SlotsInv
  <2>2. full % ITEM = 0 /\ full \div ITEM = items
    BY <2>1, WholeItems DEF Adds, SizesAreNumbers
  <2> QED
    BY <1>1, <2>1, <2>2 DEF SlotsInv, Adds, Holds
<1> QED
  BY <1>1, SlotsInvariant, PTL DEF Prod!Spec

-----------------------------------------------------------------------------
(* The philosophers. *)

(* philo.c: the entries of philo_array.                                    *)
TableIsFinite == MAX_PHILOSOPHERS \in Nat

Table == [Phil!Index -> [state : {"THINKING", "HUNGRY", "EATING", "DYING"},
                         pc : {"none", "thinks", "dies", "takes", "forks", "eats"},
                         die : BOOLEAN, mut : BOOLEAN, signalled : BOOLEAN]]

PhilTypes ==
    philosopherCount \in 0 .. MAX_PHILOSOPHERS /\ philo \in Table

(* Only the last one is ever marked, while the listener waits for it.      *)
LastIsMarked ==
    \A i \in Phil!Index :
        philo[i].die => i = philosopherCount - 1 /\ listener = "waits"

(* Who is neither at the forks nor eating is neither hungry nor eats, and  *)
(* who waits to leave is marked.                                           *)
PlacesAgree ==
    \A i \in Phil!Index :
        /\ philo[i].pc \in {"thinks", "takes"} => philo[i].state = "THINKING"
        /\ philo[i].pc = "dies" => philo[i].state = "DYING" /\ philo[i].die

TableInv ==
    /\ PhilTypes /\ LastIsMarked /\ PlacesAgree
    /\ Phil!NeighboursEatApart /\ Phil!HungryHasAReason

(* The neighbours of a place, without the arithmetic of philo.h:4-5.     *)
LEMMA Neighbours ==
    ASSUME philosopherCount \in Nat, NEW i \in Phil!Seated
    PROVE  /\ i \in Nat /\ i < philosopherCount
           /\ Phil!LEFT(i) = IF i = 0 THEN philosopherCount - 1 ELSE i - 1
           /\ Phil!RIGHT(i) = IF i = philosopherCount - 1 THEN 0 ELSE i + 1
           /\ Phil!LEFT(i) \in Phil!Seated /\ Phil!RIGHT(i) \in Phil!Seated
           /\ Phil!LEFT(Phil!RIGHT(i)) = i /\ Phil!RIGHT(Phil!LEFT(i)) = i
<1> DEFINE n == philosopherCount
<1>1. n \in Nat \ {0} /\ i \in 0 .. n - 1
  BY DEF Phil!Seated
<1>2. ASSUME NEW j \in 0 .. n - 1
      PROVE  /\ Phil!LEFT(j) = IF j = 0 THEN n - 1 ELSE j - 1
             /\ Phil!RIGHT(j) = IF j = n - 1 THEN 0 ELSE j + 1
  <2>1. j + n - 1 \in 0 .. 2 * n - 1 /\ j + 1 \in 0 .. 2 * n - 1
    BY <1>1
  <2> HIDE DEF n
  <2>2. (j + n - 1) % n = IF j + n - 1 < n THEN j + n - 1 ELSE (j + n - 1) - n
    BY <1>1, <2>1, WrapsOnce
  <2>3. (j + 1) % n = IF j + 1 < n THEN j + 1 ELSE (j + 1) - n
    BY <1>1, <2>1, WrapsOnce
  <2>4. (j + n - 1) % n = IF j = 0 THEN n - 1 ELSE j - 1
    BY <1>1, <2>2
  <2>5. (j + 1) % n = IF j = n - 1 THEN 0 ELSE j + 1
    BY <1>1, <2>3
  <2> QED
    BY <2>4, <2>5 DEF Phil!LEFT, Phil!RIGHT, n
<1>3. /\ Phil!LEFT(i) = IF i = 0 THEN n - 1 ELSE i - 1
      /\ Phil!RIGHT(i) = IF i = n - 1 THEN 0 ELSE i + 1
  BY <1>1, <1>2
<1>4. Phil!LEFT(i) \in 0 .. n - 1 /\ Phil!RIGHT(i) \in 0 .. n - 1
  BY <1>1, <1>3
<1>5. PICK l : l = Phil!LEFT(i)
  OBVIOUS
<1>6. PICK r : r = Phil!RIGHT(i)
  OBVIOUS
<1>7. Phil!RIGHT(l) = i /\ Phil!LEFT(r) = i
  BY <1>1, <1>2, <1>3, <1>4, <1>5, <1>6
<1> QED
  BY <1>1, <1>3, <1>4, <1>5, <1>6, <1>7 DEF Phil!Seated

(* The table is round: every place has two, which have it between them.    *)
TableIsRound ==
    \A i \in Phil!Seated :
        /\ Phil!LEFT(i) \in Phil!Seated /\ Phil!RIGHT(i) \in Phil!Seated
        /\ Phil!LEFT(Phil!RIGHT(i)) = i /\ Phil!RIGHT(Phil!LEFT(i)) = i
        /\ philosopherCount > 1 => Phil!LEFT(i) # i /\ Phil!RIGHT(i) # i

Sides ==
    \A i \in Phil!Seated :
        /\ Phil!LEFT(i) = IF i = 0 THEN philosopherCount - 1 ELSE i - 1
        /\ Phil!RIGHT(i) = IF i = philosopherCount - 1 THEN 0 ELSE i + 1

(* The table is round for any number of seats.                             *)
LEMMA Round == philosopherCount \in Nat => TableIsRound /\ Sides
<1>1. philosopherCount \in Nat => Sides
  BY Neighbours DEF Sides
<1> SUFFICES ASSUME philosopherCount \in Nat, NEW i \in Phil!Seated
             PROVE  /\ Phil!LEFT(i) \in Phil!Seated /\ Phil!RIGHT(i) \in Phil!Seated
                    /\ Phil!LEFT(Phil!RIGHT(i)) = i /\ Phil!RIGHT(Phil!LEFT(i)) = i
                    /\ philosopherCount > 1 => Phil!LEFT(i) # i /\ Phil!RIGHT(i) # i
  BY <1>1 DEF TableIsRound
<1> QED
  BY Neighbours

(* After a step too.                                                       *)
LEMMA RoundNext == philosopherCount' \in Nat => TableIsRound' /\ Sides'
<1>1. philosopherCount \in Nat => TableIsRound /\ Sides
  BY Round
<1>2. (philosopherCount \in Nat => TableIsRound /\ Sides)'
  BY <1>1, PTL
<1> QED
  BY <1>2

(* The two properties, of any array.                                       *)
Apart(ph) ==
    \A i \in Phil!Seated :
        (philosopherCount > 1 /\ Phil!Eats(ph, i)) => ~Phil!Eats(ph, Phil!RIGHT(i))

HasReason(ph, i) ==
    ph[i].state = "HUNGRY" => Phil!Eats(ph, Phil!LEFT(i)) \/ Phil!Eats(ph, Phil!RIGHT(i))

(* test makes nobody eat beside another, and takes no reason away.         *)
LEMMA Tested ==
    ASSUME TableIsRound, Phil!Seated \subseteq Phil!Index,
           NEW ph \in Table, NEW i \in Phil!Seated,
           NEW t, t = Phil!test(ph, i)
    PROVE  /\ t \in Table
           /\ \A j \in Phil!Index : t[j].pc = ph[j].pc /\ t[j].die = ph[j].die
           /\ \A j \in Phil!Index : t[j].state = ph[j].state \/ ph[j].state = "HUNGRY"
           /\ Apart(ph) => Apart(t)
           /\ \A j \in Phil!Seated : HasReason(ph, j) => HasReason(t, j)
           /\ HasReason(t, i)
<1> DEFINE Free == ph[i].state = "HUNGRY" /\ ~Phil!Eats(ph, Phil!LEFT(i))
                     /\ ~Phil!Eats(ph, Phil!RIGHT(i))
<1>1. CASE ~Free
  <2>1. t = ph
    BY <1>1 DEF Phil!test
  <2>2. HasReason(t, i)
    BY <1>1, <2>1 DEF HasReason
  <2> QED
    BY <2>1, <2>2
<1>2. CASE Free
  <2>1. t = [ph EXCEPT ![i].state = "EATING", ![i].mut = TRUE]
    BY <1>2 DEF Phil!test
  <2>2. /\ t \in Table
        /\ \A j \in Phil!Index : /\ t[j].pc = ph[j].pc /\ t[j].die = ph[j].die
                                 /\ j # i => t[j].state = ph[j].state
        /\ t[i].state = "EATING"
    <3>1. i \in Phil!Index
      OBVIOUS
    <3>2. t \in Table
      BY <2>1, <3>1, ZenonT(40) DEF Table
    <3>3. \A j \in Phil!Index : j # i => t[j] = ph[j]
      BY <2>1 DEF Table
    <3>4. t[i].pc = ph[i].pc /\ t[i].die = ph[i].die /\ t[i].state = "EATING"
      BY <2>1, <3>1 DEF Table
    <3> QED
      BY <3>2, <3>3, <3>4
  <2>3. \A j \in Phil!Seated : Phil!Eats(t, j) <=> (Phil!Eats(ph, j) \/ j = i)
    BY <2>2 DEF Phil!Eats
  <2>4. ASSUME Apart(ph) PROVE Apart(t)
    <3> SUFFICES ASSUME NEW j \in Phil!Seated, philosopherCount > 1, Phil!Eats(t, j)
                 PROVE  ~Phil!Eats(t, Phil!RIGHT(j))
      BY DEF Apart
    <3> QED
      BY <1>2, <2>3, <2>4 DEF Apart, TableIsRound
  <2>5. ASSUME NEW j \in Phil!Seated, HasReason(ph, j) PROVE HasReason(t, j)
    BY <2>2, <2>3, <2>5 DEF HasReason, TableIsRound
  <2> QED
    BY <1>2, <2>2, <2>4, <2>5 DEF HasReason
<1> QED
  BY <1>1, <1>2

(* A signal changes nothing of what the properties look at.                *)
LEMMA Signalled ==
    ASSUME TableIsRound, Phil!Seated \subseteq Phil!Index,
           NEW ph \in Table, NEW i \in Phil!Seated,
           NEW s, s = Phil!signal(ph, i)
    PROVE  /\ s \in Table
           /\ \A j \in Phil!Index : /\ s[j].pc = ph[j].pc /\ s[j].die = ph[j].die
                                    /\ s[j].state = ph[j].state
           /\ Apart(ph) => Apart(s)
           /\ \A j \in Phil!Seated : HasReason(ph, j) => HasReason(s, j)
<1>1. PICK b : b = (ph[i].pc = "dies")
  OBVIOUS
<1>2. b \in BOOLEAN
  BY <1>1
<1>3. s = [ph EXCEPT ![i].signalled = b]
  BY <1>1 DEF Phil!signal
<1>4. s \in Table /\ \A j \in Phil!Index : /\ s[j].pc = ph[j].pc /\ s[j].die = ph[j].die
                                           /\ s[j].state = ph[j].state
  BY <1>2, <1>3 DEF Table
<1> QED
  BY <1>4 DEF Apart, HasReason, Phil!Eats, TableIsRound

(* What a step must show when nobody comes or goes.                        *)
LEMMA SameSeats ==
    ASSUME TableInv, UNCHANGED <<philosopherCount, surprised>>,
           NEW ph \in Table, philo' = ph, Apart(ph),
           ~surprised => \A i \in Phil!Seated : HasReason(ph, i),
           \A i \in Phil!Index :
             /\ ph[i].die => i = philosopherCount - 1 /\ listener' = "waits"
             /\ ph[i].pc \in {"thinks", "takes"} => ph[i].state = "THINKING"
             /\ ph[i].pc = "dies" => ph[i].state = "DYING" /\ ph[i].die
    PROVE  TableInv'
<1>1. PhilTypes' /\ LastIsMarked' /\ PlacesAgree'
  BY DEF TableInv, PhilTypes, LastIsMarked, PlacesAgree, Phil!Index, Table
<1>2. Phil!NeighboursEatApart'
  BY DEF Phil!NeighboursEatApart, Apart, Phil!Seated, Phil!Eats, Phil!RIGHT
<1>3. Phil!HungryHasAReason'
  BY DEF Phil!HungryHasAReason, HasReason, Phil!Seated, Phil!Eats, Phil!RIGHT, Phil!LEFT
<1> QED
  BY <1>1, <1>2, <1>3 DEF TableInv

(* What holds of the array before every step.                              *)
LEMMA Before ==
    ASSUME TableIsFinite, TableInv
    PROVE  /\ philosopherCount \in Nat /\ philosopherCount <= MAX_PHILOSOPHERS
           /\ philo \in Table /\ TableIsRound /\ Sides
           /\ Phil!Seated \subseteq Phil!Index
           /\ Apart(philo)
           /\ ~surprised => \A i \in Phil!Seated : HasReason(philo, i)
           /\ \A i \in Phil!Index :
                /\ philo[i].die => i = philosopherCount - 1 /\ listener = "waits"
                /\ philo[i].pc \in {"thinks", "takes"} => philo[i].state = "THINKING"
                /\ philo[i].pc = "dies" => philo[i].state = "DYING" /\ philo[i].die
<1>1. /\ philosopherCount \in Nat /\ philosopherCount <= MAX_PHILOSOPHERS /\ philo \in Table
      /\ Phil!Seated \subseteq Phil!Index
  BY DEF TableInv, PhilTypes, TableIsFinite, Phil!Seated, Phil!Index
<1>2. Apart(philo) /\ (~surprised => \A i \in Phil!Seated : HasReason(philo, i))
  BY DEF TableInv, Phil!NeighboursEatApart, Apart, Phil!HungryHasAReason, HasReason
<1> QED
  BY <1>1, <1>2, Round DEF TableInv, LastIsMarked, PlacesAgree

(* A command that marks the last one, or marks nobody.                     *)
LEMMA MarksKeep ==
    ASSUME TableIsFinite, TableInv,
           UNCHANGED <<philosopherCount, surprised>>,
           \/ Phil!MarkLast /\ listener' = "waits"
           \/ UNCHANGED philo /\ (listener = "waits" => listener' = "waits")
    PROVE  TableInv'
<1>1. CASE UNCHANGED philo /\ (listener = "waits" => listener' = "waits")
  BY <1>1, Before, SameSeats
<1>2. CASE Phil!MarkLast /\ listener' = "waits"
  <2>1. PICK ph : ph = [philo EXCEPT ![philosopherCount - 1].die = TRUE]
    OBVIOUS
  <2>2. philo' = ph
    BY <1>2, <2>1 DEF Phil!MarkLast
  <2>3. /\ ph \in Table
        /\ \A i \in Phil!Index : /\ ph[i].state = philo[i].state /\ ph[i].pc = philo[i].pc
                                 /\ ph[i].die => philo[i].die \/ i = philosopherCount - 1
                                 /\ philo[i].die => ph[i].die
    BY <2>1, Before DEF Table
  <2>4. Apart(ph) /\ (~surprised => \A i \in Phil!Seated : HasReason(ph, i))
    BY <2>3, Before DEF Apart, HasReason, Phil!Eats, TableIsRound
  <2> QED
    BY <1>2, <2>2, <2>3, <2>4, Before, SameSeats
<1> QED
  BY <1>1, <1>2

(* One more sits down between the last one and the first.                  *)
LEMMA AddKeeps ==
    ASSUME TableIsFinite, TableInv, Phil!add_philosopher
    PROVE  TableInv'
<1> DEFINE n == philosopherCount
<1>1. /\ n \in Nat /\ n < MAX_PHILOSOPHERS /\ n \in Phil!Index
      /\ philosopherCount' = n + 1
      /\ listener # "waits"
  BY Before DEF Phil!add_philosopher, TableIsFinite, Phil!Index
<1>2. PICK new : new = [Phil!Absent EXCEPT !.pc = "thinks"]
  OBVIOUS
<1>3. /\ philo' = [philo EXCEPT ![n] = new]
      /\ new \in [state : {"THINKING", "HUNGRY", "EATING", "DYING"},
                  pc : {"none", "thinks", "dies", "takes", "forks", "eats"},
                  die : BOOLEAN, mut : BOOLEAN, signalled : BOOLEAN]
      /\ new.state = "THINKING" /\ new.pc = "thinks" /\ new.die = FALSE
  BY <1>2 DEF Phil!add_philosopher, Phil!Absent
<1>4. /\ philo' \in Table /\ philo'[n] = new
      /\ \A i \in Phil!Index \ {n} : philo'[i] = philo[i]
  BY <1>1, <1>3, Before DEF Table
<1>5. PhilTypes' /\ LastIsMarked' /\ PlacesAgree'
  <2>1. PhilTypes'
    BY <1>1, <1>4, Before DEF PhilTypes, TableIsFinite, Phil!Index, Table
  <2>2. \A i \in Phil!Index : philo'[i].die = FALSE
    BY <1>1, <1>3, <1>4, Before DEF Table
  <2>3. LastIsMarked'
    BY <2>2 DEF LastIsMarked, Phil!Index
  <2>4. PlacesAgree'
    BY <1>3, <1>4, <2>2, Before DEF PlacesAgree, Phil!Index
  <2> QED
    BY <2>1, <2>3, <2>4
<1>6. Sides /\ Sides'
  <2>1. philosopherCount' \in Nat
    BY <1>1
  <2> QED
    BY <2>1, RoundNext, Before
<1>7. \A i \in 0 .. n - 1 : /\ i \in Phil!Index \ {n} /\ i \in Phil!Seated
                            /\ philo'[i] = philo[i]
  BY <1>1, <1>4, Before DEF TableIsFinite, Phil!Seated, Phil!Index
<1>8. \A i : i \in Phil!Seated' <=> i \in 0 .. n - 1 \/ i = n
  BY <1>1 DEF Phil!Seated
<1>9. Phil!NeighboursEatApart'
  <2> SUFFICES ASSUME NEW i \in Phil!Seated', philosopherCount' > 1, philo'[i].state = "EATING"
               PROVE  philo'[Phil!RIGHT(i)'].state # "EATING"
    BY DEF Phil!NeighboursEatApart, Phil!Eats
  <2>1. i \in 0 .. n - 1
    BY <1>3, <1>4, <1>8
  <2>2. CASE i = n - 1
    <3>1. Phil!RIGHT(i)' = n
      BY <1>1, <1>6, <2>1, <2>2 DEF Sides
    <3> QED
      BY <1>3, <1>4, <3>1
  <2>3. CASE i # n - 1
    <3>1. Phil!RIGHT(i)' = i + 1 /\ Phil!RIGHT(i) = i + 1 /\ i + 1 \in 0 .. n - 1 /\ n > 1
      BY <1>1, <1>6, <1>7, <2>1, <2>3 DEF Sides
    <3> QED
      BY <1>7, <2>1, <3>1, Before DEF Apart, Phil!Eats
  <2> QED
    BY <2>2, <2>3
<1>10. Phil!HungryHasAReason'
  <2> SUFFICES ASSUME ~surprised', NEW i \in Phil!Seated', philo'[i].state = "HUNGRY"
               PROVE  philo'[Phil!LEFT(i)'].state = "EATING" \/ philo'[Phil!RIGHT(i)'].state = "EATING"
    BY DEF Phil!HungryHasAReason, Phil!Eats
  <2>1. /\ ~surprised
        /\ n > 1 => {philo[0].state, philo[n - 1].state} # {"HUNGRY", "EATING"}
    BY DEF Phil!add_philosopher
  <2>2. i \in 0 .. n - 1 /\ philo[i].state = "HUNGRY"
    BY <1>3, <1>4, <1>7, <1>8
  <2>3. philo[Phil!LEFT(i)].state = "EATING" \/ philo[Phil!RIGHT(i)].state = "EATING"
    BY <1>7, <2>1, <2>2, Before DEF HasReason, Phil!Eats
  <2>4. /\ Phil!LEFT(i) = IF i = 0 THEN n - 1 ELSE i - 1
        /\ Phil!RIGHT(i) = IF i = n - 1 THEN 0 ELSE i + 1
        /\ Phil!LEFT(i)' = IF i = 0 THEN n ELSE i - 1
        /\ Phil!RIGHT(i)' = IF i = n THEN 0 ELSE i + 1
    BY <1>1, <1>6, <1>7, <1>8, <2>2 DEF Sides
  <2>5. n > 1
    <3>1. n = 1 => i = 0 /\ Phil!LEFT(i) = 0 /\ Phil!RIGHT(i) = 0
      BY <1>1, <2>2, <2>4
    <3> QED
      BY <1>1, <2>2, <2>3, <3>1
  <2>6. CASE philo[Phil!LEFT(i)].state = "EATING"
    <3>1. i # 0
      <4> SUFFICES ASSUME i = 0 PROVE FALSE
        OBVIOUS
      <4>1. Phil!LEFT(i) = n - 1
        BY <2>4
      <4>2. {philo[0].state, philo[n - 1].state} = {"HUNGRY", "EATING"}
        BY <2>2, <2>6, <4>1
      <4> QED
        BY <2>1, <2>5, <4>2
    <3>2. i - 1 \in 0 .. n - 1 /\ Phil!LEFT(i)' = i - 1 /\ Phil!LEFT(i) = i - 1
      BY <1>1, <2>2, <2>4, <3>1
    <3> QED
      BY <1>7, <2>6, <3>2
  <2>7. CASE philo[Phil!RIGHT(i)].state = "EATING"
    <3>1. i # n - 1
      <4> SUFFICES ASSUME i = n - 1 PROVE FALSE
        OBVIOUS
      <4>1. Phil!RIGHT(i) = 0
        BY <2>4
      <4>2. {philo[0].state, philo[n - 1].state} = {"HUNGRY", "EATING"}
        BY <2>2, <2>7, <4>1
      <4> QED
        BY <2>1, <2>5, <4>2
    <3>2. i + 1 \in 0 .. n - 1 /\ Phil!RIGHT(i)' = i + 1 /\ Phil!RIGHT(i) = i + 1
      BY <1>1, <2>2, <2>4, <3>1
    <3> QED
      BY <1>7, <2>7, <3>2
  <2> QED
    BY <2>3, <2>6, <2>7
<1> QED
  BY <1>5, <1>9, <1>10 DEF TableInv

(* The last one leaves, not between two who eat: the others close up.      *)
LEMMA LeavesKeeps ==
    ASSUME TableIsFinite, TableInv, NEW i \in Phil!Seated,
           philo[i].die, philo[i].state \in {"THINKING", "DYING"}, ~Phil!MustStay(i),
           Phil!Leaves(i), surprised' = surprised
    PROVE  TableInv'
<1> DEFINE n == philosopherCount
<1>1. /\ n \in Nat /\ n <= MAX_PHILOSOPHERS /\ n >= 1 /\ i = n - 1 /\ i \in Phil!Index
      /\ philosopherCount' = n - 1 /\ listener' = "told"
  BY Before DEF Phil!Leaves, Phil!Seated
<1>2. PICK gone : gone = [Phil!Absent EXCEPT !.state = "DYING"]
  OBVIOUS
<1>3. /\ philo' = [philo EXCEPT ![i] = gone]
      /\ gone \in [state : {"THINKING", "HUNGRY", "EATING", "DYING"},
                   pc : {"none", "thinks", "dies", "takes", "forks", "eats"},
                   die : BOOLEAN, mut : BOOLEAN, signalled : BOOLEAN]
      /\ gone.state = "DYING" /\ gone.pc = "none" /\ gone.die = FALSE
  BY <1>2 DEF Phil!Leaves, Phil!Absent
<1>4. /\ philo' \in Table /\ philo'[i] = gone
      /\ \A j \in Phil!Index \ {i} : philo'[j] = philo[j]
  BY <1>1, <1>3, Before DEF Table
<1>5. PhilTypes' /\ LastIsMarked' /\ PlacesAgree'
  <2>1. PhilTypes'
    BY <1>1, <1>4 DEF PhilTypes, TableIsFinite, Phil!Index, Table
  <2>2. \A j \in Phil!Index : philo'[j].die = FALSE
    BY <1>1, <1>3, <1>4, Before DEF Table
  <2>3. LastIsMarked'
    BY <2>2 DEF LastIsMarked, Phil!Index
  <2>4. PlacesAgree'
    BY <1>3, <1>4, <2>2, Before DEF PlacesAgree, Phil!Index
  <2> QED
    BY <2>1, <2>3, <2>4
<1>6. Sides /\ Sides'
  <2>1. philosopherCount' \in Nat
    BY <1>1
  <2> QED
    BY <2>1, RoundNext, Before
<1>7. \A j \in 0 .. n - 2 : /\ j \in Phil!Index \ {i} /\ j \in Phil!Seated
                            /\ philo'[j] = philo[j]
  BY <1>1, <1>4, Before DEF TableIsFinite, Phil!Seated, Phil!Index
<1>8. \A j : j \in Phil!Seated' <=> j \in 0 .. n - 2
  BY <1>1 DEF Phil!Seated
<1>9. /\ Phil!LEFT(i) = IF i = 0 THEN n - 1 ELSE i - 1
      /\ Phil!RIGHT(i) = 0
  BY <1>1, <1>6 DEF Sides
<1>10. \A j \in 0 .. n - 2 : /\ Phil!LEFT(j) = IF j = 0 THEN n - 1 ELSE j - 1
                             /\ Phil!RIGHT(j) = j + 1
                             /\ Phil!LEFT(j)' = IF j = 0 THEN n - 2 ELSE j - 1
                             /\ Phil!RIGHT(j)' = IF j = n - 2 THEN 0 ELSE j + 1
  BY <1>1, <1>6, <1>7, <1>8 DEF Sides
<1>11. Phil!NeighboursEatApart'
  <2> SUFFICES ASSUME NEW j \in Phil!Seated', philosopherCount' > 1, philo'[j].state = "EATING"
               PROVE  philo'[Phil!RIGHT(j)'].state # "EATING"
    BY DEF Phil!NeighboursEatApart, Phil!Eats
  <2>1. j \in 0 .. n - 2 /\ n > 2 /\ philo[j].state = "EATING"
    BY <1>1, <1>7, <1>8
  <2>2. CASE j = n - 2
    <3>1. Phil!RIGHT(j)' = 0 /\ Phil!LEFT(i) = n - 2 /\ 0 \in 0 .. n - 2
      BY <1>1, <1>9, <1>10, <2>1, <2>2
    <3>2. philo[0].state # "EATING"
      BY <1>9, <2>1, <2>2, <3>1 DEF Phil!MustStay, Phil!Eats
    <3> QED
      BY <1>7, <3>1, <3>2
  <2>3. CASE j # n - 2
    <3>1. Phil!RIGHT(j)' = j + 1 /\ Phil!RIGHT(j) = j + 1 /\ j + 1 \in 0 .. n - 2
      BY <1>1, <1>10, <2>1, <2>3
    <3> QED
      BY <1>1, <1>7, <2>1, <3>1, Before DEF Apart, Phil!Eats
  <2> QED
    BY <2>2, <2>3
<1>12. Phil!HungryHasAReason'
  <2> SUFFICES ASSUME ~surprised', NEW j \in Phil!Seated', philo'[j].state = "HUNGRY"
               PROVE  philo'[Phil!LEFT(j)'].state = "EATING" \/ philo'[Phil!RIGHT(j)'].state = "EATING"
    BY DEF Phil!HungryHasAReason, Phil!Eats
  <2>1. j \in 0 .. n - 2 /\ philo[j].state = "HUNGRY" /\ philo[i].state # "EATING"
    BY <1>7, <1>8
  <2>2. philo[Phil!LEFT(j)].state = "EATING" \/ philo[Phil!RIGHT(j)].state = "EATING"
    BY <1>7, <2>1, Before DEF HasReason, Phil!Eats
  <2>3. CASE philo[Phil!LEFT(j)].state = "EATING"
    <3>1. j # 0 /\ j - 1 \in 0 .. n - 2 /\ Phil!LEFT(j)' = j - 1 /\ Phil!LEFT(j) = j - 1
      BY <1>1, <1>10, <2>1, <2>3
    <3> QED
      BY <1>7, <2>3, <3>1
  <2>4. CASE philo[Phil!RIGHT(j)].state = "EATING"
    <3>1. j # n - 2 /\ j + 1 \in 0 .. n - 2 /\ Phil!RIGHT(j)' = j + 1 /\ Phil!RIGHT(j) = j + 1
      BY <1>1, <1>10, <2>1, <2>4
    <3> QED
      BY <1>7, <2>4, <3>1
  <2> QED
    BY <2>2, <2>3, <2>4
<1> QED
  BY <1>5, <1>11, <1>12 DEF TableInv

(* The one that was marked waits: it was not eating.                       *)
LEMMA WaitsKeeps ==
    ASSUME TableIsFinite, TableInv, NEW i \in Phil!Seated,
           philo[i].die, philo[i].state \in {"THINKING", "DYING"},
           Phil!Waits(i), surprised' = surprised
    PROVE  TableInv'
<1>1. PICK ph : ph = [philo EXCEPT ![i].state = "DYING", ![i].pc = "dies", ![i].signalled = FALSE]
  OBVIOUS
<1>2. /\ philo' = ph /\ UNCHANGED <<philosopherCount, surprised>>
      /\ listener' = listener /\ i \in Phil!Index
  BY <1>1, Before DEF Phil!Waits
<1>3. /\ ph \in Table
      /\ \A j \in Phil!Index : j # i => ph[j] = philo[j]
      /\ ph[i].state = "DYING" /\ ph[i].pc = "dies" /\ ph[i].die = philo[i].die
  BY <1>1, <1>2, Before, ZenonT(40) DEF Table
<1>4. Apart(ph) /\ (~surprised => \A j \in Phil!Seated : HasReason(ph, j))
  BY <1>3, Before DEF Apart, HasReason, Phil!Eats, TableIsRound
<1> QED
  BY <1>2, <1>3, <1>4, Before, SameSeats

(* Who takes its place at the table, or has its forks.                     *)
LEMMA DiesKeeps ==
    ASSUME TableIsFinite, TableInv, NEW i \in Phil!Index,
           Phil!should_die(i) \/ Phil!WakesUpDying(i)
    PROVE  TableInv'
<1>1. /\ i \in Phil!Seated /\ surprised' = surprised
      /\ philo[i].state \in {"THINKING", "DYING"}
      /\ Phil!WakesUpDying(i) => philo[i].die
  BY Before DEF Phil!should_die, Phil!WakesUpDying, Phil!Enters
<1>2. CASE philo[i].die /\ Phil!Waits(i)
  BY <1>1, <1>2, WaitsKeeps
<1>3. CASE philo[i].die /\ ~Phil!MustStay(i) /\ Phil!Leaves(i)
  BY <1>1, <1>3, LeavesKeeps
<1>4. CASE ~philo[i].die /\ Phil!should_die(i)
  <2>1. PICK ph : ph = [philo EXCEPT ![i].pc = "takes"]
    OBVIOUS
  <2>2. /\ philo' = ph /\ UNCHANGED <<philosopherCount, surprised, listener>>
        /\ philo[i].pc = "thinks"
    BY <1>4, <2>1 DEF Phil!should_die, Phil!Enters
  <2>3. /\ ph \in Table
        /\ \A j \in Phil!Index : j # i => ph[j] = philo[j]
        /\ ph[i].state = philo[i].state /\ ph[i].pc = "takes" /\ ph[i].die = philo[i].die
    BY <2>1, Before DEF Table
  <2>4. Apart(ph) /\ (~surprised => \A j \in Phil!Seated : HasReason(ph, j))
    BY <2>3, Before DEF Apart, HasReason, Phil!Eats, TableIsRound
  <2> QED
    BY <1>1, <2>2, <2>3, <2>4, Before, SameSeats
<1> QED
  BY <1>1, <1>2, <1>3, <1>4 DEF Phil!should_die, Phil!WakesUpDying

(* Who becomes hungry is tested at once (take_forks).                      *)
LEMMA TakeForksKeeps ==
    ASSUME TableIsFinite, TableInv, NEW i \in Phil!Index, Phil!take_forks(i)
    PROVE  TableInv'
<1>1. PICK up : up = [philo EXCEPT ![i].state = "HUNGRY", ![i].pc = "forks"]
  OBVIOUS
<1>2. PICK ph : ph = Phil!test(up, i)
  OBVIOUS
<1>3. /\ philo' = ph /\ UNCHANGED <<philosopherCount, surprised, listener>>
      /\ i \in Phil!Seated /\ philo[i].pc = "takes" /\ philo[i].state = "THINKING"
  BY <1>1, <1>2, Before DEF Phil!take_forks, Phil!Enters
<1>4. /\ up \in Table
      /\ \A j \in Phil!Index : j # i => up[j] = philo[j]
      /\ up[i].state = "HUNGRY" /\ up[i].pc = "forks" /\ up[i].die = philo[i].die
  BY <1>1, Before DEF Table
<1>5. Apart(up) /\ (~surprised => \A j \in Phil!Seated \ {i} : HasReason(up, j))
  BY <1>3, <1>4, Before DEF Apart, HasReason, Phil!Eats, TableIsRound
<1>6. /\ ph \in Table /\ Apart(ph)
      /\ \A j \in Phil!Index : ph[j].pc = up[j].pc /\ ph[j].die = up[j].die
      /\ \A j \in Phil!Index : ph[j].state = up[j].state \/ up[j].state = "HUNGRY"
      /\ \A j \in Phil!Seated : HasReason(up, j) => HasReason(ph, j)
      /\ HasReason(ph, i)
  BY <1>2, <1>3, <1>4, <1>5, Before, Tested
<1>7. ~surprised => \A j \in Phil!Seated : HasReason(ph, j)
  BY <1>5, <1>6
<1>8. \A j \in Phil!Index :
        /\ ph[j].die => j = philosopherCount - 1 /\ listener' = "waits"
        /\ ph[j].pc \in {"thinks", "takes"} => ph[j].state = "THINKING"
        /\ ph[j].pc = "dies" => ph[j].state = "DYING" /\ ph[j].die
  BY <1>3, <1>4, <1>6, Before
<1> QED
  BY <1>3, <1>6, <1>7, <1>8, SameSeats

(* Who has eaten has both neighbours tested (put_forks).                   *)
LEMMA PutForksKeeps ==
    ASSUME TableIsFinite, TableInv, NEW i \in Phil!Index, Phil!put_forks(i)
    PROVE  TableInv'
<1>1. PICK up : up = [philo EXCEPT ![i].state = "THINKING", ![i].pc = "thinks"]
  OBVIOUS
<1>2. PICK a : a = Phil!test(up, Phil!LEFT(i))
  OBVIOUS
<1>3. PICK b : b = Phil!signal(a, Phil!LEFT(i))
  OBVIOUS
<1>4. PICK c : c = Phil!test(b, Phil!RIGHT(i))
  OBVIOUS
<1>5. PICK ph : ph = Phil!signal(c, Phil!RIGHT(i))
  OBVIOUS
<1>6. /\ philo' = ph /\ UNCHANGED <<philosopherCount, surprised, listener>>
      /\ i \in Phil!Seated /\ philo[i].pc = "eats"
  BY <1>1, <1>2, <1>3, <1>4, <1>5 DEF Phil!put_forks, Phil!Enters
<1>7. PICK l \in Phil!Seated : l = Phil!LEFT(i)
  BY <1>6, Before DEF TableIsRound
<1>8. PICK r \in Phil!Seated : r = Phil!RIGHT(i)
  BY <1>6, Before DEF TableIsRound
<1>9. /\ up \in Table
      /\ \A j \in Phil!Index : j # i => up[j] = philo[j]
      /\ up[i].state = "THINKING" /\ up[i].pc = "thinks" /\ up[i].die = philo[i].die
  BY <1>1, Before DEF Table
<1>10. Apart(up) /\ (~surprised => \A j \in Phil!Seated \ {l, r} : HasReason(up, j))
  <2>1. Apart(up)
    BY <1>6, <1>9, Before DEF Apart, Phil!Eats, TableIsRound
  <2>2. ASSUME ~surprised, NEW j \in Phil!Seated \ {l, r} PROVE HasReason(up, j)
    <3>1. Phil!LEFT(j) # i /\ Phil!RIGHT(j) # i
      BY <1>7, <1>8, Before DEF TableIsRound
    <3> QED
      BY <1>6, <1>9, <2>2, <3>1, Before DEF HasReason, Phil!Eats, TableIsRound
  <2> QED
    BY <2>1, <2>2
<1>11. /\ a \in Table /\ Apart(a)
       /\ \A j \in Phil!Index : a[j].pc = up[j].pc /\ a[j].die = up[j].die
       /\ \A j \in Phil!Index : a[j].state = up[j].state \/ up[j].state = "HUNGRY"
       /\ \A j \in Phil!Seated : HasReason(up, j) => HasReason(a, j)
       /\ HasReason(a, l)
  BY <1>2, <1>7, <1>9, <1>10, Before, Tested
<1>12. /\ b \in Table /\ Apart(b)
       /\ \A j \in Phil!Index : /\ b[j].pc = a[j].pc /\ b[j].die = a[j].die
                                /\ b[j].state = a[j].state
       /\ \A j \in Phil!Seated : HasReason(a, j) => HasReason(b, j)
  BY <1>3, <1>7, <1>11, Before, Signalled
<1>13. /\ c \in Table /\ Apart(c)
       /\ \A j \in Phil!Index : c[j].pc = b[j].pc /\ c[j].die = b[j].die
       /\ \A j \in Phil!Index : c[j].state = b[j].state \/ b[j].state = "HUNGRY"
       /\ \A j \in Phil!Seated : HasReason(b, j) => HasReason(c, j)
       /\ HasReason(c, r)
  BY <1>4, <1>8, <1>12, Before, Tested
<1>14. /\ ph \in Table /\ Apart(ph)
       /\ \A j \in Phil!Index : /\ ph[j].pc = c[j].pc /\ ph[j].die = c[j].die
                                /\ ph[j].state = c[j].state
       /\ \A j \in Phil!Seated : HasReason(c, j) => HasReason(ph, j)
  BY <1>5, <1>8, <1>13, Before, Signalled
<1>15. ~surprised => \A j \in Phil!Seated : HasReason(ph, j)
  BY <1>10, <1>11, <1>12, <1>13, <1>14
<1>16. \A j \in Phil!Index : /\ ph[j].pc = up[j].pc /\ ph[j].die = up[j].die
                             /\ ph[j].state = up[j].state \/ up[j].state = "HUNGRY"
  BY <1>11, <1>12, <1>13, <1>14
<1>17. \A j \in Phil!Index :
         /\ ph[j].die => j = philosopherCount - 1 /\ listener' = "waits"
         /\ ph[j].pc \in {"thinks", "takes"} => ph[j].state = "THINKING"
         /\ ph[j].pc = "dies" => ph[j].state = "DYING" /\ ph[j].die
  BY <1>6, <1>9, <1>16, Before
<1> QED
  BY <1>6, <1>14, <1>15, <1>17, SameSeats

(* mutex_lock(mut) returns, and everybody is killed at once.               *)
LEMMA PlacesChange ==
    ASSUME TableIsFinite, TableInv,
           \/ \E i \in Phil!Index : Phil!Starts(i)
           \/ Phil!remove_all_philosophers
    PROVE  TableInv'
<1>1. ASSUME NEW i \in Phil!Index, Phil!Starts(i) PROVE TableInv'
  <2>1. PICK ph : ph = [philo EXCEPT ![i].pc = "eats", ![i].mut = FALSE]
    OBVIOUS
  <2>2. philo' = ph /\ UNCHANGED <<philosopherCount, surprised, listener>>
    BY <1>1, <2>1 DEF Phil!Starts
  <2>3. /\ ph \in Table
        /\ \A j \in Phil!Index : j # i => ph[j] = philo[j]
        /\ ph[i].state = philo[i].state /\ ph[i].pc = "eats" /\ ph[i].die = philo[i].die
    BY <2>1, Before, ZenonT(40) DEF Table
  <2>4. Apart(ph) /\ (~surprised => \A j \in Phil!Seated : HasReason(ph, j))
    BY <2>3, Before DEF Apart, HasReason, Phil!Eats, TableIsRound
  <2> QED
    BY <2>2, <2>3, <2>4, Before, SameSeats
<1>2. ASSUME Phil!remove_all_philosophers PROVE TableInv'
  <2>1. PICK ph : ph = [i \in Phil!Index |-> [philo[i] EXCEPT !.pc = "none"]]
    OBVIOUS
  <2>2. /\ philo' = ph /\ UNCHANGED <<philosopherCount, surprised>>
        /\ listener = "listens"
    BY <1>2, <2>1 DEF Phil!remove_all_philosophers
  <2>3. /\ ph \in Table
        /\ \A j \in Phil!Index : /\ ph[j].state = philo[j].state /\ ph[j].pc = "none"
                                 /\ ph[j].die = philo[j].die
    BY <2>1, Before DEF Table
  <2>4. Apart(ph) /\ (~surprised => \A j \in Phil!Seated : HasReason(ph, j))
    BY <2>3, Before DEF Apart, HasReason, Phil!Eats, TableIsRound
  <2> QED
    BY <2>2, <2>3, <2>4, Before, SameSeats
<1> QED
  BY <1>1, <1>2

(* The invariant of the table is inductive.                                *)
LEMMA TableInvariant ==
    ASSUME TableIsFinite
    PROVE  (Phil!Init => TableInv) /\ (TableInv /\ [Phil!Next]_(Phil!vars) => TableInv')
<1>1. ASSUME Phil!Init PROVE TableInv
  <2>1. /\ philosopherCount = 0 /\ philo = [i \in Phil!Index |-> Phil!Absent]
    BY <1>1 DEF Phil!Init, Phil!philosophersProblem, Phil!start_philosophers_problem
  <2>2. /\ philo \in Table
        /\ \A i \in Phil!Index : philo[i].pc = "none" /\ philo[i].die = FALSE
    BY <2>1 DEF Table, Phil!Absent
  <2>3. Phil!Seated = {}
    BY <2>1 DEF Phil!Seated
  <2> QED
    BY <2>1, <2>2, <2>3 DEF TableInv, PhilTypes, LastIsMarked, PlacesAgree, TableIsFinite,
       Phil!NeighboursEatApart, Phil!HungryHasAReason
<1>2. ASSUME TableInv, [Phil!Next]_(Phil!vars) PROVE TableInv'
  <2>1. CASE Phil!add_philosopher
    BY <1>2, <2>1, AddKeeps
  <2>2. CASE Phil!remove_philosopher
    BY <1>2, <2>2, MarksKeep DEF Phil!remove_philosopher
  <2>3. CASE Phil!RemoveReturns
    BY <1>2, <2>3, MarksKeep DEF Phil!RemoveReturns
  <2>4. CASE Phil!slow_die
    BY <1>2, <2>4, MarksKeep DEF Phil!slow_die
  <2>5. CASE Phil!pause_philosophers \/ UNCHANGED Phil!vars
    BY <1>2, <2>5, MarksKeep DEF Phil!pause_philosophers, Phil!vars
  <2>6. CASE Phil!remove_all_philosophers
    BY <1>2, <2>6, PlacesChange
  <2>7. ASSUME NEW i \in Phil!Index, Phil!philosopher(i) PROVE TableInv'
    BY <1>2, <2>7, DiesKeeps, TakeForksKeeps, PlacesChange, PutForksKeeps DEF Phil!philosopher
  <2> QED
    BY <1>2, <2>1, <2>2, <2>3, <2>4, <2>5, <2>6, <2>7 DEF Phil!Next, Phil!listen_commands
<1> QED
  BY <1>1, <1>2

(* Neighbours never eat together, however many there are and whoever sits  *)
(* down or leaves meanwhile (philo.c:139-180, 230-289).                    *)
THEOREM PhilosophersEatApart ==
    ASSUME TableIsFinite
    PROVE  Phil!Spec => []NeighboursEatApart
<1>1. TableInv => NeighboursEatApart
  BY DEF TableInv, NeighboursEatApart
<1> QED
  BY <1>1, TableInvariant, PTL DEF Phil!Spec

(* Who is hungry waits for a neighbour that eats, as long as nobody sat    *)
(* down between the two (philo.c:255-289).                                 *)
THEOREM PhilosophersHaveReasons ==
    ASSUME TableIsFinite
    PROVE  Phil!Spec => []HungryHasAReason
<1>1. TableInv => HungryHasAReason
  BY DEF TableInv, HungryHasAReason
<1> QED
  BY <1>1, TableInvariant, PTL DEF Phil!Spec

-----------------------------------------------------------------------------
(* The keyboard. *)

(* processManager.h:9: there is room for init and for the shell at least.        *)
ShellHasRoom == MAX_PROCESSES \in Nat /\ MAX_PROCESSES >= 2

FamilyTypes ==
    /\ ppid \in [Fg!Pid -> Fg!Pid \cup {Fg!INIT, Fg!None}]
    /\ foreground \in Fg!Pid /\ runs \in [Fg!Pid -> {"program", "exec", "end", "stopped"}]
    /\ marked \subseteq Fg!process_table

(* The shell is always there.                                              *)
ShellStays ==
    /\ Fg!SHELL \in Fg!process_table \ marked
    /\ ppid[Fg!SHELL] = Fg!INIT /\ runs[Fg!SHELL] # "end"

(* Everybody is of its family, and so is who has the keyboard.             *)
FamilyHolds ==
    ~orphans =>
        /\ foreground \in Fg!process_table
        /\ \A p \in Fg!process_table \ {Fg!SHELL} : ppid[p] \in Fg!process_table
        /\ \A P \in SUBSET Fg!Pid : Fg!HoldsFamily(P) => Fg!process_table \subseteq P

FamilyInv == FamilyTypes /\ ShellStays /\ FamilyHolds

(* Who may be given the keyboard.                                          *)
LEMMA KeyboardGoesTo ==
    ASSUME NEW P, NEW p, P = {} \/ P = {p}, Fg!set_foreground_force_process(P)
    PROVE  (P = {} => foreground' = foreground) /\ (P = {p} => foreground' = p)
BY DEF Fg!set_foreground_force_process

(* A step that only moves the keyboard moves it to somebody who is there.  *)
LEMMA KeyboardMoves ==
    ASSUME ShellHasRoom, FamilyInv, UNCHANGED <<ppid, orphans>>,
           foreground' = foreground \/ foreground' \in Fg!process_table,
           runs' \in [Fg!Pid -> {"program", "exec", "end", "stopped"}],
           runs'[Fg!SHELL] # "end",
           marked' \subseteq Fg!process_table, Fg!SHELL \notin marked'
    PROVE  FamilyInv'
<1>1. Fg!process_table' = Fg!process_table /\ Fg!process_table \subseteq Fg!Pid
  BY DEF Fg!process_table
<1>2. FamilyTypes'
  BY <1>1 DEF FamilyInv, FamilyTypes, Fg!Pid, Fg!INIT, Fg!None
<1>3. ShellStays'
  BY <1>1 DEF FamilyInv, ShellStays, Fg!SHELL, Fg!INIT
<1>4. \A P : Fg!HoldsFamily(P)' <=> Fg!HoldsFamily(P)
  BY <1>1 DEF Fg!HoldsFamily, Fg!SHELL
<1>5. FamilyHolds'
  BY <1>1, <1>4 DEF FamilyInv, FamilyHolds, Fg!Pid, Fg!SHELL
<1> QED
  BY <1>2, <1>3, <1>5 DEF FamilyInv

(* A new process is of the family of the one that starts it.               *)
LEMMA ExecpKeeps ==
    ASSUME ShellHasRoom, FamilyInv, NEW p \in Fg!Pid, NEW place \in {"program", "exec"},
           Fg!execp(p, place)
    PROVE  FamilyInv'
<1>1. PICK c \in Fg!Pid \ Fg!process_table :
        /\ ppid' = [ppid EXCEPT ![c] = p]
        /\ runs' = [runs EXCEPT ![c] = "program", ![p] = place]
        /\ UNCHANGED <<foreground, marked, orphans>>
  <2> DEFINE T == Fg!Pid \ Fg!process_table
             c == CHOOSE c \in T : \A d \in T : c <= d
  <2>1. T \in SUBSET Nat /\ T # {}
    BY DEF Fg!execp, Fg!process_table, Fg!Pid
  <2>2. \E m \in T : \A d \in T : m <= d
    BY <2>1, SmallestOf
  <2>3. c \in T
    BY <2>2
  <2> QED
    BY <2>3 DEF Fg!execp
<1>2. p \in Fg!process_table /\ p # c /\ c # Fg!SHELL
  BY <1>1 DEF Fg!execp, Fg!At, FamilyInv, ShellStays
<1>3. /\ \A q \in Fg!Pid \ {c} : ppid'[q] = ppid[q]
      /\ ppid'[c] = p /\ p \in Int /\ p # -1
      /\ Fg!process_table' = Fg!process_table \cup {c}
      /\ Fg!process_table \subseteq Fg!Pid
  BY <1>1 DEF FamilyInv, FamilyTypes, Fg!process_table, Fg!Pid, Fg!None
<1>4. FamilyTypes'
  BY <1>1, <1>3 DEF FamilyInv, FamilyTypes, Fg!Pid, Fg!INIT, Fg!None
<1>5. ShellStays'
  BY <1>1, <1>2, <1>3 DEF FamilyInv, FamilyTypes, ShellStays, Fg!process_table
<1>6. FamilyHolds'
  <2> SUFFICES ASSUME ~orphans
               PROVE  /\ foreground \in Fg!process_table \cup {c}
                      /\ \A q \in (Fg!process_table \cup {c}) \ {Fg!SHELL} :
                           ppid'[q] \in Fg!process_table \cup {c}
                      /\ \A P \in SUBSET Fg!Pid :
                           Fg!HoldsFamily(P)' => Fg!process_table \cup {c} \subseteq P
    BY <1>1, <1>3 DEF FamilyHolds, Fg!Pid, Fg!SHELL
  <2>1. ASSUME NEW P \in SUBSET Fg!Pid, Fg!HoldsFamily(P)'
        PROVE  Fg!process_table \cup {c} \subseteq P
    <3>1. Fg!SHELL \in P /\ \A q \in Fg!process_table \cup {c} : ppid'[q] \in P => q \in P
      BY <1>3, <2>1 DEF Fg!HoldsFamily, Fg!SHELL
    <3>2. Fg!HoldsFamily(P)
      BY <1>1, <1>3, <3>1 DEF Fg!HoldsFamily
    <3>3. Fg!process_table \subseteq P
      BY <3>2 DEF FamilyInv, FamilyHolds
    <3> QED
      BY <1>2, <1>3, <3>1, <3>3
  <2> QED
    BY <1>1, <1>2, <1>3, <2>1 DEF FamilyInv, FamilyHolds
<1> QED
  BY <1>4, <1>5, <1>6 DEF FamilyInv

(* Who goes, with no child of its own, leaves its parents with the rest,   *)
(* and the keyboard to the one of them that started it.                    *)
LEMMA EndKeepsFamily ==
    ASSUME ShellHasRoom, FamilyInv, NEW p \in Fg!Pid, Fg!end(p)
    PROVE  FamilyInv'
<1>1. /\ ppid' = [ppid EXCEPT ![p] = Fg!None]
      /\ marked' = marked \ {p}
      /\ runs' = [runs EXCEPT ![p] = "program"]
      /\ ~orphans' => ~orphans /\ \A c \in Fg!process_table : ppid[c] # p
  BY DEF Fg!end, Fg!destroy_process, Fg!Goes
<1>2. p \in Fg!process_table /\ p # Fg!SHELL
  BY DEF Fg!end, Fg!At, FamilyInv, FamilyTypes, ShellStays
<1>3. /\ \A q \in Fg!Pid \ {p} : ppid'[q] = ppid[q]
      /\ ppid'[p] = Fg!None
      /\ Fg!process_table' = Fg!process_table \ {p}
      /\ Fg!process_table \subseteq Fg!Pid
      /\ ppid[p] \in Fg!Pid \cup {Fg!INIT, Fg!None}
  BY <1>1 DEF FamilyInv, FamilyTypes, Fg!process_table, Fg!None
<1>4. \/ foreground' = foreground /\ (foreground = p => ppid[p] \notin Fg!process_table)
      \/ foreground' = ppid[p] /\ ppid[p] \in Fg!process_table
  <2>1. PICK P : P = Fg!process_table \cap {ppid[p]}
    OBVIOUS
  <2>2. Fg!set_foreground_force_process(IF foreground = p THEN P ELSE {})
    BY <2>1 DEF Fg!end, Fg!destroy_process, Fg!set_foreground_process
  <2>3. CASE foreground = p /\ ppid[p] \in Fg!process_table
    <3>1. P = {ppid[p]} /\ Fg!set_foreground_force_process(P)
      BY <2>1, <2>2, <2>3
    <3> QED
      BY <2>3, <3>1, KeyboardGoesTo
  <2>4. CASE foreground # p \/ ppid[p] \notin Fg!process_table
    <3>1. Fg!set_foreground_force_process({})
      BY <2>1, <2>2, <2>4
    <3> QED
      BY <2>4, <3>1 DEF Fg!set_foreground_force_process
  <2> QED
    BY <2>3, <2>4
<1>5. FamilyTypes'
  BY <1>1, <1>3, <1>4 DEF FamilyInv, FamilyTypes, Fg!Pid, Fg!INIT, Fg!None
<1>6. ShellStays'
  BY <1>1, <1>2, <1>3 DEF FamilyInv, FamilyTypes, ShellStays, Fg!SHELL, Fg!INIT
<1>7. FamilyHolds'
  <2> SUFFICES ASSUME ~orphans, \A c \in Fg!process_table : ppid[c] # p
               PROVE  /\ foreground' \in Fg!process_table \ {p}
                      /\ \A q \in Fg!process_table \ {p, Fg!SHELL} :
                           ppid'[q] \in Fg!process_table \ {p}
                      /\ \A P \in SUBSET Fg!Pid :
                           Fg!HoldsFamily(P)' => Fg!process_table \ {p} \subseteq P
    BY <1>1, <1>3 DEF FamilyHolds, Fg!Pid, Fg!SHELL
  <2>1. \A q \in Fg!process_table \ {Fg!SHELL} : ppid[q] \in Fg!process_table \ {p}
    BY DEF FamilyInv, FamilyHolds
  <2>2. foreground' \in Fg!process_table \ {p}
    BY <1>2, <1>4, <2>1 DEF FamilyInv, FamilyHolds
  <2>3. ASSUME NEW P \in SUBSET Fg!Pid, Fg!HoldsFamily(P)'
        PROVE  Fg!process_table \ {p} \subseteq P
    <3>1. Fg!SHELL \in P /\ \A q \in Fg!process_table \ {p} : ppid[q] \in P => q \in P
      BY <1>3, <2>3 DEF Fg!HoldsFamily, Fg!SHELL
    <3>2. PICK Q : Q = P \cup {p}
      OBVIOUS
    <3>3. Fg!HoldsFamily(Q) /\ Q \in SUBSET Fg!Pid
      BY <3>1, <3>2 DEF Fg!HoldsFamily
    <3>4. Fg!process_table \subseteq Q
      BY <3>3 DEF FamilyInv, FamilyHolds
    <3> QED
      BY <3>2, <3>4
  <2> QED
    BY <1>3, <2>1, <2>2, <2>3
<1> QED
  BY <1>5, <1>6, <1>7 DEF FamilyInv

(* The invariant of the family is inductive.                               *)
LEMMA FamilyInvariant ==
    ASSUME ShellHasRoom
    PROVE  (Fg!Init => FamilyInv) /\ (FamilyInv /\ [Fg!Next]_(Fg!vars) => FamilyInv')
<1>1. ASSUME Fg!Init PROVE FamilyInv
  <2>1. /\ 1 \in Fg!Pid /\ Fg!SHELL = 1 /\ Fg!INIT = 0 /\ Fg!None = -1
        /\ Fg!Pid \subseteq Nat
    BY DEF ShellHasRoom, Fg!Pid, Fg!SHELL, Fg!INIT, Fg!None
  <2>2. /\ ppid = [p \in Fg!Pid |-> IF p = 1 THEN 0 ELSE -1]
        /\ foreground = 1 /\ marked = {} /\ runs = [p \in Fg!Pid |-> "program"]
    BY <1>1, <2>1 DEF Fg!Init
  <2>3. Fg!process_table = {1}
    BY <2>1, <2>2 DEF Fg!process_table
  <2>4. FamilyTypes /\ ShellStays
    BY <2>1, <2>2, <2>3 DEF FamilyTypes, ShellStays
  <2>5. FamilyHolds
    BY <2>1, <2>2, <2>3 DEF FamilyHolds, Fg!HoldsFamily
  <2> QED
    BY <2>4, <2>5 DEF FamilyInv
<1>2. ASSUME FamilyInv, [Fg!Next]_(Fg!vars) PROVE FamilyInv'
  <2>0. /\ runs \in [Fg!Pid -> {"program", "exec", "end", "stopped"}]
        /\ runs[Fg!SHELL] # "end" /\ marked \subseteq Fg!process_table
        /\ Fg!SHELL \notin marked /\ Fg!SHELL \in Fg!Pid
    BY <1>2 DEF FamilyInv, FamilyTypes, ShellStays, Fg!process_table
  <2>1. ASSUME NEW p, NEW q, Fg!sys_set_foreground(p, q)
        PROVE  foreground' = foreground \/ foreground' \in Fg!process_table
    BY <2>1 DEF Fg!sys_set_foreground, Fg!set_foreground_process,
       Fg!set_foreground_force_process, Fg!get_process_by_pid
  <2>2. ASSUME NEW p \in Fg!Pid, NEW place \in {"program", "exec"}, Fg!execp(p, place)
        PROVE  FamilyInv'
    BY <1>2, <2>2, ExecpKeeps
  <2>3. ASSUME NEW p \in Fg!Pid, Fg!execute(p) PROVE FamilyInv'
    <3>1. /\ Fg!sys_set_foreground(p, started[p]) /\ UNCHANGED <<ppid, marked, orphans>>
          /\ runs' = [runs EXCEPT ![p] = "program"]
      BY <2>3 DEF Fg!execute
    <3> QED
      BY <1>2, <2>0, <2>1, <3>1, KeyboardMoves
  <2>4. ASSUME NEW p \in Fg!Pid, Fg!executer(p) PROVE FamilyInv'
    <3>1. /\ Fg!sys_set_foreground(p, ppid[p]) /\ UNCHANGED <<ppid, marked, orphans>>
          /\ runs' = [runs EXCEPT ![p] = "end"] /\ p # Fg!SHELL
      BY <2>4 DEF Fg!executer
    <3> QED
      BY <1>2, <2>0, <2>1, <3>1, KeyboardMoves
  <2>5. ASSUME NEW p \in Fg!Pid, Fg!end(p) PROVE FamilyInv'
    BY <1>2, <2>5, EndKeepsFamily
  <2>6. ASSUME NEW p \in Fg!Pid, NEW q \in Fg!Pid, Fg!set_fg(p, q) PROVE FamilyInv'
    <3>1. Fg!sys_set_foreground(p, q) /\ UNCHANGED <<ppid, marked, runs, orphans>>
      BY <2>6 DEF Fg!set_fg
    <3> QED
      BY <1>2, <2>0, <2>1, <3>1, KeyboardMoves
  <2>7. ASSUME NEW p \in Fg!Pid, NEW q \in Fg!Pid, Fg!kill_command(p, q) PROVE FamilyInv'
    <3>1. /\ marked' = marked \cup (Fg!get_process_by_pid(q) \ {Fg!SHELL})
          /\ runs' = [r \in Fg!Pid |->
                        IF r \in marked' \ (marked \cup {p}) THEN "stopped" ELSE runs[r]]
          /\ UNCHANGED <<foreground, ppid, orphans>>
      BY <2>7 DEF Fg!kill_command, Fg!sys_kill
    <3>2. marked' \subseteq Fg!process_table /\ Fg!SHELL \notin marked'
      BY <2>0, <3>1 DEF Fg!get_process_by_pid
    <3>3. runs' \in [Fg!Pid -> {"program", "exec", "end", "stopped"}] /\ runs'[Fg!SHELL] # "end"
      BY <2>0, <3>1, <3>2
    <3> QED
      BY <1>2, <3>1, <3>2, <3>3, KeyboardMoves
  <2>8. CASE Fg!EscapeKey
    <3>1. /\ Fg!set_foreground_force_process(Fg!get_process_by_pid(ppid[foreground]))
          /\ UNCHANGED <<ppid, marked, runs, orphans>>
      BY <2>8 DEF Fg!EscapeKey
    <3>2. foreground' = foreground \/ foreground' \in Fg!process_table
      BY <3>1 DEF Fg!set_foreground_force_process, Fg!get_process_by_pid
    <3> QED
      BY <1>2, <2>0, <3>1, <3>2, KeyboardMoves
  <2>9. CASE UNCHANGED Fg!vars
    <3>1. UNCHANGED <<foreground, ppid, marked, runs, orphans>>
      BY <2>9 DEF Fg!vars
    <3> QED
      BY <1>2, <2>0, <3>1, KeyboardMoves
  <2> QED
    BY <1>2, <2>2, <2>3, <2>4, <2>5, <2>6, <2>7, <2>8, <2>9 DEF Fg!Next
<1> QED
  BY <1>1, <1>2

(* The keyboard is with one of the shell's family, whoever it was given    *)
(* to, killed or created meanwhile (commands.c:108-132, 220-233,           *)
(* process.c:228-240, 316-331).                                            *)
THEOREM KeyboardStaysInTheFamily ==
    ASSUME ShellHasRoom
    PROVE  Fg!Spec => []KeyboardComesBack
<1>1. ASSUME FamilyInv PROVE KeyboardComesBack
  BY <1>1 DEF FamilyInv, FamilyHolds, KeyboardComesBack, Fg!KeyboardComesBack
<1> QED
  BY <1>1, FamilyInvariant, PTL DEF Fg!Spec

-----------------------------------------------------------------------------
(* The commands. *)

Elements(q) == {q[i] : i \in DOMAIN q}
Distinct(q) == \A i, j \in DOMAIN q : q[i] = q[j] => i = j

(* malloc takes the page on the top of the stack.                          *)
LEMMA TakesTop ==
    ASSUME NEW S, NEW q \in Seq(S), q # <<>>, Distinct(q),
           NEW d, d = Exec!Front(q), NEW e, e = Exec!Last(q)
    PROVE  /\ d \in Seq(S) /\ Distinct(d) /\ e \in S /\ e \in Elements(q)
           /\ \A r \in Elements(d) : r \in Elements(q) /\ r # e
<1> DEFINE l == Len(q)
<1>1. l \in Nat /\ l # 0 /\ DOMAIN q = 1 .. l
  BY LenProperties, EmptySeq
<1>2. d = SubSeq(q, 1, l - 1) /\ e = q[l]
  BY DEF Exec!Front, Exec!Last
<1> HIDE DEF l
<1>3. \A i \in 1 .. l - 1 : q[i] \in S
  BY <1>1, ElementOfSeq DEF l
<1>4. /\ d \in Seq(S)
      /\ Len(d) = IF 1 <= l - 1 THEN (l - 1) - 1 + 1 ELSE 0
      /\ \A i \in 1 .. (l - 1) - 1 + 1 : d[i] = q[1 + i - 1]
  <2>1. 1 \in Int /\ l - 1 \in Int
    BY <1>1
  <2> QED
    BY <1>2, <1>3, <2>1, SubSeqProperties
<1>5. DOMAIN d = 1 .. l - 1
  <2>1. DOMAIN d = 1 .. Len(d)
    BY <1>4, LenProperties
  <2> QED
    BY <1>1, <1>4, <2>1
<1>6. \A i \in DOMAIN d : i \in DOMAIN q /\ i # l /\ d[i] = q[i]
  BY <1>1, <1>4, <1>5
<1>7. l \in DOMAIN q /\ e \in S
  BY <1>1, <1>2, ElementOfSeq DEF l
<1> QED
  BY <1>2, <1>4, <1>6, <1>7 DEF Elements, Distinct

(* free puts it back on the top.                                           *)
LEMMA PutsBack ==
    ASSUME NEW S, NEW q \in Seq(S), Distinct(q), NEW e \in S, e \notin Elements(q),
           NEW a, a = Append(q, e)
    PROVE  /\ a \in Seq(S) /\ Distinct(a)
           /\ \A r : r \in Elements(a) => r \in Elements(q) \/ r = e
<1>1. /\ a \in Seq(S)
      /\ DOMAIN q = 1 .. Len(q) /\ DOMAIN a = 1 .. Len(q) + 1 /\ Len(q) \in Nat
      /\ \A i \in DOMAIN q : a[i] = q[i]
      /\ a[Len(q) + 1] = e
  BY Appended
<1> DEFINE l == Len(q)
<1>2. /\ \A i \in DOMAIN a : i \in DOMAIN q \/ i = l + 1
      /\ a[l + 1] = e
  BY <1>1
<1> HIDE DEF l
<1> QED
  BY <1>1, <1>2 DEF Elements, Distinct

(* executer.c:20-61: there are so many pages.                              *)
PagesAreNumbered == NPages \in Nat

Started ==
    [pc : {"starts", "copies", "runs"}, params : Exec!Page, memory : Exec!Page \cup {0},
     late : BOOLEAN, asked : Command, copied : Command]

ExecTypes ==
    /\ free \in Seq(Exec!Page) /\ Distinct(free)
    /\ mem \in [Exec!Page -> Command]
    /\ DOMAIN child = Exec!Child
    /\ \A c \in Exec!Child : child[c] \in Started \cup {Exec!None}
    /\ \E p \in Exec!Page \cup {0} : \E c : caller = [page |-> p, child |-> c]
    /\ caller.page # 0 => caller.child \in Exec!Child

(* The page of the caller and those of the processes are in use, by one.   *)
PagesApart ==
    /\ caller.page \notin Elements(free)
    /\ \A c \in Exec!Child :
         /\ child[c].memory \notin Elements(free)
         /\ child[c].memory = 0 <=> child[c].pc \in {"none", "starts"}
         /\ child[c].memory # 0 =>
              /\ child[c].memory # caller.page
              /\ \A d \in Exec!Child \ {c} : child[d].memory # child[c].memory

(* Who has its copy to make, and is not late, has the caller's page.       *)
CallerIsThere ==
    /\ caller.page # 0 => child[caller.child].late = FALSE
    /\ \A c \in Exec!Child :
         child[c].pc \in {"starts", "copies"} /\ ~child[c].late =>
             caller.page = child[c].params /\ caller.child = c

(* What was asked is what is there, and was copied.                        *)
AskedIsThere ==
    \A c \in Exec!Child : child[c].pc # "none" =>
        /\ child[c].pc = "runs" => child[c].late \/ child[c].copied = child[c].asked
        /\ caller.page = child[c].params /\ caller.child = c => mem[caller.page] = child[c].asked

ExecInv == ExecTypes /\ PagesApart /\ CallerIsThere /\ AskedIsThere

(* None is not a process that was started.                                 *)
LEMMA ChildKinds ==
    ASSUME ExecInv, NEW c \in Exec!Child
    PROVE  /\ child[c].pc = "none" => child[c] = Exec!None
           /\ child[c].pc # "none" => child[c] \in Started
           /\ child[c].pc \in {"none", "starts", "copies", "runs"}
           /\ child[c].late \in BOOLEAN /\ child[c].memory \in Exec!Page \cup {0}
<1>1. CASE child[c] \in Started
  <2>1. /\ child[c].pc \in {"starts", "copies", "runs"}
        /\ child[c].late \in BOOLEAN /\ child[c].memory \in Exec!Page \cup {0}
    BY <1>1 DEF Started
  <2> QED
    BY <1>1, <2>1
<1>2. CASE child[c] = Exec!None
  BY <1>2 DEF Exec!None
<1> QED
  BY <1>1, <1>2 DEF ExecInv, ExecTypes

(* No page is 0, which stands for none.                                    *)
LEMMA PagesAreNotZero ==
    ASSUME NEW q \in Seq(Exec!Page)
    PROVE  0 \notin Elements(q)
<1>1. \A i \in DOMAIN q : q[i] # 0
  <2> TAKE i \in DOMAIN q
  <2>1. DOMAIN q = 1 .. Len(q)
    BY LenProperties
  <2>2. q[i] \in Exec!Page
    BY <2>1, ElementOfSeq
  <2> QED
    BY <2>2 DEF Exec!Page
<1> QED
  BY <1>1 DEF Elements

(* The return of a caller whose process has gone changes nothing of it.    *)
LEMMA NoneStays == [Exec!None EXCEPT !.late = FALSE] = Exec!None
<1>1. Exec!None \in [pc : {"none"}, params : {0}, memory : {0}, late : {FALSE}]
  BY DEF Exec!None
<1>2. PICK f : f = [Exec!None EXCEPT !.late = FALSE]
  OBVIOUS
<1>3. f \in [pc : {"none"}, params : {0}, memory : {0}, late : {FALSE}]
  BY <1>1, <1>2
<1>4. f = [pc |-> "none", params |-> 0, memory |-> 0, late |-> FALSE]
  BY <1>3
<1> QED
  BY <1>2, <1>4 DEF Exec!None

(* Up to the yield.                                                        *)
LEMMA ExecpKeepsPages ==
    ASSUME PagesAreNumbered, ExecInv, NEW c \in Exec!Child, NEW f \in Command, Exec!execp(c, f)
    PROVE  ExecInv'
<1>1. PICK p : p = Exec!Last(free)
  OBVIOUS
<1>2. PICK new : new = [pc |-> "starts", params |-> p, memory |-> 0, late |-> FALSE,
                        asked |-> f, copied |-> f]
  OBVIOUS
<1>3. /\ caller.page = 0 /\ child[c].pc = "none" /\ free # <<>>
      /\ free' = Exec!Front(free)
      /\ mem' = [mem EXCEPT ![p] = f]
      /\ child' = [child EXCEPT ![c] = new]
      /\ caller' = [page |-> p, child |-> c]
  BY <1>1, <1>2 DEF Exec!execp
<1>4. free \in Seq(Exec!Page) /\ Distinct(free)
  BY DEF ExecInv, ExecTypes
<1>5. /\ free' \in Seq(Exec!Page) /\ Distinct(free')
      /\ p \in Exec!Page /\ p \in Elements(free)
      /\ \A r \in Elements(free') : r \in Elements(free) /\ r # p
  BY <1>1, <1>3, <1>4, TakesTop
<1>6. /\ new \in Started /\ new.pc = "starts" /\ new.params = p /\ new.memory = 0
      /\ new.late = FALSE /\ new.asked = f
  BY <1>2, <1>5 DEF Started
<1>7. /\ DOMAIN child' = Exec!Child /\ child'[c] = new
      /\ \A d \in Exec!Child \ {c} : child'[d] = child[d]
  BY <1>3 DEF ExecInv, ExecTypes
<1>8. caller'.page = p /\ caller'.child = c /\ p # 0 /\ 0 \notin Elements(free')
  <2>1. 0 \notin Elements(free)
    BY <1>3 DEF ExecInv, PagesApart
  <2> QED
    BY <1>3, <1>5, <2>1
<1>9. mem' \in [Exec!Page -> Command] /\ mem'[p] = f
  BY <1>3, <1>5 DEF ExecInv, ExecTypes
<1>10. ExecTypes'
  BY <1>3, <1>5, <1>6, <1>7, <1>8, <1>9 DEF ExecInv, ExecTypes, Started, Exec!Page, Exec!Child, Exec!None
<1>11. PagesApart'
  BY <1>3, <1>5, <1>6, <1>7, <1>8 DEF ExecInv, PagesApart, Exec!Child, Elements
<1>12. CallerIsThere'
  BY <1>3, <1>5, <1>6, <1>7, <1>8, ChildKinds DEF ExecInv, ExecTypes, CallerIsThere, Exec!Child, Started, Exec!Page
<1>13. AskedIsThere'
  BY <1>3, <1>6, <1>7, <1>8, <1>9 DEF ExecInv, AskedIsThere, Exec!Child
<1> QED
  BY <1>10, <1>11, <1>12, <1>13 DEF ExecInv

(* The caller is back, and frees its page.                                 *)
LEMMA YieldKeepsPages ==
    ASSUME PagesAreNumbered, ExecInv, Exec!YieldReturns
    PROVE  ExecInv'
<1>1. PICK c \in Exec!Child : c = caller.child
  BY DEF Exec!YieldReturns, ExecInv, ExecTypes
<1>2. PICK b : b = (child[c].pc \in {"starts", "copies"})
  OBVIOUS
<1>3. PICK p \in Exec!Page : p = caller.page
  BY DEF Exec!YieldReturns, ExecInv, ExecTypes
<1>4. /\ p # 0 /\ free' = Append(free, p) /\ UNCHANGED mem
      /\ child' = [child EXCEPT ![c].late = b]
      /\ caller' = [caller EXCEPT !.page = 0]
  BY <1>1, <1>2, <1>3 DEF Exec!YieldReturns
<1>5. /\ caller'.page = 0 /\ caller'.child = c
      /\ \E q \in Exec!Page \cup {0} : \E d : caller' = [page |-> q, child |-> d]
  <2>1. PICK q, d : caller = [page |-> q, child |-> d]
    BY DEF ExecInv, ExecTypes
  <2>2. caller' = [page |-> 0, child |-> d] /\ d = c
    BY <1>1, <1>4, <2>1
  <2>3. caller'.page = 0 /\ caller'.child = c
    BY <2>2
  <2> QED
    BY <2>2, <2>3
<1>6. /\ b \in BOOLEAN
      /\ child[c].pc \in {"starts", "copies"} => b = TRUE
      /\ ~(child[c].pc \in {"starts", "copies"}) => b = FALSE
  <2>1. CASE child[c].pc \in {"starts", "copies"}
    <3>1. b = TRUE
      BY <1>2, <2>1
    <3> QED
      BY <2>1, <3>1
  <2>2. CASE ~(child[c].pc \in {"starts", "copies"})
    <3>1. (child[c].pc \in {"starts", "copies"}) = FALSE
      BY <2>2
    <3>2. b = FALSE
      BY <1>2, <3>1
    <3> QED
      BY <2>2, <3>2
  <2> QED
    BY <2>1, <2>2
<1>7. /\ DOMAIN child' = Exec!Child /\ child'[c] = [child[c] EXCEPT !.late = b]
      /\ \A d \in Exec!Child \ {c} : child'[d] = child[d]
  BY <1>4 DEF ExecInv, ExecTypes
<1>8. /\ child'[c] \in Started \cup {Exec!None}
      /\ child'[c].pc = child[c].pc /\ child'[c].memory = child[c].memory
      /\ child'[c].late = b
      /\ child[c].pc # "none" => /\ child'[c].params = child[c].params
                                 /\ child'[c].asked = child[c].asked
                                 /\ child'[c].copied = child[c].copied
  <2>1. CASE child[c] \in Started
    BY <1>6, <1>7, <2>1 DEF Started
  <2>2. CASE child[c] = Exec!None
    <3>1. b = FALSE
      BY <1>6, <2>2 DEF Exec!None
    <3>2. [Exec!None EXCEPT !.late = FALSE] = Exec!None
      BY NoneStays
    <3>3. child'[c] = Exec!None
      BY <1>7, <2>2, <3>1, <3>2
    <3>4. Exec!None.late = FALSE /\ Exec!None.pc = "none"
      BY DEF Exec!None
    <3>5. child'[c].late = b /\ child[c].pc = "none"
      BY <2>2, <3>1, <3>3, <3>4
    <3> QED
      BY <2>2, <3>3, <3>5
  <2> QED
    BY <2>1, <2>2 DEF ExecInv, ExecTypes
<1>9. /\ free' \in Seq(Exec!Page) /\ Distinct(free')
      /\ \A r : r \in Elements(free') => r \in Elements(free) \/ r = p
  <2>1. free \in Seq(Exec!Page) /\ Distinct(free) /\ p \notin Elements(free)
    BY <1>3 DEF ExecInv, ExecTypes, PagesApart
  <2> QED
    BY <1>4, <2>1, PutsBack, ZenonT(40)
<1>10. ExecTypes'
  BY <1>4, <1>5, <1>7, <1>8, <1>9 DEF ExecInv, ExecTypes, Started, Exec!Page, Exec!Child, Exec!None
<1>11. \A d \in Exec!Child : child'[d].memory = child[d].memory /\ child'[d].pc = child[d].pc
  BY <1>7, <1>8
<1>12. PagesApart'
  <2>1. 0 \notin Elements(free')
    BY <1>9, PagesAreNotZero
  <2>2. \A d \in Exec!Child : child[d].memory # 0 =>
           child[d].memory # p /\ child[d].memory \notin Elements(free)
    BY <1>3 DEF ExecInv, PagesApart
  <2>3. \A d \in Exec!Child : child[d].memory \notin Elements(free')
    BY <1>9, <2>1, <2>2
  <2> QED
    BY <1>5, <1>11, <2>1, <2>3 DEF ExecInv, PagesApart, Exec!Child, Elements
<1>13. CallerIsThere'
  <2> SUFFICES ASSUME NEW d \in Exec!Child, child'[d].pc \in {"starts", "copies"}, ~child'[d].late
               PROVE  FALSE
    BY <1>5 DEF CallerIsThere, Exec!Child
  <2>1. CASE d = c
    BY <1>6, <1>8, <2>1
  <2>2. CASE d # c
    BY <1>1, <1>7, <2>2 DEF ExecInv, CallerIsThere
  <2> QED
    BY <2>1, <2>2
<1>14. AskedIsThere'
  <2> SUFFICES ASSUME NEW d \in Exec!Child, child'[d].pc # "none"
               PROVE  /\ child'[d].pc = "runs" => child'[d].late \/ child'[d].copied = child'[d].asked
                      /\ caller'.page # child'[d].params
    BY DEF AskedIsThere, Exec!Child
  <2>1. child[d] \in Started /\ child[d].pc # "none"
    BY <1>11, ChildKinds
  <2>2. child'[d].params = child[d].params /\ child[d].params # 0
    BY <1>7, <1>8, <2>1 DEF Started, Exec!Page
  <2>3. CASE d = c
    <3>1. child[c].late = FALSE
      BY <1>1, <1>3, <1>4 DEF ExecInv, CallerIsThere
    <3> QED
      BY <1>5, <1>8, <2>1, <2>2, <2>3, <3>1 DEF ExecInv, AskedIsThere
  <2>4. CASE d # c
    BY <1>5, <1>7, <2>1, <2>2, <2>4 DEF ExecInv, AskedIsThere
  <2> QED
    BY <2>3, <2>4
<1> QED
  BY <1>10, <1>12, <1>13, <1>14 DEF ExecInv

(* The process takes the page it copies to.                                *)
LEMMA MallocKeepsPages ==
    ASSUME PagesAreNumbered, ExecInv, NEW c \in Exec!Child, Exec!executer_malloc(c)
    PROVE  ExecInv'
<1>1. PICK p : p = Exec!Last(free)
  OBVIOUS
<1>2. /\ child[c].pc = "starts" /\ free # <<>> /\ free' = Exec!Front(free)
      /\ child' = [child EXCEPT ![c].pc = "copies", ![c].memory = p]
      /\ UNCHANGED <<mem, caller>>
  BY <1>1 DEF Exec!executer_malloc
<1>3. free \in Seq(Exec!Page) /\ Distinct(free)
  BY DEF ExecInv, ExecTypes
<1>4. /\ free' \in Seq(Exec!Page) /\ Distinct(free')
      /\ p \in Exec!Page /\ p \in Elements(free) /\ p # 0
      /\ \A r \in Elements(free') : r \in Elements(free) /\ r # p
  <2>1. /\ free' \in Seq(Exec!Page) /\ Distinct(free')
        /\ p \in Exec!Page /\ p \in Elements(free)
        /\ \A r \in Elements(free') : r \in Elements(free) /\ r # p
    BY <1>1, <1>2, <1>3, TakesTop
  <2> QED
    BY <2>1 DEF Exec!Page
<1>5. child[c] \in Started
  BY <1>2, ChildKinds
<1>6. /\ DOMAIN child' = Exec!Child
      /\ child'[c] = [child[c] EXCEPT !.pc = "copies", !.memory = p]
      /\ \A d \in Exec!Child \ {c} : child'[d] = child[d]
  BY <1>2 DEF ExecInv, ExecTypes
<1>7. /\ child'[c] \in Started /\ child'[c].pc = "copies" /\ child'[c].memory = p
      /\ child'[c].params = child[c].params /\ child'[c].late = child[c].late
      /\ child'[c].asked = child[c].asked
  BY <1>4, <1>5, <1>6 DEF Started
<1>8. ExecTypes'
  BY <1>2, <1>4, <1>6, <1>7 DEF ExecInv, ExecTypes, Started, Exec!Page, Exec!Child, Exec!None
<1>9. PagesApart'
  <2>1. p # caller.page /\ \A d \in Exec!Child : child[d].memory # p
    BY <1>4 DEF ExecInv, PagesApart
  <2>2. ASSUME NEW d \in Exec!Child
        PROVE  /\ child'[d].memory \notin Elements(free')
               /\ child'[d].memory = 0 <=> child'[d].pc \in {"none", "starts"}
               /\ child'[d].memory # 0 =>
                    /\ child'[d].memory # caller.page
                    /\ \A e \in Exec!Child \ {d} : child'[e].memory # child'[d].memory
    <3>1. CASE d = c
      BY <1>4, <1>6, <1>7, <2>1, <3>1
    <3>2. CASE d # c
      <4>1. child'[d] = child[d]
        BY <1>6, <3>2
      <4>2. \A e \in Exec!Child \ {d} : child[d].memory # 0 => child'[e].memory # child[d].memory
        <5> TAKE e \in Exec!Child \ {d}
        <5>1. CASE e = c
          BY <1>7, <2>1, <5>1
        <5>2. CASE e # c
          BY <1>6, <5>2 DEF ExecInv, PagesApart
        <5> QED
          BY <5>1, <5>2
      <4>3. child[d].memory \notin Elements(free')
        BY <1>4 DEF ExecInv, PagesApart
      <4> QED
        BY <4>1, <4>2, <4>3 DEF ExecInv, PagesApart
    <3> QED
      BY <3>1, <3>2
  <2>3. caller.page \notin Elements(free')
    BY <1>4 DEF ExecInv, PagesApart
  <2> QED
    BY <1>2, <2>2, <2>3 DEF PagesApart, Exec!Child, Elements
<1>10. CallerIsThere'
  BY <1>2, <1>6, <1>7 DEF ExecInv, ExecTypes, CallerIsThere, Exec!Child
<1>11. AskedIsThere'
  BY <1>2, <1>6, <1>7 DEF ExecInv, AskedIsThere, Exec!Child
<1> QED
  BY <1>8, <1>9, <1>10, <1>11 DEF ExecInv

(* What it copies is what was asked, unless it is late.                    *)
LEMMA MemcpyKeepsPages ==
    ASSUME PagesAreNumbered, ExecInv, NEW c \in Exec!Child, Exec!executer_memcpy(c)
    PROVE  ExecInv'
<1>1. /\ child[c].pc = "copies" /\ child[c] \in Started
      /\ child[c].memory # 0 /\ child[c].memory # caller.page
      /\ child[c].memory \in Exec!Page
  BY ChildKinds DEF Exec!executer_memcpy, ExecInv, PagesApart
<1>2. PICK f : f = mem[child[c].params]
  OBVIOUS
<1>3. f \in Command
  BY <1>1, <1>2 DEF Started, ExecInv, ExecTypes
<1>4. /\ mem' = [mem EXCEPT ![child[c].memory] = f]
      /\ child' = [child EXCEPT ![c].pc = "runs", ![c].copied = f]
      /\ UNCHANGED <<free, caller>>
  BY <1>2 DEF Exec!executer_memcpy
<1>5. /\ mem' \in [Exec!Page -> Command]
      /\ \A q \in Exec!Page : q # child[c].memory => mem'[q] = mem[q]
  BY <1>1, <1>3, <1>4 DEF ExecInv, ExecTypes
<1>6. /\ DOMAIN child' = Exec!Child
      /\ child'[c] = [child[c] EXCEPT !.pc = "runs", !.copied = f]
      /\ \A d \in Exec!Child \ {c} : child'[d] = child[d]
  BY <1>4 DEF ExecInv, ExecTypes
<1>7. /\ child'[c] \in Started /\ child'[c].pc = "runs" /\ child'[c].memory = child[c].memory
      /\ child'[c].params = child[c].params /\ child'[c].late = child[c].late
      /\ child'[c].asked = child[c].asked /\ child'[c].copied = f
  BY <1>1, <1>3, <1>6 DEF Started
<1>8. ExecTypes'
  BY <1>4, <1>5, <1>6, <1>7 DEF ExecInv, ExecTypes, Started, Exec!Page, Exec!Child, Exec!None
<1>9. PagesApart'
  BY <1>1, <1>4, <1>6, <1>7 DEF ExecInv, PagesApart, Exec!Child, Elements
<1>10. CallerIsThere'
  BY <1>4, <1>6, <1>7 DEF ExecInv, ExecTypes, CallerIsThere, Exec!Child
<1>11. AskedIsThere'
  <2> SUFFICES ASSUME NEW d \in Exec!Child, child'[d].pc # "none"
               PROVE  /\ child'[d].pc = "runs" => child'[d].late \/ child'[d].copied = child'[d].asked
                      /\ caller.page = child'[d].params /\ caller.child = d =>
                           mem'[caller.page] = child'[d].asked
    BY <1>4 DEF AskedIsThere, Exec!Child
  <2>1. child[d].pc # "none" /\ child[d] \in Started
    BY <1>1, <1>6, ChildKinds
  <2>2. child'[d].params = child[d].params /\ child'[d].asked = child[d].asked
    BY <1>6, <1>7
  <2>3. caller.page = child[d].params /\ caller.child = d =>
          mem'[caller.page] = child[d].asked /\ mem[caller.page] = child[d].asked
    BY <1>1, <1>5, <2>1 DEF ExecInv, AskedIsThere, Started
  <2>4. CASE d # c
    BY <1>6, <2>1, <2>2, <2>3, <2>4 DEF ExecInv, AskedIsThere
  <2>5. CASE d = c
    <3>1. ~child[c].late => f = child[c].asked
      BY <1>1, <1>2, <2>3, <2>5 DEF ExecInv, CallerIsThere
    <3> QED
      BY <1>1, <1>7, <2>2, <2>3, <2>5, <3>1 DEF Started
  <2> QED
    BY <2>4, <2>5
<1> QED
  BY <1>8, <1>9, <1>10, <1>11 DEF ExecInv

(* A process that ends gives its own page back.                            *)
LEMMA EndKeepsPages ==
    ASSUME PagesAreNumbered, ExecInv, NEW c \in Exec!Child, Exec!end(c)
    PROVE  ExecInv'
<1>1. PICK p \in Exec!Page \cup {0} : p = child[c].memory
  BY ChildKinds
<1>2. /\ free' = IF p = 0 THEN free ELSE Append(free, p)
      /\ child' = [child EXCEPT ![c] = Exec!None]
      /\ UNCHANGED <<mem, caller>>
  BY <1>1 DEF Exec!end
<1>3. free \in Seq(Exec!Page) /\ Distinct(free) /\ p \notin Elements(free)
  BY <1>1 DEF ExecInv, ExecTypes, PagesApart
<1>4. /\ free' \in Seq(Exec!Page) /\ Distinct(free')
      /\ \A r : r \in Elements(free') => r \in Elements(free) \/ (r = p /\ p # 0)
  <2>1. CASE p = 0
    BY <1>2, <1>3, <2>1
  <2>2. CASE p # 0
    <3>1. p \in Exec!Page /\ free' = Append(free, p)
      BY <1>2, <2>2
    <3> QED
      BY <1>3, <2>2, <3>1, PutsBack
  <2> QED
    BY <2>1, <2>2
<1>5. /\ DOMAIN child' = Exec!Child /\ child'[c] = Exec!None
      /\ \A d \in Exec!Child \ {c} : child'[d] = child[d]
  BY <1>2 DEF ExecInv, ExecTypes
<1>6. Exec!None.pc = "none" /\ Exec!None.memory = 0 /\ Exec!None.late = FALSE
  BY DEF Exec!None
<1>7. ExecTypes'
  BY <1>2, <1>4, <1>5 DEF ExecInv, ExecTypes, Started, Exec!Page, Exec!Child, Exec!None
<1>8. PagesApart'
  <2>1. 0 \notin Elements(free)
    BY <1>3, PagesAreNotZero
  <2>2. p # 0 => p # caller.page
    BY <1>1 DEF ExecInv, PagesApart
  <2>3. caller.page \notin Elements(free')
    BY <1>4, <2>2 DEF ExecInv, PagesApart
  <2>4. ASSUME NEW d \in Exec!Child
        PROVE  /\ child'[d].memory \notin Elements(free')
               /\ child'[d].memory = 0 <=> child'[d].pc \in {"none", "starts"}
               /\ child'[d].memory # 0 =>
                    /\ child'[d].memory # caller.page
                    /\ \A e \in Exec!Child \ {d} : child'[e].memory # child'[d].memory
    <3>1. CASE d = c
      BY <1>4, <1>5, <1>6, <2>1, <3>1
    <3>2. CASE d # c
      <4>1. child'[d] = child[d]
        BY <1>5, <3>2
      <4>2. child[d].memory # p \/ p = 0
        BY <1>1, <3>2 DEF ExecInv, PagesApart
      <4>3. child[d].memory \notin Elements(free')
        BY <1>4, <4>2 DEF ExecInv, PagesApart
      <4>4. \A e \in Exec!Child \ {d} : child[d].memory # 0 => child'[e].memory # child[d].memory
        <5> TAKE e \in Exec!Child \ {d}
        <5>1. CASE e = c
          BY <1>5, <1>6, <5>1
        <5>2. CASE e # c
          BY <1>5, <5>2 DEF ExecInv, PagesApart
        <5> QED
          BY <5>1, <5>2
      <4> QED
        BY <4>1, <4>3, <4>4 DEF ExecInv, PagesApart
    <3> QED
      BY <3>1, <3>2
  <2> QED
    BY <1>2, <2>3, <2>4 DEF PagesApart, Exec!Child, Elements
<1>9. CallerIsThere'
  BY <1>2, <1>5, <1>6 DEF ExecInv, ExecTypes, CallerIsThere, Exec!Child
<1>10. AskedIsThere'
  BY <1>2, <1>5, <1>6 DEF ExecInv, AskedIsThere, Exec!Child
<1> QED
  BY <1>7, <1>8, <1>9, <1>10 DEF ExecInv

(* The invariant of the executer is inductive.                             *)
LEMMA ExecInvariant ==
    ASSUME PagesAreNumbered
    PROVE  (Exec!Init => ExecInv) /\ (ExecInv /\ [Exec!Next]_(Exec!vars) => ExecInv')
<1>1. ASSUME Exec!Init PROVE ExecInv
  <2>1. /\ free = [i \in Exec!Page |-> i] /\ mem \in [Exec!Page -> Command]
        /\ caller = [page |-> 0, child |-> 1]
        /\ child = [c \in Exec!Child |-> Exec!None]
    BY <1>1 DEF Exec!Init
  <2>2. free \in Seq(Exec!Page) /\ Distinct(free) /\ 0 \notin Elements(free)
    <3>1. free \in Seq(Exec!Page)
      BY <2>1, IsASeq DEF Exec!Page, PagesAreNumbered
    <3>2. Distinct(free) /\ 0 \notin Elements(free)
      BY <2>1 DEF Distinct, Elements, Exec!Page
    <3> QED
      BY <3>1, <3>2
  <2>3. ExecTypes
    BY <2>1, <2>2 DEF ExecTypes
  <2>4. Exec!None.pc = "none" /\ Exec!None.memory = 0 /\ Exec!None.late = FALSE
    BY DEF Exec!None
  <2>5. PagesApart /\ CallerIsThere /\ AskedIsThere
    BY <2>1, <2>2, <2>4 DEF PagesApart, CallerIsThere, AskedIsThere
  <2> QED
    BY <2>3, <2>5 DEF ExecInv
<1>2. ASSUME ExecInv, [Exec!Next]_(Exec!vars) PROVE ExecInv'
  <2>1. ASSUME NEW c \in Exec!Child, NEW f \in Command, Exec!execp(c, f) PROVE ExecInv'
    BY <1>2, <2>1, ExecpKeepsPages
  <2>2. CASE Exec!YieldReturns
    BY <1>2, <2>2, YieldKeepsPages
  <2>3. ASSUME NEW c \in Exec!Child,
               Exec!executer_malloc(c) \/ Exec!executer_memcpy(c) \/ Exec!end(c)
        PROVE  ExecInv'
    BY <1>2, <2>3, MallocKeepsPages, MemcpyKeepsPages, EndKeepsPages
  <2>4. CASE UNCHANGED Exec!vars
    <3>1. UNCHANGED <<free, mem, caller, child>>
      BY <2>4 DEF Exec!vars
    <3>2. ExecTypes'
      BY <1>2, <3>1 DEF ExecInv, ExecTypes, Started, Exec!Page, Exec!Child, Exec!None
    <3>3. PagesApart'
      BY <1>2, <3>1 DEF ExecInv, PagesApart, Exec!Child, Elements
    <3>4. CallerIsThere' /\ AskedIsThere'
      BY <1>2, <3>1 DEF ExecInv, CallerIsThere, AskedIsThere, Exec!Child
    <3> QED
      BY <3>2, <3>3, <3>4 DEF ExecInv
  <2> QED
    BY <1>2, <2>1, <2>2, <2>3, <2>4 DEF Exec!Next
<1> QED
  BY <1>1, <1>2

(* A process that is not late runs what was asked of it, with the words    *)
(* that were asked while its caller has not come back (executer.c:20-61).  *)
THEOREM CommandsAreAsAsked ==
    ASSUME PagesAreNumbered
    PROVE  Exec!Spec => []CommandRunsWhatWasAsked
<1>1. ASSUME ExecInv PROVE CommandRunsWhatWasAsked
  <2> SUFFICES ASSUME NEW c \in Exec!Child, child[c].pc = "runs"
               PROVE  /\ child[c].late \/ child[c].copied = child[c].asked
                      /\ caller = [page |-> child[c].params, child |-> c] =>
                           mem[caller.page] = child[c].asked
    BY DEF CommandRunsWhatWasAsked, Exec!CommandRunsWhatWasAsked
  <2> QED
    BY <1>1 DEF ExecInv, AskedIsThere
<1> QED
  BY <1>1, ExecInvariant, PTL DEF Exec!Spec

-----------------------------------------------------------------------------
(* The context switch. *)

(* boot: kernel.c changes to init, whose number is 0.                      *)
InitIsAProcess == 0 \in Process

Names ==
    {"gs", "fs", "r15", "r14", "r13", "r12", "r11", "r10", "r9", "r8", "rsi",
     "rdi", "rbp", "rdx", "rcx", "rbx", "rax", "rip", "eflags"}

(* What a tick saves and restores, and what a call does.                   *)
Flags == <<"eflags", "rip">>
TickSaves == Flags \o Switch!pushState
TickOrder == Switch!popState \o Switch!iretq
CallSaves == Flags \o Switch!pushState_notRax
CallOrder == Switch!popState_notRax \o Switch!iretq

(* What is saved last is restored first.                                   *)
Mirrors(order, saves) ==
    /\ order \in Seq(Names) /\ saves \in Seq(Names) /\ Len(saves) = Len(order)
    /\ \A j \in 1 .. Len(order) : saves[Len(order) + 1 - j] = order[j]

Frame(u, names) == [i \in DOMAIN names |-> u[names[i]]]

LEMMA MirrorsJoin ==
    ASSUME NEW a, NEW b, NEW c, NEW d, Mirrors(a, c), Mirrors(b, d)
    PROVE  Mirrors(a \o b, d \o c)
<1>1. PICK u : u = a \o b
  OBVIOUS
<1>2. PICK v : v = d \o c
  OBVIOUS
<1>3. PICK m \in Nat : m = Len(a)
  BY LenProperties DEF Mirrors
<1>4. PICK n \in Nat : n = Len(b)
  BY LenProperties DEF Mirrors
<1>5. /\ a \in Seq(Names) /\ b \in Seq(Names) /\ c \in Seq(Names) /\ d \in Seq(Names)
      /\ Len(c) = m /\ Len(d) = n
  BY <1>3, <1>4 DEF Mirrors
<1>6. /\ u \in Seq(Names) /\ Len(u) = m + n
      /\ \A i \in 1 .. m + n : u[i] = IF i <= m THEN a[i] ELSE b[i - m]
  <2>1. Concatenation(u, a, b, Names)
    BY <1>1, <1>5, Concatenated, Zenon
  <2> QED
    BY <1>3, <1>4, <2>1 DEF Concatenation
<1>7. /\ v \in Seq(Names) /\ Len(v) = n + m
      /\ \A i \in 1 .. n + m : v[i] = IF i <= n THEN d[i] ELSE c[i - n]
  <2>1. Concatenation(v, d, c, Names)
    BY <1>2, <1>5, Concatenated, Zenon
  <2> QED
    BY <1>5, <2>1 DEF Concatenation
<1>8. /\ \A j \in 1 .. m : c[m + 1 - j] = a[j]
      /\ \A j \in 1 .. n : d[n + 1 - j] = b[j]
  BY <1>3, <1>4 DEF Mirrors
<1>9. ASSUME NEW j \in 1 .. m + n PROVE v[(m + n) + 1 - j] = u[j]
  <2>1. CASE j <= m
    <3>1. /\ j \in 1 .. m /\ (m + n) + 1 - j \in 1 .. n + m
          /\ ~((m + n) + 1 - j <= n) /\ ((m + n) + 1 - j) - n = m + 1 - j
      BY <2>1
    <3> QED
      BY <1>6, <1>7, <1>8, <2>1, <3>1
  <2>2. CASE ~(j <= m)
    <3>1. /\ j - m \in 1 .. n /\ (m + n) + 1 - j \in 1 .. n + m
          /\ (m + n) + 1 - j <= n /\ (m + n) + 1 - j = n + 1 - (j - m)
      BY <2>2
    <3> QED
      BY <1>6, <1>7, <1>8, <2>2, <3>1
  <2> QED
    BY <2>1, <2>2
<1>10. Mirrors(u, v)
  <2>1. Len(u) = m + n /\ Len(v) = Len(u)
    BY <1>6, <1>7
  <2> QED
    BY <1>6, <1>7, <1>9, <2>1 DEF Mirrors
<1> QED
  BY <1>1, <1>2, <1>10

LEMMA ElementsOfBoth ==
    ASSUME NEW S, NEW s \in Seq(S), NEW t \in Seq(S)
    PROVE  Switch!ToSet(s \o t) = Switch!ToSet(s) \cup Switch!ToSet(t)
<1>1. PICK u : u = s \o t
  OBVIOUS
<1>2. PICK m \in Nat : m = Len(s)
  BY LenProperties
<1>3. PICK n \in Nat : n = Len(t)
  BY LenProperties
<1>4. /\ u \in Seq(S) /\ Len(u) = m + n
      /\ \A i \in 1 .. m + n : u[i] = IF i <= m THEN s[i] ELSE t[i - m]
  <2>1. Concatenation(u, s, t, S)
    BY <1>1, Concatenated, Zenon
  <2> QED
    BY <1>2, <1>3, <2>1 DEF Concatenation
<1>5. DOMAIN u = 1 .. m + n /\ DOMAIN s = 1 .. m /\ DOMAIN t = 1 .. n
  BY <1>2, <1>3, <1>4, LenProperties
<1>6. ASSUME NEW i \in 1 .. m PROVE i \in 1 .. m + n /\ u[i] = s[i]
  BY <1>4
<1>7. ASSUME NEW i \in 1 .. n PROVE m + i \in 1 .. m + n /\ u[m + i] = t[i]
  <2>1. m + i \in 1 .. m + n /\ ~(m + i <= m) /\ (m + i) - m = i
    OBVIOUS
  <2> QED
    BY <1>4, <2>1
<1>8. ASSUME NEW i \in 1 .. m + n, ~(i \in 1 .. m) PROVE i - m \in 1 .. n /\ u[i] = t[i - m]
  BY <1>4, <1>8
<1>9. ASSUME NEW i \in 1 .. m + n PROVE (\E j \in 1 .. m : u[i] = s[j]) \/ \E j \in 1 .. n : u[i] = t[j]
  BY <1>6, <1>8
<1>10. {u[i] : i \in 1 .. m + n} = {s[i] : i \in 1 .. m} \cup {t[i] : i \in 1 .. n}
  <2>1. ASSUME NEW x, x \in {u[i] : i \in 1 .. m + n}
        PROVE  x \in {s[i] : i \in 1 .. m} \cup {t[i] : i \in 1 .. n}
    BY <1>9, <2>1, Zenon
  <2>2. ASSUME NEW x, x \in {s[i] : i \in 1 .. m} PROVE x \in {u[i] : i \in 1 .. m + n}
    <3>1. PICK i \in 1 .. m : x = s[i]
      BY <2>2
    <3> QED
      BY <1>6, <3>1
  <2>3. ASSUME NEW x, x \in {t[i] : i \in 1 .. n} PROVE x \in {u[i] : i \in 1 .. m + n}
    <3>1. PICK i \in 1 .. n : x = t[i]
      BY <2>3
    <3> QED
      BY <1>7, <3>1
  <2> QED
    BY <2>1, <2>2, <2>3
<1> QED
  BY <1>1, <1>5, <1>10, Zenon DEF Switch!ToSet

(* The lists of registers in the stubs.                                    *)
LEMMA Stubs ==
    /\ Mirrors(Switch!popState_notRax, Switch!pushState_notRax)
    /\ Mirrors(<<"rax">>, <<"rax">>)
    /\ Mirrors(Switch!iretq, Flags)
    /\ Switch!StackFrame \in Seq(Names) /\ Len(Switch!StackFrame) = 19
    /\ \A i \in 1 .. 16 : Switch!StackFrame[i] = Switch!popState_notRax[i]
    /\ Len(Switch!popState_notRax) = 16
    /\ Switch!StackFrame[17] = "rax"
    /\ Switch!StackFrame[18] = "rip" /\ Switch!StackFrame[19] = "eflags"
<1>1. Switch!popState_notRax \in Seq(Names) /\ Len(Switch!popState_notRax) = 16
  BY DEF Switch!popState_notRax, Names
<1>2. Switch!pushState_notRax \in Seq(Names) /\ Len(Switch!pushState_notRax) = 16
  BY DEF Switch!pushState_notRax, Names
<1>3. Switch!StackFrame \in Seq(Names) /\ Len(Switch!StackFrame) = 19
  BY DEF Switch!StackFrame, Names
<1>4. \A i \in 1 .. 16 :
        i = 1 \/ i = 2 \/ i = 3 \/ i = 4 \/ i = 5 \/ i = 6 \/ i = 7 \/ i = 8
        \/ i = 9 \/ i = 10 \/ i = 11 \/ i = 12 \/ i = 13 \/ i = 14 \/ i = 15 \/ i = 16
  OBVIOUS
<1>5. \A i \in 1 .. 16 : Switch!pushState_notRax[16 + 1 - i] = Switch!popState_notRax[i]
  BY <1>4 DEF Switch!pushState_notRax, Switch!popState_notRax
<1>6. \A i \in 1 .. 16 : Switch!StackFrame[i] = Switch!popState_notRax[i]
  BY <1>4 DEF Switch!StackFrame, Switch!popState_notRax
<1>7. Switch!StackFrame[17] = "rax" /\ Switch!StackFrame[18] = "rip" /\ Switch!StackFrame[19] = "eflags"
  BY DEF Switch!StackFrame
<1>8. Mirrors(Switch!popState_notRax, Switch!pushState_notRax)
  BY <1>1, <1>2, <1>5 DEF Mirrors
<1>9. Mirrors(<<"rax">>, <<"rax">>)
  <2>1. <<"rax">> \in Seq(Names) /\ Len(<<"rax">>) = 1
    BY DEF Names
  <2>2. \A i \in 1 .. 1 : <<"rax">>[1 + 1 - i] = <<"rax">>[i]
    OBVIOUS
  <2> QED
    BY <2>1, <2>2 DEF Mirrors
<1>10. Mirrors(Switch!iretq, Flags)
  <2>1. /\ Switch!iretq \in Seq(Names) /\ Len(Switch!iretq) = 2
        /\ Flags \in Seq(Names) /\ Len(Flags) = 2
    BY DEF Names, Flags, Switch!iretq
  <2>2. \A i \in 1 .. 2 : i = 1 \/ i = 2
    OBVIOUS
  <2>3. \A i \in 1 .. 2 : Flags[2 + 1 - i] = Switch!iretq[i]
    BY <2>2 DEF Flags, Switch!iretq
  <2> QED
    BY <2>1, <2>3 DEF Mirrors
<1> QED
  BY <1>1, <1>3, <1>6, <1>7, <1>8, <1>9, <1>10

(* A tick saves every register, and a call all but rax.                    *)
LEMMA Orders ==
    /\ Mirrors(TickOrder, TickSaves) /\ TickOrder = Switch!StackFrame
    /\ Mirrors(CallOrder, CallSaves)
    /\ Switch!ToSet(TickOrder) = Switch!Register /\ Switch!Register \subseteq Names
    /\ Switch!Register \ {"rax"} \subseteq Switch!ToSet(CallOrder)
    /\ "rax" \in Switch!Register /\ "rip" \in Switch!Register
    /\ "rdi" \in Switch!Register /\ "rsi" \in Switch!Register /\ "eflags" \in Switch!Register
<1>1. Mirrors(Switch!popState, Switch!pushState)
  BY Stubs, MirrorsJoin, Zenon DEF Switch!popState, Switch!pushState
<1>2. Mirrors(TickOrder, TickSaves)
  BY <1>1, Stubs, MirrorsJoin, Zenon DEF TickOrder, TickSaves
<1>3. Mirrors(CallOrder, CallSaves)
  BY Stubs, MirrorsJoin, Zenon DEF CallOrder, CallSaves
<1>4. /\ Switch!popState_notRax \in Seq(Names) /\ <<"rax">> \in Seq(Names)
      /\ Switch!iretq \in Seq(Names) /\ Switch!popState \in Seq(Names)
  BY <1>1, Stubs DEF Mirrors
<1>5. TickOrder = Switch!StackFrame
  <2>1. Concatenation(Switch!popState, Switch!popState_notRax, <<"rax">>, Names)
    BY <1>4, Concatenated, Zenon DEF Switch!popState
  <2>2. Concatenation(TickOrder, Switch!popState, Switch!iretq, Names)
    BY <1>4, Concatenated, Zenon DEF TickOrder
  <2>3. PICK b, c, d, e, f :
          /\ b = Switch!popState_notRax /\ c = Switch!popState /\ d = Switch!iretq
          /\ e = TickOrder /\ f = Switch!StackFrame
    OBVIOUS
  <2>4. Len(b) = 16 /\ Len(d) = 2 /\ d[1] = "rip" /\ d[2] = "eflags"
    BY <2>3, Stubs DEF Switch!iretq
  <2>5. Len(c) = 17 /\ \A i \in 1 .. 17 : c[i] = IF i <= 16 THEN b[i] ELSE "rax"
    BY <2>1, <2>3, <2>4 DEF Concatenation
  <2>6. /\ e \in Seq(Names) /\ Len(e) = 19
        /\ \A i \in 1 .. 19 : e[i] = IF i <= 17 THEN c[i] ELSE d[i - 17]
    BY <2>2, <2>3, <2>4, <2>5 DEF Concatenation
  <2>7. ASSUME NEW i \in 1 .. 19 PROVE e[i] = f[i]
    <3>1. i \in 1 .. 16 \/ i = 17 \/ i = 18 \/ i = 19
      OBVIOUS
    <3>2. /\ \A j \in 1 .. 16 : f[j] = b[j]
          /\ f[17] = "rax" /\ f[18] = "rip" /\ f[19] = "eflags"
      BY <2>3, Stubs
    <3> QED
      BY <2>4, <2>5, <2>6, <3>1, <3>2
  <2>8. f \in Seq(Names) /\ Len(f) = 19
    BY <2>3, Stubs
  <2> QED
    BY <2>3, <2>6, <2>7, <2>8, SeqEqual
<1>6. Switch!ToSet(TickOrder) = Switch!Register
  BY <1>5 DEF Switch!Register
<1>7. Switch!ToSet(TickOrder) =
        (Switch!ToSet(Switch!popState_notRax) \cup Switch!ToSet(<<"rax">>)) \cup Switch!ToSet(Switch!iretq)
  <2>1. Switch!ToSet(TickOrder) = Switch!ToSet(Switch!popState) \cup Switch!ToSet(Switch!iretq)
    BY <1>4, ElementsOfBoth, Zenon DEF TickOrder
  <2>2. Switch!popState_notRax \o <<"rax">> = Switch!popState
    BY DEF Switch!popState
  <2>3. Switch!ToSet(Switch!popState_notRax \o <<"rax">>) =
          Switch!ToSet(Switch!popState_notRax) \cup Switch!ToSet(<<"rax">>)
    BY <1>4, ElementsOfBoth, Zenon
  <2> QED
    BY <2>1, <2>2, <2>3
<1>8. Switch!ToSet(CallOrder) = Switch!ToSet(Switch!popState_notRax) \cup Switch!ToSet(Switch!iretq)
  BY <1>4, ElementsOfBoth, Zenon DEF CallOrder
<1>9. Switch!ToSet(<<"rax">>) = {"rax"}
  BY DEF Switch!ToSet
<1>10. Switch!Register \subseteq Names
  <2>1. PICK f : f = Switch!StackFrame
    OBVIOUS
  <2>2. f \in Seq(Names) /\ DOMAIN f = 1 .. Len(f)
    BY <2>1, Stubs, LenProperties
  <2>3. \A i \in DOMAIN f : f[i] \in Names
    BY <2>2, ElementOfSeq
  <2> QED
    BY <2>1, <2>3 DEF Switch!ToSet, Switch!Register
<1>11. {"rdi", "rsi"} \subseteq Switch!ToSet(Switch!popState_notRax) /\ {"rip", "eflags"} \subseteq Switch!ToSet(Switch!iretq)
  <2>1. /\ {11, 12} \subseteq DOMAIN Switch!popState_notRax
        /\ Switch!popState_notRax[12] = "rdi" /\ Switch!popState_notRax[11] = "rsi"
    BY DEF Switch!popState_notRax
  <2>2. {1, 2} \subseteq DOMAIN Switch!iretq /\ Switch!iretq[1] = "rip" /\ Switch!iretq[2] = "eflags"
    BY DEF Switch!iretq
  <2> QED
    BY <2>1, <2>2 DEF Switch!ToSet
<1> QED
  BY <1>2, <1>3, <1>5, <1>6, <1>7, <1>8, <1>9, <1>10, <1>11

-----------------------------------------------------------------------------
(* What the registers hold, for a list of them, and the stack that keeps it. *)

IsFile(f) == f = [r \in Switch!Register |-> f[r]]

LEMMA FrameIsSeq ==
    ASSUME NEW u, NEW names \in Seq(Names)
    PROVE  Frame(u, names) \in Seq({u[r] : r \in Names}) /\ Len(Frame(u, names)) = Len(names)
<1>1. PICK n \in Nat : n = Len(names)
  BY LenProperties
<1>2. DOMAIN names = 1 .. n /\ \A i \in 1 .. n : names[i] \in Names
  BY <1>1, LenProperties, ElementOfSeq
<1>3. Frame(u, names) \in [1 .. n -> {u[r] : r \in Names}]
  BY <1>2 DEF Frame
<1> QED
  BY <1>1, <1>3, FunctionIsSeq

LEMMA Widened ==
    ASSUME NEW S, NEW V, NEW s
    PROVE  (s \in Seq(S) => s \in Seq(S \cup V)) /\ (s \in Seq(V) => s \in Seq(S \cup V))
<1>1. ASSUME NEW W, W \subseteq S \cup V, s \in Seq(W) PROVE s \in Seq(S \cup V)
  <2>1. PICK n \in Nat : n = Len(s)
    BY <1>1, LenProperties
  <2>2. s \in [1 .. n -> W]
    BY <1>1, <2>1, LenProperties
  <2>3. s \in [1 .. n -> S \cup V]
    BY <1>1, <2>2
  <2> QED
    BY <2>3, SeqDef
<1> QED
  BY <1>1

LEMMA Whole ==
    ASSUME NEW S, NEW s \in Seq(S)
    PROVE  SubSeq(s, 1, Len(s)) = s
<1>1. PICK n \in Nat : n = Len(s)
  BY LenProperties
<1>2. PICK w : w = SubSeq(s, 1, n)
  OBVIOUS
<1>3. \A i \in 1 .. n : s[i] \in S
  BY <1>1, ElementOfSeq
<1>4. w \in Seq(S) /\ Len(w) = n /\ \A i \in 1 .. n : w[i] = s[i]
  <2>1. /\ w \in Seq(S) /\ Len(w) = IF 1 <= n THEN n - 1 + 1 ELSE 0
        /\ \A i \in 1 .. n - 1 + 1 : w[i] = s[1 + i - 1]
    BY <1>2, <1>3, SubSeqProperties
  <2> QED
    BY <2>1
<1> QED
  BY <1>1, <1>2, <1>4, SeqEqual

(* What was saved comes back, and what was below it remains.               *)
Restored(t, order, u, s) ==
    /\ Switch!Popped(t, order) = [r \in Switch!ToSet(order) |-> u[r]]
    /\ Switch!Dropped(t, order) = s

LEMMA Restores ==
    ASSUME NEW S, NEW s \in Seq(S), NEW u, NEW order, NEW saves, Mirrors(order, saves)
    PROVE  Restored(s \o Frame(u, saves), order, u, s)
<1>0. PICK t : t = s \o Frame(u, saves)
  OBVIOUS
<1>1. PICK n \in Nat : n = Len(order)
  BY LenProperties DEF Mirrors
<1>2. PICK m \in Nat : m = Len(s)
  BY LenProperties
<1>3. PICK f : f = Frame(u, saves)
  OBVIOUS
<1>4. /\ order \in Seq(Names) /\ saves \in Seq(Names) /\ Len(saves) = n
      /\ \A j \in 1 .. n : saves[n + 1 - j] = order[j]
  BY <1>1 DEF Mirrors
<1>5. PICK V : V = {u[r] : r \in Names}
  OBVIOUS
<1>6. f \in Seq(V) /\ Len(f) = n
  BY <1>3, <1>4, <1>5, FrameIsSeq
<1>7. DOMAIN order = 1 .. n /\ DOMAIN saves = 1 .. n
  BY <1>1, <1>4, LenProperties
<1>8. \A i \in 1 .. n : f[i] = u[saves[i]]
  BY <1>3, <1>7 DEF Frame
<1>9. s \in Seq(S \cup V) /\ f \in Seq(S \cup V)
  <2>1. s \in [1 .. m -> S] /\ f \in [1 .. n -> V]
    BY <1>2, <1>6, LenProperties
  <2>2. s \in [1 .. m -> S \cup V] /\ f \in [1 .. n -> S \cup V]
    BY <2>1
  <2> QED
    BY <2>2, SeqDef
<1>10. /\ t \in Seq(S \cup V) /\ Len(t) = m + n
       /\ \A i \in 1 .. m + n : t[i] = IF i <= m THEN s[i] ELSE f[i - m]
  <2>1. Concatenation(t, s, f, S \cup V)
    BY <1>0, <1>3, <1>9, Concatenated, Zenon
  <2> QED
    BY <1>2, <1>6, <2>1 DEF Concatenation
<1>11. ASSUME NEW i \in 1 .. n PROVE t[(m + n) + 1 - i] = u[order[i]]
  <2>1. /\ (m + n) + 1 - i \in 1 .. m + n /\ ~((m + n) + 1 - i <= m)
        /\ ((m + n) + 1 - i) - m = n + 1 - i /\ n + 1 - i \in 1 .. n
    OBVIOUS
  <2>2. t[(m + n) + 1 - i] = f[n + 1 - i]
    BY <1>10, <2>1
  <2> QED
    BY <1>4, <1>8, <2>1, <2>2
<1>12. Switch!Popped(t, order) = [r \in Switch!ToSet(order) |-> u[r]]
  <2> DEFINE word(r) == t[Len(t) + 1 - CHOOSE i \in DOMAIN order : order[i] = r]
  <2>1. ASSUME NEW r \in Switch!ToSet(order) PROVE word(r) = u[r]
    <3>1. \E i \in DOMAIN order : order[i] = r
      BY DEF Switch!ToSet
    <3>2. PICK k : k = CHOOSE i \in DOMAIN order : order[i] = r
      OBVIOUS
    <3>3. k \in 1 .. n /\ order[k] = r
      BY <1>7, <3>1, <3>2
    <3>4. t[(m + n) + 1 - k] = u[r]
      BY <1>11, <3>3
    <3> QED
      BY <1>10, <3>2, <3>4
  <2>2. Switch!Popped(t, order) = [r \in Switch!ToSet(order) |-> word(r)]
    BY Zenon DEF Switch!Popped
  <2> HIDE DEF word
  <2> QED
    BY <2>1, <2>2
<1>13. Switch!Dropped(t, order) = s
  <2>1. Len(t) - Len(order) = m
    BY <1>1, <1>10
  <2>2. SubSeq(t, 1, m) = s
    <3>1. PICK w : w = SubSeq(t, 1, m)
      OBVIOUS
    <3>2. w \in Seq(S \cup V) /\ Len(w) = m /\ \A i \in 1 .. m : w[i] = t[i]
      <4>1. 1 \in 1 .. Len(t) + 1 /\ m \in 0 .. Len(t)
        BY <1>10
      <4> QED
        BY <1>10, <3>1, <4>1, SubSeqProperties
    <3> QED
      BY <1>2, <1>9, <1>10, <3>1, <3>2, SeqEqual
  <2> QED
    BY <2>1, <2>2 DEF Switch!Dropped
<1> QED
  BY <1>0, <1>12, <1>13 DEF Restored

-----------------------------------------------------------------------------
(* The context switch: what is in the stack of a process that lost the     *)
(* processor, and of one that is in a call, is what it had.                *)

Top(l) == l[Len(l)]

IsLeft(l) ==
    \/ l = <<>>
    \/ \E a : IsFile(a) /\ l = <<a>>
    \/ \E a, b : IsFile(a) /\ IsFile(b) /\ l = <<a, b>>

Base(l) == IF Len(l) = 2 THEN Frame(l[1], CallSaves) ELSE <<>>
Parked(l) == Base(l) \o Frame(Top(l), TickSaves)

SwitchInv ==
    /\ current \in Process /\ registers[current] # <<>>
    /\ stack = [p \in Process |-> stack[p]]
    /\ rsp = [p \in Process |-> rsp[p]]
    /\ registers = [p \in Process |-> registers[p]]
    /\ \A p \in Process : IsLeft(registers[p])
    /\ cpu = Top(registers[current])
    /\ stack[current] = Base(registers[current])
    /\ \A p \in Process \ {current} : registers[p] # <<>> =>
         stack[p] = Parked(registers[p]) /\ rsp[p] = Len(stack[p])

LEMMA Kept ==
    ASSUME NEW l, IsLeft(l), l # <<>>
    PROVE  IsFile(Top(l)) /\ Len(l) \in 1 .. 2 /\ \E S : Base(l) \in Seq(S)
<1>1. CASE \E a : IsFile(a) /\ l = <<a>>
  <2>1. PICK a : IsFile(a) /\ l = <<a>>
    BY <1>1
  <2>2. Len(l) = 1 /\ Top(l) = a
    BY <2>1 DEF Top
  <2>3. Base(l) \in Seq({})
    BY <2>2, EmptySeq DEF Base
  <2> QED
    BY <2>1, <2>2, <2>3
<1>2. CASE \E a, b : IsFile(a) /\ IsFile(b) /\ l = <<a, b>>
  <2>1. PICK a, b : IsFile(a) /\ IsFile(b) /\ l = <<a, b>>
    BY <1>2
  <2>2. Len(l) = 2 /\ Top(l) = b /\ l[1] = a
    BY <2>1 DEF Top
  <2>3. CallSaves \in Seq(Names)
    BY Orders DEF Mirrors
  <2>4. Base(l) \in Seq({a[r] : r \in Names})
    BY <2>2, <2>3, FrameIsSeq DEF Base
  <2> QED
    BY <2>1, <2>2, <2>4
<1> QED
  BY <1>1, <1>2 DEF IsLeft

LEMMA SavedWhole ==
    ASSUME NEW l, IsLeft(l), l # <<>>, NEW t, t = Parked(l)
    PROVE  /\ SubSeq(t, 1, Len(t)) = t
           /\ Switch!Popped(t, Switch!popState \o Switch!iretq) = Top(l)
           /\ Switch!Dropped(t, Switch!popState \o Switch!iretq) = Base(l)
<1>1. PICK S : Base(l) \in Seq(S)
  BY Kept
<1>2. Mirrors(TickOrder, TickSaves)
  BY Orders
<1>3. t = Base(l) \o Frame(Top(l), TickSaves)
  BY DEF Parked
<1>4. /\ Switch!Popped(t, TickOrder) = [r \in Switch!ToSet(TickOrder) |-> Top(l)[r]]
      /\ Switch!Dropped(t, TickOrder) = Base(l)
  <2>1. PICK b, u : b = Base(l) /\ u = Top(l)
    OBVIOUS
  <2>2. b \in Seq(S) /\ t = b \o Frame(u, TickSaves)
    BY <1>1, <1>3, <2>1
  <2>3. Restored(b \o Frame(u, TickSaves), TickOrder, u, b)
    BY <1>2, <2>2, Restores, Zenon
  <2> QED
    BY <2>1, <2>2, <2>3, Zenon DEF Restored
<1>5. [r \in Switch!ToSet(TickOrder) |-> Top(l)[r]] = Top(l)
  BY Kept, Orders DEF IsFile
<1>6. SubSeq(t, 1, Len(t)) = t
  <2>1. PICK V : V = {Top(l)[r] : r \in Names}
    OBVIOUS
  <2>2. PICK f : f = Frame(Top(l), TickSaves)
    OBVIOUS
  <2>3. f \in Seq(V)
    BY <1>2, <2>1, <2>2, FrameIsSeq DEF Mirrors
  <2>4. Base(l) \in Seq(S \cup V) /\ f \in Seq(S \cup V)
    BY <1>1, <2>3, Widened
  <2>5. t \in Seq(S \cup V)
    BY <1>3, <2>2, <2>4, Concatenated, Zenon DEF Concatenation
  <2> QED
    BY <2>5, Whole
<1> QED
  BY <1>4, <1>5, <1>6 DEF TickOrder

(* Whoever gets the processor has what it left.                            *)
LEMMA Changes ==
    ASSUME NEW p \in Process, NEW l, IsLeft(l), l # <<>>,
           NEW stacks, stacks = [q \in Process |-> stacks[q]], stacks[p] = Parked(l),
           NEW sp, sp = Len(stacks[p]), Switch!_change_process(p, stacks, sp)
    PROVE  /\ current' = p /\ cpu' = Top(l)
           /\ stack' = [q \in Process |-> IF q = p THEN Base(l) ELSE stacks[q]]
<1>1. PICK t : t = stacks[p]
  OBVIOUS
<1>2. /\ SubSeq(stacks[p], 1, sp) = t
      /\ Switch!Popped(t, Switch!popState \o Switch!iretq) = Top(l)
      /\ Switch!Dropped(t, Switch!popState \o Switch!iretq) = Base(l)
  <2>1. t = Parked(l) /\ sp = Len(t)
    BY <1>1
  <2>2. /\ SubSeq(t, 1, Len(t)) = t
        /\ Switch!Popped(t, Switch!popState \o Switch!iretq) = Top(l)
        /\ Switch!Dropped(t, Switch!popState \o Switch!iretq) = Base(l)
    BY <2>1, SavedWhole, Zenon
  <2> QED
    BY <1>1, <2>1, <2>2, Zenon
<1>3. /\ current' = p
      /\ cpu' = Switch!Popped(t, Switch!popState \o Switch!iretq)
      /\ stack' = [stacks EXCEPT ![p] = Switch!Dropped(t, Switch!popState \o Switch!iretq)]
  BY <1>2, Zenon DEF Switch!_change_process
<1> QED
  BY <1>2, <1>3

(* Everything is saved before the processor goes to another.               *)
LEMMA Gone ==
    ASSUME SwitchInv, NEW p \in Process, registers[p] # <<>>,
           Switch!next_process(p, Switch!Entered(Switch!pushState)), registers' = registers
    PROVE  SwitchInv'
<1>1. PICK s : s = Switch!Entered(Switch!pushState)
  OBVIOUS
<1>2. s = Parked(registers[current])
  BY <1>1, Zenon DEF SwitchInv, Switch!Entered, Switch!Pushed, Parked, Frame, TickSaves, Flags
<1>3. PICK stacks : stacks = [stack EXCEPT ![current] = s]
  OBVIOUS
<1>4. /\ current \in Process /\ registers[current] # <<>> /\ IsLeft(registers[p])
      /\ stack = [q \in Process |-> stack[q]] /\ rsp = [q \in Process |-> rsp[q]]
  BY DEF SwitchInv
<1>5. /\ stacks = [q \in Process |-> stacks[q]] /\ stacks[current] = s
      /\ \A q \in Process \ {current} : stacks[q] = stack[q]
  BY <1>3, <1>4
<1>6. rsp' = [rsp EXCEPT ![current] = Len(s)] /\ Switch!_change_process(p, stacks, rsp'[p])
  BY <1>1, <1>3 DEF Switch!next_process
<1>7. rsp'[p] = Len(stacks[p]) /\ stacks[p] = Parked(registers[p])
  <2>1. CASE p = current
    BY <1>2, <1>4, <1>5, <1>6, <2>1
  <2>2. CASE p # current
    <3>1. p \in Process \ {current}
      BY <2>2
    <3>2. stack[p] = Parked(registers[p]) /\ rsp[p] = Len(stack[p])
      BY <3>1 DEF SwitchInv
    <3>3. rsp'[p] = rsp[p] /\ stacks[p] = stack[p]
      BY <1>4, <1>5, <1>6, <3>1
    <3> QED
      BY <3>2, <3>3
  <2> QED
    BY <2>1, <2>2
<1>8. /\ current' = p /\ cpu' = Top(registers[p])
      /\ stack' = [q \in Process |-> IF q = p THEN Base(registers[p]) ELSE stacks[q]]
  BY <1>4, <1>5, <1>6, <1>7, Changes
<1>9. ASSUME NEW q \in Process \ {current'}, registers[q] # <<>>
      PROVE  stack'[q] = Parked(registers[q]) /\ rsp'[q] = Len(stack'[q])
  <2>1. stack'[q] = stacks[q] /\ q \in Process
    BY <1>8
  <2>2. CASE q = current
    BY <1>2, <1>4, <1>5, <1>6, <2>1, <2>2
  <2>3. CASE q # current
    <3>1. stack[q] = Parked(registers[q]) /\ rsp[q] = Len(stack[q])
      BY <1>9, <2>3 DEF SwitchInv
    <3>2. rsp'[q] = rsp[q] /\ stacks[q] = stack[q]
      BY <1>4, <1>5, <1>6, <2>1, <2>3
    <3> QED
      BY <2>1, <3>1, <3>2
  <2> QED
    BY <2>2, <2>3
<1>10. /\ stack' = [q \in Process |-> stack'[q]] /\ stack'[p] = Base(registers[p])
       /\ rsp' = [q \in Process |-> rsp'[q]]
  BY <1>4, <1>6, <1>8
<1>11. registers = [q \in Process |-> registers[q]] /\ \A q \in Process : IsLeft(registers[q])
  BY DEF SwitchInv
<1> QED
  BY <1>8, <1>9, <1>10, <1>11 DEF SwitchInv

(* Whoever keeps the processor disturbs nobody else.                       *)
LEMMA Goes ==
    ASSUME SwitchInv, NEW l, IsLeft(l), l # <<>>,
           current' = current, rsp' = rsp, cpu' = Top(l),
           registers' = [registers EXCEPT ![current] = l],
           stack' = [stack EXCEPT ![current] = Base(l)]
    PROVE  SwitchInv'
<1>1. /\ current \in Process
      /\ stack = [q \in Process |-> stack[q]] /\ rsp = [q \in Process |-> rsp[q]]
      /\ registers = [q \in Process |-> registers[q]]
      /\ \A q \in Process : IsLeft(registers[q])
  BY DEF SwitchInv
<1>2. /\ stack' = [q \in Process |-> stack'[q]] /\ rsp' = [q \in Process |-> rsp'[q]]
      /\ registers' = [q \in Process |-> registers'[q]]
      /\ registers'[current] = l /\ stack'[current] = Base(l)
      /\ \A q \in Process \ {current} : registers'[q] = registers[q] /\ stack'[q] = stack[q]
  BY <1>1
<1>3. \A q \in Process : IsLeft(registers'[q])
  BY <1>1, <1>2
<1>4. \A q \in Process \ {current} : registers'[q] # <<>> =>
        stack'[q] = Parked(registers'[q]) /\ rsp'[q] = Len(stack'[q])
  BY <1>2 DEF SwitchInv
<1> QED
  BY <1>1, <1>2, <1>3, <1>4 DEF SwitchInv

(* What the process that runs last had.                                    *)
LEMMA Runs ==
    ASSUME SwitchInv
    PROVE  \/ /\ ~Switch!InCall /\ IsFile(cpu) /\ registers[current] = <<cpu>>
              /\ stack[current] = <<>>
           \/ /\ Switch!InCall
              /\ \E a : /\ IsFile(a) /\ IsFile(cpu) /\ registers[current] = <<a, cpu>>
                        /\ stack[current] = Frame(a, CallSaves)
<1>1. PICK l : l = registers[current]
  OBVIOUS
<1>2. IsLeft(l) /\ l # <<>> /\ cpu = Top(l) /\ stack[current] = Base(l)
  BY <1>1 DEF SwitchInv
<1>3. CASE \E a : IsFile(a) /\ l = <<a>>
  <2>1. PICK a : IsFile(a) /\ l = <<a>>
    BY <1>3
  <2>2. Len(l) = 1 /\ l[1] = a /\ Len(l) # 2
    BY <2>1
  <2>3. cpu = a /\ stack[current] = <<>>
    BY <1>2, <2>2 DEF Top, Base
  <2>4. ~Switch!InCall
    BY <1>1, <2>2 DEF Switch!InCall, Switch!Has
  <2> QED
    BY <1>1, <2>1, <2>3, <2>4
<1>4. CASE \E a, b : IsFile(a) /\ IsFile(b) /\ l = <<a, b>>
  <2>1. PICK a, b : IsFile(a) /\ IsFile(b) /\ l = <<a, b>>
    BY <1>4
  <2>2. Len(l) = 2 /\ l[1] = a /\ l[2] = b
    BY <2>1
  <2>3. cpu = b /\ stack[current] = Frame(a, CallSaves)
    BY <1>2, <2>2 DEF Top, Base
  <2>4. Switch!InCall
    BY <1>1, <2>2 DEF Switch!InCall, Switch!Has
  <2> QED
    BY <1>1, <2>1, <2>3, <2>4
<1> QED
  BY <1>2, <1>3, <1>4 DEF IsLeft

(* The lists of one and of two, as the stack sees them.                    *)
LEMMA One ==
    ASSUME NEW a, IsFile(a)
    PROVE  IsLeft(<<a>>) /\ <<a>> # <<>> /\ Top(<<a>>) = a /\ Base(<<a>>) = <<>>
<1>1. PICK l : l = <<a>>
  OBVIOUS
<1>2. Len(l) = 1 /\ l[1] = a /\ l # <<>>
  BY <1>1
<1>3. Top(l) = a /\ Base(l) = <<>>
  BY <1>2 DEF Top, Base
<1>4. IsLeft(l)
  BY <1>1 DEF IsLeft
<1> QED
  BY <1>1, <1>2, <1>3, <1>4

LEMMA Two ==
    ASSUME NEW a, NEW b, IsFile(a), IsFile(b)
    PROVE  /\ IsLeft(<<a, b>>) /\ <<a, b>> # <<>> /\ Top(<<a, b>>) = b
           /\ Base(<<a, b>>) = Frame(a, CallSaves)
<1>1. PICK l : l = <<a, b>>
  OBVIOUS
<1>2. Len(l) = 2 /\ l[1] = a /\ l[2] = b /\ l # <<>>
  BY <1>1
<1>3. Top(l) = b /\ Base(l) = Frame(a, CallSaves)
  BY <1>2 DEF Top, Base
<1>4. IsLeft(l)
  BY <1>1 DEF IsLeft
<1> QED
  BY <1>1, <1>2, <1>3, <1>4

(* Code that runs without touching its stack.                              *)
LEMMA ComputesOn ==
    ASSUME SwitchInv, NEW f, IsFile(f), cpu' = f,
           registers' = [registers EXCEPT ![current][Switch!Has] = cpu'],
           current' = current, stack' = stack, rsp' = rsp
    PROVE  SwitchInv'
<1>1. CASE ~Switch!InCall /\ IsFile(cpu) /\ registers[current] = <<cpu>> /\ stack[current] = <<>>
  <2>1. PICK l : l = <<f>>
    OBVIOUS
  <2>2. Switch!Has = 1
    BY <1>1 DEF Switch!Has
  <2>3. registers' = [registers EXCEPT ![current] = l]
    <3>1. [<<cpu>> EXCEPT ![1] = f] = <<f>>
      OBVIOUS
    <3>2. registers' = [registers EXCEPT ![current] = [registers[current] EXCEPT ![1] = f]]
      BY <2>2, Zenon
    <3> QED
      BY <1>1, <2>1, <3>1, <3>2, Zenon
  <2>4. IsLeft(l) /\ l # <<>> /\ Top(l) = f /\ Base(l) = <<>>
    BY <2>1, One
  <2>5. stack' = [stack EXCEPT ![current] = Base(l)]
    BY <1>1, <2>4 DEF SwitchInv
  <2> QED
    BY <2>3, <2>4, <2>5, Goes
<1>2. CASE Switch!InCall /\ \E a : /\ IsFile(a) /\ IsFile(cpu) /\ registers[current] = <<a, cpu>>
                                   /\ stack[current] = Frame(a, CallSaves)
  <2>0. PICK a : /\ IsFile(a) /\ registers[current] = <<a, cpu>>
                 /\ stack[current] = Frame(a, CallSaves)
    BY <1>2
  <2>1. PICK l : l = <<a, f>>
    OBVIOUS
  <2>2. Switch!Has = 2
    BY <1>2 DEF Switch!InCall
  <2>3. registers' = [registers EXCEPT ![current] = l]
    <3>1. [<<a, cpu>> EXCEPT ![2] = f] = <<a, f>>
      OBVIOUS
    <3>2. registers' = [registers EXCEPT ![current] = [registers[current] EXCEPT ![2] = f]]
      BY <2>2, Zenon
    <3> QED
      BY <2>0, <2>1, <3>1, <3>2, Zenon
  <2>4. IsLeft(l) /\ l # <<>> /\ Top(l) = f /\ Base(l) = Frame(a, CallSaves)
    BY <2>0, <2>1, Two
  <2>5. stack' = [stack EXCEPT ![current] = Base(l)]
    BY <2>0, <2>4 DEF SwitchInv
  <2> QED
    BY <2>3, <2>4, <2>5, Goes
<1> QED
  BY <1>1, <1>2, Runs

LEMMA FrameAlone ==
    ASSUME NEW u, NEW names \in Seq(Names)
    PROVE  <<>> \o Frame(u, names) = Frame(u, names)
<1>1. PICK f, V : f = Frame(u, names) /\ V = {u[r] : r \in Names}
  OBVIOUS
<1>2. f \in Seq(V)
  BY <1>1, FrameIsSeq
<1>3. <<>> \o f = f
  BY <1>2, ConcatEmptySeq
<1> QED
  BY <1>1, <1>3

LEMMA AppendsTo ==
    ASSUME NEW l, NEW a, NEW b, l = <<a>>, NEW m, m = <<a, b>>
    PROVE  Append(l, b) = m
<1>1. PICK s : s = Append(l, b)
  OBVIOUS
<1>2. l \in Seq({a, b}) /\ Len(l) = 1 /\ l[1] = a /\ m \in Seq({a, b}) /\ Len(m) = 2
  OBVIOUS
<1>3. /\ s \in Seq({a, b}) /\ Len(s) = 2 /\ s[2] = b /\ s[1] = a
  BY <1>1, <1>2, AppendProperties
<1>4. \A i \in 1 .. 2 : s[i] = m[i]
  <2>1. \A i \in 1 .. 2 : i = 1 \/ i = 2
    OBVIOUS
  <2> QED
    BY <1>3, <2>1
<1>5. s = m
  BY <1>2, <1>3, <1>4, SeqEqual
<1> QED
  BY <1>1, <1>5

LEMMA Calls ==
    ASSUME SwitchInv, Switch!_syscallHandler PROVE SwitchInv'
<1>1. IsFile(cpu) /\ registers[current] = <<cpu>> /\ stack[current] = <<>> /\ current \in Process
  BY Runs DEF Switch!_syscallHandler, SwitchInv
<1>2. PICK f : f = cpu'
  OBVIOUS
<1>3. IsFile(f)
  <2>1. f = [cpu EXCEPT !["rdi"] = cpu["rax"], !["rsi"] = cpu["rbx"],
                        !["rip"] = <<current, "dispatcher", 0, "rip">>, !["eflags"] = Switch!Off]
    BY <1>2, Zenon DEF Switch!_syscallHandler
  <2>2. cpu = [r \in Switch!Register |-> cpu[r]]
    BY <1>1 DEF IsFile
  <2>3. PICK x, y, z, w :
          /\ x = cpu["rax"] /\ y = cpu["rbx"]
          /\ z = <<current, "dispatcher", 0, "rip">> /\ w = Switch!Off
    OBVIOUS
  <2>4. f = [cpu EXCEPT !["rdi"] = x, !["rsi"] = y, !["rip"] = z, !["eflags"] = w]
    BY <2>1, <2>3, Zenon
  <2> QED
    BY <2>2, <2>4 DEF IsFile
<1>4. PICK l : l = <<cpu, f>>
  OBVIOUS
<1>5. IsLeft(l) /\ l # <<>> /\ Top(l) = f /\ Base(l) = Frame(cpu, CallSaves)
  BY <1>1, <1>3, <1>4, Two
<1>6. registers' = [registers EXCEPT ![current] = l]
  <2>1. registers' = [registers EXCEPT ![current] = Append(registers[current], f)]
    BY <1>2, Zenon DEF Switch!_syscallHandler
  <2>2. Append(registers[current], f) = l
    <3>1. PICK k, c : k = registers[current] /\ c = cpu
      OBVIOUS
    <3>2. k = <<c>> /\ l = <<c, f>>
      BY <1>1, <1>4, <3>1
    <3> QED
      BY <3>1, <3>2, AppendsTo
  <2> QED
    BY <2>1, <2>2, Zenon
<1>7. stack' = [stack EXCEPT ![current] = Base(l)]
  <2>1. stack' = [stack EXCEPT ![current] = <<>> \o Frame(cpu, CallSaves)]
    BY <1>1, Zenon DEF Switch!_syscallHandler, Switch!Entered, Switch!Pushed, Frame, CallSaves, Flags
  <2>2. <<>> \o Frame(cpu, CallSaves) = Frame(cpu, CallSaves)
    <3>1. CallSaves \in Seq(Names)
      BY Orders DEF Mirrors
    <3> QED
      BY <3>1, FrameAlone, Zenon
  <2> QED
    BY <1>5, <2>1, <2>2, Zenon
<1>8. current' = current /\ rsp' = rsp
  BY DEF Switch!_syscallHandler
<1> QED
  BY <1>2, <1>5, <1>6, <1>7, <1>8, Goes

LEMMA Returns ==
    ASSUME SwitchInv, Switch!SyscallReturns PROVE SwitchInv'
<1>1. PICK a : /\ IsFile(a) /\ registers[current] = <<a, cpu>>
               /\ stack[current] = Frame(a, CallSaves)
  BY Runs DEF Switch!SyscallReturns
<1>2. PICK result : result = <<current, "result", 0, "rax">>
  OBVIOUS
<1>3. PICK f : f = [a EXCEPT !["rax"] = result]
  OBVIOUS
<1>4. IsFile(f) /\ \A r \in Switch!Register : f[r] = IF r = "rax" THEN result ELSE a[r]
  <2>1. a = [r \in Switch!Register |-> a[r]]
    BY <1>1 DEF IsFile
  <2> QED
    BY <1>3, <2>1 DEF IsFile
<1>5. /\ \A r \in Switch!Register \ {"rax"} : Switch!Popped(stack[current], CallOrder)[r] = a[r]
      /\ Switch!Dropped(stack[current], CallOrder) = <<>>
  <2>1. CallSaves \in Seq(Names) /\ Mirrors(CallOrder, CallSaves)
    BY Orders DEF Mirrors
  <2>2. <<>> \o Frame(a, CallSaves) = Frame(a, CallSaves)
    BY <2>1, FrameAlone, Zenon
  <2>3. <<>> \in Seq(Names)
    BY EmptySeq
  <2>4. Restored(<<>> \o Frame(a, CallSaves), CallOrder, a, <<>>)
    BY <2>1, <2>3, Restores, Zenon
  <2>5. Restored(stack[current], CallOrder, a, <<>>)
    BY <1>1, <2>2, <2>4, Zenon
  <2>6. /\ Switch!Popped(stack[current], CallOrder) = [r \in Switch!ToSet(CallOrder) |-> a[r]]
        /\ Switch!Dropped(stack[current], CallOrder) = <<>>
    BY <2>5, Zenon DEF Restored
  <2> QED
    BY <2>6, Orders, Zenon
<1>6. PICK popped : popped = Switch!Popped(stack[current], CallOrder)
  OBVIOUS
<1>7. cpu' = f
  <2>1. cpu' = [r \in Switch!Register |-> IF r = "rax" THEN result ELSE popped[r]]
    BY <1>2, <1>6, Zenon DEF Switch!SyscallReturns, CallOrder
  <2>2. f = [r \in Switch!Register |-> f[r]]
    BY <1>4 DEF IsFile
  <2> QED
    BY <1>4, <1>5, <1>6, <2>1, <2>2
<1>8. PICK l : l = <<f>>
  OBVIOUS
<1>9. IsLeft(l) /\ l # <<>> /\ Top(l) = f /\ Base(l) = <<>>
  BY <1>4, <1>8, One
<1>10. registers' = [registers EXCEPT ![current] = l]
  <2>1. registers' = [registers EXCEPT ![current] = <<[Head(registers[current]) EXCEPT !["rax"] = result]>>]
    BY <1>2, Zenon DEF Switch!SyscallReturns
  <2>2. Head(<<a, cpu>>) = a
    OBVIOUS
  <2> QED
    BY <1>1, <1>3, <1>8, <2>1, <2>2, Zenon
<1>11. stack' = [stack EXCEPT ![current] = Base(l)]
  <2>1. stack' = [stack EXCEPT ![current] = Switch!Dropped(stack[current], CallOrder)]
    BY Zenon DEF Switch!SyscallReturns, CallOrder
  <2> QED
    BY <1>5, <1>9, <2>1, Zenon
<1>12. current' = current /\ rsp' = rsp
  BY DEF Switch!SyscallReturns
<1> QED
  BY <1>7, <1>9, <1>10, <1>11, <1>12, Goes

(* A key: the same process goes on.                                        *)
LEMMA Interrupted ==
    ASSUME SwitchInv, Switch!_irq01Handler PROVE SwitchInv'
<1>1. PICK s : s = Switch!Entered(Switch!pushState)
  OBVIOUS
<1>2. s = Parked(registers[current])
  BY <1>1, Zenon DEF SwitchInv, Switch!Entered, Switch!Pushed, Parked, Frame, TickSaves, Flags
<1>3. PICK l : l = registers[current]
  OBVIOUS
<1>4. /\ current \in Process /\ IsLeft(l) /\ l # <<>> /\ cpu = Top(l)
      /\ stack = [q \in Process |-> stack[q]] /\ registers = [q \in Process |-> registers[q]]
  BY <1>3 DEF SwitchInv
<1>5. PICK stacks : stacks = [stack EXCEPT ![current] = s]
  OBVIOUS
<1>6. stacks = [q \in Process |-> stacks[q]] /\ stacks[current] = Parked(l)
  BY <1>2, <1>3, <1>4, <1>5
<1>7. PICK sp : sp = Len(stacks[current])
  OBVIOUS
<1>8. Switch!_change_process(current, stacks, sp) /\ rsp' = rsp /\ registers' = registers
  <2>1. stacks[current] = s
    BY <1>4, <1>5
  <2> QED
    BY <1>1, <1>5, <1>7, <2>1, Zenon DEF Switch!_irq01Handler
<1>9. /\ current' = current /\ cpu' = Top(l)
      /\ stack' = [q \in Process |-> IF q = current THEN Base(l) ELSE stacks[q]]
  BY <1>4, <1>6, <1>7, <1>8, Changes
<1>10. stack' = [stack EXCEPT ![current] = Base(l)] /\ registers' = [registers EXCEPT ![current] = l]
  BY <1>3, <1>4, <1>5, <1>8, <1>9
<1> QED
  BY <1>4, <1>8, <1>9, <1>10, Goes

LEMMA FilledIsFile ==
    ASSUME NEW p
    PROVE  IsFile(Switch!Filled(p))
<1>1. PICK c : c = Switch!Computed(p, "filled", 0, Switch!On)
  OBVIOUS
<1>2. IsFile(c)
  <2>1. PICK T, g :
          /\ T = Switch!Register
          /\ g = [r \in T |-> IF r = "eflags" THEN Switch!On ELSE <<p, "filled", 0, r>>]
    OBVIOUS
  <2>2. c = g
    BY <1>1, <2>1, Zenon DEF Switch!Computed
  <2> QED
    BY <2>1, <2>2 DEF IsFile
<1>3. PICK x, y : x = <<p, "entry", 0, "rip">> /\ y = <<p, "params", 0, "rdi">>
  OBVIOUS
<1>4. Switch!Filled(p) = [c EXCEPT !["rip"] = x, !["rdi"] = y]
  BY <1>1, <1>3, Zenon DEF Switch!Filled
<1> QED
  BY <1>2, <1>4 DEF IsFile

(* The first frame of a stack is laid out as a tick lays out its own.      *)
LEMMA FilledIsParked ==
    ASSUME NEW p
    PROVE  Switch!fill_stack(p) = <<>> \o Frame(Switch!Filled(p), TickSaves)
<1>1. PICK f, order, saves, g :
        /\ f = Switch!Filled(p) /\ order = Switch!StackFrame /\ saves = TickSaves
        /\ g = [i \in DOMAIN order |-> f[order[i]]]
  OBVIOUS
<1>2. /\ order \in Seq(Names) /\ Len(order) = 19 /\ saves \in Seq(Names) /\ Len(saves) = 19
      /\ \A j \in 1 .. 19 : saves[20 - j] = order[j]
  BY <1>1, Orders, Stubs DEF Mirrors
<1>3. DOMAIN order = 1 .. 19 /\ DOMAIN saves = 1 .. 19
  BY <1>2, LenProperties
<1>4. g \in Seq({f[r] : r \in Names}) /\ Len(g) = 19
  <2>1. g = Frame(f, order)
    BY <1>1 DEF Frame
  <2>2. order \in Seq(Names) /\ Len(order) = 19
    BY <1>2
  <2>3. /\ Frame(f, order) \in Seq({f[r] : r \in Names})
        /\ Len(Frame(f, order)) = Len(order)
    BY <2>2, FrameIsSeq, Zenon
  <2> QED
    BY <2>1, <2>2, <2>3
<1>5. Switch!fill_stack(p) = Switch!Reverse(g)
  BY <1>1, Zenon DEF Switch!fill_stack
<1>6. Switch!Reverse(g) = [i \in 1 .. 19 |-> g[(19 - i) + 1]]
  BY <1>4 DEF Switch!Reverse
<1>7. \A i \in 1 .. 19 : g[(19 - i) + 1] = f[saves[i]]
  <2> SUFFICES ASSUME NEW i \in 1 .. 19 PROVE g[(19 - i) + 1] = f[saves[i]]
    OBVIOUS
  <2>1. PICK j \in 1 .. 19 : j = (19 - i) + 1 /\ i = 20 - j
    OBVIOUS
  <2>2. g[j] = f[order[j]]
    BY <1>1, <1>3
  <2> QED
    BY <1>2, <2>1, <2>2
<1>8. Switch!fill_stack(p) = Frame(f, saves)
  BY <1>3, <1>5, <1>6, <1>7 DEF Frame
<1> QED
  BY <1>1, <1>2, <1>8, FrameAlone

LEMMA Creates ==
    ASSUME SwitchInv, Switch!create_process PROVE SwitchInv'
<1>1. PICK p \in Process \ Switch!Live :
        /\ stack' = [stack EXCEPT ![p] = Switch!fill_stack(p)]
        /\ rsp' = [rsp EXCEPT ![p] = Len(stack'[p])]
        /\ registers' = [registers EXCEPT ![p] = <<Switch!Filled(p)>>]
        /\ UNCHANGED <<current, cpu>>
  BY DEF Switch!create_process
<1>2. PICK f : f = Switch!Filled(p)
  OBVIOUS
<1>3. PICK l : l = <<f>>
  OBVIOUS
<1>4. IsFile(f)
  BY <1>2, FilledIsFile
<1>5. IsLeft(l) /\ l # <<>> /\ Top(l) = f /\ Base(l) = <<>>
  BY <1>3, <1>4, One
<1>6. Switch!fill_stack(p) = Parked(l)
  BY <1>2, <1>5, FilledIsParked DEF Parked
<1>7. /\ current \in Process /\ registers[current] # <<>>
      /\ stack = [q \in Process |-> stack[q]] /\ rsp = [q \in Process |-> rsp[q]]
      /\ registers = [q \in Process |-> registers[q]]
      /\ \A q \in Process : IsLeft(registers[q])
  BY DEF SwitchInv
<1>8. current # p
  BY <1>7 DEF Switch!Live
<1>9. /\ stack'[p] = Parked(l) /\ rsp'[p] = Len(stack'[p]) /\ registers'[p] = l
      /\ \A q \in Process \ {p} : /\ stack'[q] = stack[q] /\ rsp'[q] = rsp[q]
                                  /\ registers'[q] = registers[q]
      /\ stack' = [q \in Process |-> stack'[q]] /\ rsp' = [q \in Process |-> rsp'[q]]
      /\ registers' = [q \in Process |-> registers'[q]]
  BY <1>1, <1>2, <1>3, <1>6, <1>7
<1>10. \A q \in Process : IsLeft(registers'[q])
  BY <1>5, <1>7, <1>9
<1>11. \A q \in Process \ {current} : registers'[q] # <<>> =>
         stack'[q] = Parked(registers'[q]) /\ rsp'[q] = Len(stack'[q])
  <2> SUFFICES ASSUME NEW q \in Process \ {current}, registers'[q] # <<>>
               PROVE  stack'[q] = Parked(registers'[q]) /\ rsp'[q] = Len(stack'[q])
    OBVIOUS
  <2>1. CASE q = p
    BY <1>9, <2>1
  <2>2. CASE q # p
    BY <1>9, <2>2 DEF SwitchInv
  <2> QED
    BY <2>1, <2>2
<1>12. /\ current' = current /\ cpu' = cpu
       /\ stack'[current] = stack[current] /\ registers'[current] = registers[current]
  BY <1>1, <1>7, <1>8, <1>9
<1>13. cpu = Top(registers[current]) /\ stack[current] = Base(registers[current])
  BY DEF SwitchInv
<1> QED
  BY <1>7, <1>9, <1>10, <1>11, <1>12, <1>13 DEF SwitchInv

LEMMA Ends ==
    ASSUME SwitchInv, Switch!end_process PROVE SwitchInv'
<1>1. PICK p \in Switch!Live \ {current} :
        Switch!_change_process(p, [stack EXCEPT ![current] = <<>>], rsp[p])
  BY DEF Switch!end_process
<1>2. registers' = [registers EXCEPT ![current] = <<>>] /\ rsp' = rsp
  BY DEF Switch!end_process
<1>3. PICK stacks : stacks = [stack EXCEPT ![current] = <<>>]
  OBVIOUS
<1>4. PICK l : l = registers[p]
  OBVIOUS
<1>5. /\ current \in Process
      /\ stack = [q \in Process |-> stack[q]] /\ rsp = [q \in Process |-> rsp[q]]
      /\ registers = [q \in Process |-> registers[q]]
      /\ \A q \in Process : IsLeft(registers[q])
  BY DEF SwitchInv
<1>6. p \in Process \ {current} /\ l # <<>> /\ IsLeft(l)
  BY <1>1, <1>4, <1>5 DEF Switch!Live
<1>7. stack[p] = Parked(l) /\ rsp[p] = Len(stack[p])
  BY <1>4, <1>6 DEF SwitchInv
<1>8. /\ stacks = [q \in Process |-> stacks[q]]
      /\ \A q \in Process \ {current} : stacks[q] = stack[q]
  BY <1>3, <1>5
<1>9. stacks[p] = Parked(l) /\ rsp[p] = Len(stacks[p])
  BY <1>6, <1>7, <1>8
<1>10. PICK sp : sp = rsp[p]
  OBVIOUS
<1>11. Switch!_change_process(p, stacks, sp) /\ sp = Len(stacks[p])
  BY <1>1, <1>3, <1>9, <1>10, Zenon
<1>12. /\ current' = p /\ cpu' = Top(l)
       /\ stack' = [q \in Process |-> IF q = p THEN Base(l) ELSE stacks[q]]
  BY <1>6, <1>8, <1>9, <1>11, Changes
<1>13. /\ stack'[p] = Base(l) /\ registers'[p] = l /\ registers'[current] = <<>>
       /\ \A q \in Process \ {current, p} : stack'[q] = stack[q] /\ registers'[q] = registers[q]
       /\ \A q \in Process \ {current} : registers'[q] = registers[q]
       /\ stack' = [q \in Process |-> stack'[q]]
       /\ registers' = [q \in Process |-> registers'[q]]
  BY <1>2, <1>4, <1>5, <1>6, <1>8, <1>12
<1>14. \A q \in Process : IsLeft(registers'[q])
  <2>1. IsLeft(<<>>)
    BY DEF IsLeft
  <2> QED
    BY <1>5, <1>13, <2>1
<1>15. \A q \in Process \ {p} : registers'[q] # <<>> =>
         stack'[q] = Parked(registers'[q]) /\ rsp'[q] = Len(stack'[q])
  <2> SUFFICES ASSUME NEW q \in Process \ {p}, registers'[q] # <<>>
               PROVE  stack'[q] = Parked(registers'[q]) /\ rsp'[q] = Len(stack'[q])
    OBVIOUS
  <2>1. q \in Process \ {current, p}
    BY <1>13
  <2> QED
    BY <1>2, <1>13, <2>1 DEF SwitchInv
<1> QED
  BY <1>2, <1>5, <1>6, <1>12, <1>13, <1>14, <1>15 DEF SwitchInv

LEMMA SwitchInvariant ==
    ASSUME InitIsAProcess
    PROVE  (Switch!Init => SwitchInv) /\ (SwitchInv /\ [Switch!Next]_(Switch!vars) => SwitchInv')
<1>1. ASSUME Switch!Init PROVE SwitchInv
  <2>1. PICK f, l : f = Switch!Filled(0) /\ l = <<f>>
    OBVIOUS
  <2>2. IsFile(f) /\ IsLeft(l) /\ l # <<>> /\ Top(l) = f /\ Base(l) = <<>>
    BY <2>1, FilledIsFile, One
  <2>3. Switch!fill_stack(0) = Parked(l)
    BY <2>1, <2>2, FilledIsParked DEF Parked
  <2>4. cpu = f
    <3>1. Switch!Popped(Switch!fill_stack(0), Switch!popState \o Switch!iretq) = f
      BY <2>2, <2>3, SavedWhole
    <3> QED
      BY <1>1, <3>1, Zenon DEF Switch!Init
  <2>5. /\ current = 0 /\ stack = [p \in Process |-> <<>>]
        /\ rsp = [p \in Process |-> IF p = 0 THEN Len(Switch!StackFrame) ELSE 0]
        /\ registers = [p \in Process |-> IF p = 0 THEN l ELSE <<>>]
    BY <1>1, <2>1, Zenon DEF Switch!Init
  <2>6. IsLeft(<<>>)
    BY DEF IsLeft
  <2>7. registers[current] = l /\ \A p \in Process \ {current} : registers[p] = <<>>
    BY <2>5 DEF InitIsAProcess
  <2> QED
    BY <2>2, <2>4, <2>5, <2>6, <2>7 DEF SwitchInv, InitIsAProcess
<1>2. ASSUME SwitchInv, [Switch!Next]_(Switch!vars) PROVE SwitchInv'
  <2>1. CASE Switch!Computes
    <3>1. PICK n \in 0 .. 1 :
            cpu' = Switch!Computed(current, IF Switch!InCall THEN "kernel" ELSE "user", n, cpu["eflags"])
      BY <2>1 DEF Switch!Computes
    <3>2. PICK f : f = cpu'
      OBVIOUS
    <3>3. IsFile(f)
      <4>1. PICK T, who, i, p : /\ T = Switch!Register /\ i = cpu["eflags"] /\ p = current
                                /\ who = (IF Switch!InCall THEN "kernel" ELSE "user")
        OBVIOUS
      <4>2. f = [r \in T |-> IF r = "eflags" THEN i ELSE <<p, who, n, r>>]
        BY <3>1, <3>2, <4>1, Zenon DEF Switch!Computed
      <4> QED
        BY <4>1, <4>2 DEF IsFile
    <3> QED
      BY <1>2, <2>1, <3>2, <3>3, ComputesOn DEF Switch!Computes
  <2>2. CASE Switch!_sti
    <3>1. IsFile(cpu)
      BY <1>2, Runs
    <3>2. PICK f : f = cpu'
      OBVIOUS
    <3>3. f = [cpu EXCEPT !["eflags"] = Switch!On]
      BY <2>2, <3>2 DEF Switch!_sti
    <3>4. IsFile(f)
      BY <3>1, <3>3 DEF IsFile
    <3> QED
      BY <1>2, <2>2, <3>2, <3>4, ComputesOn DEF Switch!_sti
  <2>3. CASE Switch!_syscallHandler
    BY <1>2, <2>3, Calls
  <2>4. CASE Switch!SyscallReturns
    BY <1>2, <2>4, Returns
  <2>5. CASE Switch!_irq00Handler
    <3>1. PICK p \in Switch!Live : Switch!next_process(p, Switch!Entered(Switch!pushState))
      BY <2>5 DEF Switch!_irq00Handler
    <3>2. p \in Process /\ registers[p] # <<>> /\ registers' = registers
      BY <2>5 DEF Switch!Live, Switch!_irq00Handler
    <3> QED
      BY <1>2, <3>1, <3>2, Gone
  <2>6. CASE Switch!_yield_process
    <3>1. PICK p \in Switch!Live : Switch!next_process(p, Switch!Entered(Switch!pushState))
      BY <2>6 DEF Switch!_yield_process
    <3>2. p \in Process /\ registers[p] # <<>> /\ registers' = registers
      BY <2>6 DEF Switch!Live, Switch!_yield_process
    <3> QED
      BY <1>2, <3>1, <3>2, Gone
  <2>7. CASE Switch!_irq01Handler
    BY <1>2, <2>7, Interrupted
  <2>8. CASE Switch!create_process
    BY <1>2, <2>8, Creates
  <2>9. CASE Switch!end_process
    BY <1>2, <2>9, Ends
  <2>10. CASE UNCHANGED Switch!vars
    BY <1>2, <2>10 DEF Switch!vars, SwitchInv
  <2>11. CASE Switch!ComputesWithFloats
    BY <1>2, <2>11 DEF Switch!ComputesWithFloats, SwitchInv
  <2> QED
    BY <1>2, <2>1, <2>2, <2>3, <2>4, <2>5, <2>6, <2>7, <2>8, <2>9, <2>10, <2>11 DEF Switch!Next
<1> QED
  BY <1>1, <1>2

(* What was last computed with floats is still there.                      *)
FloatsInv == \A p \in DOMAIN floats : xmm = floats[p]

LEMMA FloatsInvariant ==
    /\ Switch!Init => FloatsInv
    /\ FloatsInv /\ [Switch!Next]_(Switch!vars) => FloatsInv'
<1>1. ASSUME Switch!Init PROVE FloatsInv
  <2>1. DOMAIN floats = {}
    BY <1>1 DEF Switch!Init
  <2> QED
    BY <2>1 DEF FloatsInv
<1>2. ASSUME FloatsInv, [Switch!Next]_(Switch!vars) PROVE FloatsInv'
  <2>1. CASE Switch!ComputesWithFloats
    BY <2>1 DEF Switch!ComputesWithFloats, FloatsInv
  <2>2. CASE Switch!end_process
    BY <1>2, <2>2 DEF Switch!end_process, FloatsInv
  <2>3. ASSUME ~Switch!ComputesWithFloats, ~Switch!end_process PROVE UNCHANGED Switch!ssevars
    BY <1>2, <2>3 DEF Switch!Next, Switch!vars, Switch!Computes, Switch!_sti, Switch!_syscallHandler,
          Switch!SyscallReturns, Switch!_irq00Handler, Switch!_yield_process, Switch!_irq01Handler,
          Switch!create_process
  <2> QED
    BY <1>2, <2>1, <2>2, <2>3 DEF Switch!ssevars, FloatsInv
<1> QED
  BY <1>1, <1>2

(* Context switch: whoever has the processor finds in the registers of its *)
(* frame what it left there, or what a new process starts with, with the   *)
(* result of its call, and in the SSE registers, which no stub saves, what *)
(* it left there if nobody has computed with floats since:                 *)
(* interrupts.asm, fill_stack, next_process.                               *)
THEOREM RegistersAreRestored ==
    ASSUME InitIsAProcess
    PROVE  Switch!Spec => []RegistersSurvive
<1>1. SwitchInv /\ FloatsInv => RegistersSurvive
  BY DEF SwitchInv, FloatsInv, Top, RegistersSurvive, Switch!RegistersSurvive, Switch!Has
<1> QED
  BY <1>1, SwitchInvariant, FloatsInvariant, PTL DEF Switch!Spec

-----------------------------------------------------------------------------
(* The shell. *)

(* The characters that are typed, and those of a line without tabs.        *)
Typed == Shell!Other \cup {Space, Shell!Tab}
Plain == Typed \ {Shell!Tab}

(* No end of a line is a character of one.                                 *)
CharactersDiffer ==
    /\ Shell!Newline # Shell!Nul
    /\ Shell!Newline \notin Typed /\ Shell!Nul \notin Typed /\ Shell!Backspace \notin Typed
    /\ Shell!Newline # Shell!Backspace
    /\ Space \in Plain /\ Shell!Mark # Space
    /\ \A c \in Shell!Other \cup {Space, Shell!Tab, Shell!Backspace, Shell!Newline} :
         c = Shell!Backspace \/ c = Shell!Newline \/ c \in Typed
    /\ \A c \in Plain : Shell!isspace(c) <=> c = Space

(* So it is with these characters.                                         *)
LEMMA Characters ==
    CharactersDiffer
BY DEF CharactersDiffer, Typed, Plain, Shell!Other, Shell!Tab, Shell!Mark, Shell!Backspace,
       Shell!Newline, Shell!Nul, Shell!isspace, Shell!Space, Space

(* The shell cuts lines as the lemmas on lines have it.                    *)
SameLines ==
    /\ Shell!Space = Space
    /\ \A s : /\ Shell!Strings(s) = Strings(s)
              /\ Shell!Words(s) = Words(s)

(* The module of the shell has the same operators.                         *)
LEMMA ShellLines ==
    SameLines
<1>1. \A w, c : Shell!Extended(w, c) = Extended(w, c)
  BY DEF Shell!Extended, Extended
<1>2. Shell!Space = Space
  BY DEF Shell!Space, Space
<1>3. \A s : Shell!Split(s) = Split(s)
  BY DEF Shell!Split, Split, Shell!Extended, Extended, Shell!Space, Space
<1>4. \A s : Shell!Words(s) = Words(s)
  BY DEF Shell!Words, Words, Shell!Extended, Extended, Shell!Space, Space
<1>5. \A s : Shell!Strings(s) = Strings(s)
  BY <1>3 DEF Shell!Strings, Strings
<1> QED
  BY <1>2, <1>4, <1>5 DEF SameLines

(* A line up to the first of its characters that is c.                     *)
IsUpTo(u, s, c) ==
    \E k \in 0 .. Len(s) :
        /\ u = SubSeq(s, 1, k)
        /\ \A i \in 1 .. k : s[i] # c
        /\ k = Len(s) \/ s[k + 1] = c

(* So it is cut.                                                           *)
LEMMA UpToIs ==
    ASSUME NEW C, NEW s \in Seq(C), NEW c
    PROVE  IsUpTo(Shell!UpTo(s, c), s, c)
<1>1. PICK n \in Nat : n = Len(s) /\ DOMAIN s = 1 .. n
  BY LenProperties
<1> DEFINE T == {i - 1 : i \in {j \in DOMAIN s : s[j] = c}} \cup {n}
<1>2. T \in SUBSET Nat /\ T # {} /\ T \subseteq 0 .. n
  <2>1. \A i \in 1 .. n : i - 1 \in 0 .. n
    OBVIOUS
  <2>2. n \in 0 .. n
    OBVIOUS
  <2>3. 0 .. n \subseteq Nat
    OBVIOUS
  <2> QED
    BY <1>1, <2>1, <2>2, <2>3
<1>3. PICK k : k = Shell!Min(T)
  OBVIOUS
<1>4. k \in T /\ \A m \in T : k <= m
  <2>1. \E m \in T : \A p \in T : m <= p
    <3> HIDE DEF T
    <3> QED
      BY <1>2, SmallestOf
  <2> HIDE DEF T
  <2> QED
    BY <1>3, <2>1 DEF Shell!Min
<1>5. k \in 0 .. n
  BY <1>2, <1>4
<1>6. Shell!UpTo(s, c) = SubSeq(s, 1, k)
  BY <1>1, <1>3 DEF Shell!UpTo
<1>7. \A i \in 1 .. k : s[i] # c
  <2> TAKE i \in 1 .. k
  <2>1. i \in 1 .. n /\ i - 1 \in Int /\ ~(k <= i - 1)
    BY <1>5
  <2> QED
    BY <1>1, <1>4, <2>1
<1>8. k = n \/ s[k + 1] = c
  <2>1. \A j \in 1 .. n : (j - 1) + 1 = j
    OBVIOUS
  <2> QED
    BY <1>1, <1>4, <2>1
<1> QED
  BY <1>1, <1>5, <1>6, <1>7, <1>8 DEF IsUpTo

(* What readline_no_spaces has kept: no space first, no two together.      *)
Tidy(s) ==
    /\ s # <<>> => s[1] # Space
    /\ \A i \in 1 .. Len(s) - 1 : s[i] = Space => s[i + 1] # Space

Spaced(s) == s # <<>> /\ s[Len(s)] = Space

(* s is kept of what has come, p: the pieces of s are the words of p.      *)
IsKept(p, s, C) ==
    /\ p \in Seq(C) /\ s \in Seq(C) /\ Tidy(s)
    /\ s = <<>> => Words(p) = <<>> /\ (p = <<>> \/ Spaced(p))
    /\ s # <<>> =>
         /\ p # <<>> /\ (Spaced(s) <=> Spaced(p))
         /\ Split(s) = IF Spaced(s) THEN Append(Words(p), <<>>) ELSE Words(p)

(* A character more, of a line of any.                                     *)
Grown(t, c, C) == t \in Seq(C) /\ t # <<>> /\ (Spaced(t) <=> c = Space)

(* A line that grows ends in what was added.                               *)
LEMMA Grows ==
    ASSUME NEW C, NEW s \in Seq(C), NEW c \in C
    PROVE  Grown(Append(s, c), c, C)
<1> DEFINE t == Append(s, c)
<1>1. t \in Seq(C) /\ Len(t) = Len(s) + 1 /\ t[Len(s) + 1] = c
  BY AppendProperties
<1>2. t # <<>>
  BY AppendProperties
<1> QED
  BY <1>1, <1>2 DEF Spaced, Grown

(* Nothing that is kept makes it untidy.                                   *)
LEMMA TidyGrows ==
    ASSUME NEW C, NEW s \in Seq(C), Tidy(s), NEW c \in C, NEW t, t = Append(s, c),
           c = Space => s # <<>> /\ ~Spaced(s)
    PROVE  Tidy(t)
<1>1. PICK n \in Nat : n = Len(s)
  BY LenProperties
<1>2. t \in Seq(C) /\ Len(t) = n + 1 /\ t[n + 1] = c /\ \A i \in 1 .. n : t[i] = s[i]
  BY <1>1, AppendProperties
<1>3. s = <<>> <=> n = 0
  BY <1>1, EmptySeq
<1>4. t[1] # Space
  <2>1. CASE n = 0
    BY <1>2, <1>3, <2>1
  <2>2. CASE n # 0
    <3>1. 1 \in 1 .. n
      BY <2>2
    <3> QED
      BY <1>2, <1>3, <2>2, <3>1 DEF Tidy
  <2> QED
    BY <2>1, <2>2
<1>5. ASSUME NEW i \in 1 .. Len(t) - 1, t[i] = Space
      PROVE  t[i + 1] # Space
  <2>1. i \in 1 .. n /\ s[i] = Space /\ n # 0
    BY <1>2, <1>5
  <2>2. CASE i = n
    BY <1>1, <1>2, <1>3, <2>1, <2>2 DEF Spaced
  <2>3. CASE i # n
    <3>1. i \in 1 .. n - 1 /\ i + 1 \in 1 .. n
      BY <2>1, <2>3
    <3>2. s[i + 1] # Space
      BY <1>1, <2>1, <3>1 DEF Tidy
    <3> QED
      BY <1>2, <3>1, <3>2
  <2> QED
    BY <2>2, <2>3
<1> QED
  BY <1>4, <1>5 DEF Tidy

(* The words of what has come, after a character more.                     *)
WordsGrow(p, q, c) ==
    /\ c = Space => Words(q) = Words(p)
    /\ c # Space /\ (p = <<>> \/ Spaced(p)) => Words(q) = Append(Words(p), <<c>>)
    /\ c # Space /\ p # <<>> /\ ~Spaced(p) => Words(q) = Extended(Words(p), c)

(* Words of a line are read off it from the left.                          *)
LEMMA WordsOfMore ==
    ASSUME NEW C, NEW p \in Seq(C), NEW c \in C, NEW q, q = Append(p, c)
    PROVE  WordsGrow(p, q, c) /\ Words(p) \in Seq(Seq(C))
<1>2. /\ Words(p) \in Seq(Seq(C))
      /\ c = Space => Words(Append(p, c)) = Words(p)
      /\ c # Space /\ (p = <<>> \/ p[Len(p)] = Space) =>
            Words(Append(p, c)) = Append(Words(p), <<c>>)
      /\ c # Space /\ p # <<>> /\ p[Len(p)] # Space =>
            Words(Append(p, c)) = Extended(Words(p), c)
  BY WordsSteps
<1>3. WordsGrow(p, q, c)
  BY <1>2, Zenon DEF WordsGrow, Spaced
<1> QED
  BY <1>2, <1>3

(* A list and one of its elements more.                                    *)
LEMMA OneMore ==
    ASSUME NEW C, NEW w \in Seq(Seq(C)), NEW c \in C
    PROVE  /\ Append(<<>>, <<c>>) = <<<<c>>>>
           /\ Extended(Append(w, <<>>), c) = Append(w, <<c>>)
<1>1. PICK S : S = Seq(C)
  OBVIOUS
<1>2. <<>> \in Seq(C) /\ <<>> \in S
  BY <1>1, EmptySeq
<1>3. PICK e \in S, r \in S : e = <<>> /\ r = <<c>>
  BY <1>1, <1>2, OneOf
<1>4. Append(e, c) = r
  BY <1>3
<1>5. w \in Seq(S) /\ e \in Seq(C)
  BY <1>1
<1>6. Append(w, e) = w \o <<e>> /\ Append(w, r) = w \o <<r>>
  BY <1>5, AppendIsConcat
<1>7. Extended(w \o <<e>>, c) = w \o <<Append(e, c)>>
  BY <1>5, ExtendedIs
<1>8. Extended(Append(w, e), c) = Append(w, r)
  BY <1>4, <1>6, <1>7, Zenon
<1>9. Append(<<>>, <<c>>) = <<<<c>>>>
  OBVIOUS
<1> QED
  BY <1>3, <1>8, <1>9, Zenon

(* A character comes: what is kept of what has come.                       *)
LEMMA KeepsOn ==
    ASSUME NEW C, Space \in C, NEW p, NEW s, IsKept(p, s, C), NEW c \in C,
           NEW q, q = Append(p, c),
           NEW t, t = IF c = Space /\ (s = <<>> \/ Spaced(s)) THEN s ELSE Append(s, c)
    PROVE  IsKept(q, t, C)
<1>1. /\ p \in Seq(C) /\ s \in Seq(C) /\ Tidy(s)
      /\ s = <<>> => Words(p) = <<>> /\ (p = <<>> \/ Spaced(p))
      /\ s # <<>> =>
           /\ p # <<>> /\ (Spaced(s) <=> Spaced(p))
           /\ Split(s) = IF Spaced(s) THEN Append(Words(p), <<>>) ELSE Words(p)
  BY DEF IsKept
<1>2. q \in Seq(C) /\ q # <<>> /\ (Spaced(q) <=> c = Space)
  <2>1. p \in Seq(C)
    BY <1>1
  <2>2. Grown(q, c, C)
    BY <2>1, Grows, Zenon
  <2> QED
    BY <2>2, Zenon DEF Grown
<1>3. WordsGrow(p, q, c) /\ Words(p) \in Seq(Seq(C))
  BY <1>1, WordsOfMore
<1>4. CASE c = Space /\ (s = <<>> \/ Spaced(s))
  <2>1. t = s /\ Words(q) = Words(p) /\ Spaced(q)
    BY <1>2, <1>3, <1>4 DEF WordsGrow
  <2>2. s # <<>> => Split(s) = Append(Words(q), <<>>)
    BY <1>1, <1>4, <2>1, Zenon
  <2> QED
    BY <1>1, <1>2, <1>4, <2>1, <2>2, Zenon DEF IsKept
<1>5. CASE ~(c = Space /\ (s = <<>> \/ Spaced(s)))
  <2>1. t = Append(s, c) /\ (c = Space => s # <<>> /\ ~Spaced(s))
    BY <1>5, Zenon
  <2>2. t \in Seq(C) /\ t # <<>> /\ (Spaced(t) <=> c = Space)
    <3>1. Grown(t, c, C)
      BY <1>1, <2>1, Grows, Zenon
    <3> QED
      BY <3>1, Zenon DEF Grown
  <2>3. Tidy(t)
    BY <1>1, <2>1, TidyGrows
  <2>4. Split(t) = IF c = Space THEN Append(Split(s), <<>>) ELSE Extended(Split(s), c)
    BY <1>1, <2>1, SplitSteps
  <2>5. ASSUME Split(t) = IF Spaced(t) THEN Append(Words(q), <<>>) ELSE Words(q)
        PROVE  IsKept(q, t, C)
    BY <1>2, <2>2, <2>3, <2>5, Zenon DEF IsKept
  <2>6. CASE c = Space
    <3>1. Words(q) = Words(p) /\ Split(s) = Words(p)
      BY <1>1, <1>3, <2>1, <2>6, Zenon DEF WordsGrow
    <3> QED
      BY <2>2, <2>4, <2>5, <2>6, <3>1, Zenon
  <2>7. CASE c # Space /\ s = <<>>
    <3>1. Words(q) = Append(Words(p), <<c>>) /\ Words(p) = <<>>
      BY <1>1, <1>3, <2>7, Zenon DEF WordsGrow
    <3>2. Words(q) = <<<<c>>>>
      BY <1>3, <3>1, OneMore, Zenon
    <3>3. Split(t) = <<t>> /\ t = <<c>>
      <4>1. t = <<c>> /\ Len(t) = 1 /\ t[1] = c
        BY <2>1, <2>7
      <4>2. \A i \in 1 .. Len(t) : t[i] # Space
        BY <2>7, <4>1
      <4> QED
        BY <2>2, <4>1, <4>2, SplitWhole
    <3> QED
      BY <2>2, <2>5, <2>7, <3>2, <3>3, Zenon
  <2>8. CASE c # Space /\ s # <<>> /\ Spaced(s)
    <3>1. Words(q) = Append(Words(p), <<c>>) /\ Split(s) = Append(Words(p), <<>>)
      BY <1>1, <1>3, <2>8, Zenon DEF WordsGrow
    <3>2. Extended(Append(Words(p), <<>>), c) = Append(Words(p), <<c>>)
      BY <1>3, OneMore, Zenon
    <3> QED
      BY <2>2, <2>4, <2>5, <2>8, <3>1, <3>2, Zenon
  <2>9. CASE c # Space /\ s # <<>> /\ ~Spaced(s)
    <3>1. Words(q) = Extended(Words(p), c) /\ Split(s) = Words(p)
      BY <1>1, <1>3, <2>9, Zenon DEF WordsGrow
    <3> QED
      BY <2>2, <2>4, <2>5, <2>9, <3>1, Zenon
  <2> QED
    BY <2>6, <2>7, <2>8, <2>9
<1> QED
  BY <1>4, <1>5

(* Nothing is kept of nothing.                                             *)
LEMMA KeptOfNothing ==
    ASSUME NEW C
    PROVE  IsKept(<<>>, <<>>, C)
<1>1. PICK e \in Seq(C) : e = <<>> /\ Len(e) = 0
  BY EmptySeq
<1>2. Tidy(e)
  BY <1>1 DEF Tidy
<1>3. Words(e) = e
  BY <1>1, WordsEmpty
<1> QED
  BY <1>1, <1>2, <1>3, Zenon DEF IsKept

(* A line with words in it, without a space at its end: its pieces are the *)
(* words.                                                                  *)
IsLine(u, p, C) ==
    /\ u \in Seq(C) /\ u # <<>> /\ Tidy(u) /\ u[Len(u)] # Space
    /\ Split(u) = Words(p)

(* Such a line is what is kept, trimmed.                                   *)
LEMMA WithoutTheLast ==
    ASSUME NEW C, NEW p, NEW s, IsKept(p, s, C), Words(p) # <<>>,
           NEW u, u = IF Spaced(s) THEN SubSeq(s, 1, Len(s) - 1) ELSE s
    PROVE  IsLine(u, p, C)
<1>1. /\ p \in Seq(C) /\ s \in Seq(C) /\ Tidy(s) /\ s # <<>>
      /\ Split(s) = IF Spaced(s) THEN Append(Words(p), <<>>) ELSE Words(p)
  BY DEF IsKept
<1>2. CASE ~Spaced(s)
  BY <1>1, <1>2 DEF IsLine, Spaced
<1>3. CASE Spaced(s)
  <2>1. PICK r \in Seq(C), d \in C : EndsIn(s, r, d)
    BY <1>1, LastOff
  <2>2. /\ s = Append(r, d) /\ Len(s) = Len(r) + 1 /\ Len(r) \in Nat /\ s[Len(s)] = d
        /\ SubSeq(s, 1, Len(s) - 1) = r /\ \A i \in 1 .. Len(r) : s[i] = r[i]
    BY <2>1 DEF EndsIn
  <2>3. u = r /\ d = Space
    BY <1>3, <2>2 DEF Spaced
  <2>4. PICK n \in Nat : n = Len(r)
    BY <2>2
  <2>5. r # <<>>
    <3>1. ASSUME r = <<>> PROVE FALSE
      <4>1. Len(s) = 1
        BY <2>2, <3>1
      <4> QED
        BY <1>1, <2>2, <2>3, <4>1 DEF Tidy
    <3> QED
      BY <3>1
  <2>6. n # 0 /\ n \in 1 .. n /\ 1 \in 1 .. n
    BY <2>4, <2>5, EmptySeq
  <2>7. Tidy(r)
    <3>1. r[1] # Space
      BY <1>1, <2>2, <2>4, <2>6 DEF Tidy
    <3>2. ASSUME NEW i \in 1 .. n - 1, r[i] = Space PROVE r[i + 1] # Space
      <4>1. i \in 1 .. n /\ i + 1 \in 1 .. n /\ i \in 1 .. Len(s) - 1
        BY <2>2, <2>4
      <4>2. s[i] = Space
        BY <2>2, <2>4, <3>2, <4>1
      <4>3. s[i + 1] # Space
        BY <1>1, <4>1, <4>2 DEF Tidy
      <4> QED
        BY <2>2, <2>4, <4>1, <4>3
    <3> QED
      BY <2>4, <3>1, <3>2 DEF Tidy
  <2>8. r[n] # Space
    <3>1. n \in 1 .. Len(s) - 1 /\ s[n + 1] = Space
      <4>1. Len(s) = n + 1 /\ Len(s) - 1 = n
        BY <2>2, <2>4
      <4> QED
        BY <2>2, <2>3, <2>6, <4>1
    <3>2. s[n] # Space
      BY <1>1, <3>1 DEF Tidy
    <3> QED
      BY <2>2, <2>4, <2>6, <3>2
  <2>9. Split(r) = Words(p)
    <3>1. PICK S : S = Seq(C)
      OBVIOUS
    <3>2. Split(r) \in Seq(S) /\ Words(p) \in Seq(S) /\ <<>> \in S
      <4>1. Split(r) \in Seq(Seq(C))
        BY SplitSteps DEF SomePieces
      <4>2. Words(p) \in Seq(Seq(C))
        BY <1>1, WordsSteps
      <4>3. <<>> \in Seq(C)
        BY EmptySeq
      <4> QED
        BY <3>1, <4>1, <4>2, <4>3
    <3>3. Append(Split(r), <<>>) = Append(Words(p), <<>>)
      <4>1. Split(s) = Append(Split(r), <<>>)
        <5>1. Space \in C
          BY <2>3
        <5>2. Split(Append(r, Space)) = Append(Split(r), <<>>)
          BY <5>1, SplitSteps
        <5> QED
          BY <2>2, <2>3, <5>2
      <4> QED
        BY <1>1, <1>3, <4>1, Zenon
    <3> QED
      BY <3>2, <3>3, SameEnd
  <2> QED
    BY <2>3, <2>4, <2>5, <2>7, <2>8, <2>9 DEF IsLine
<1> QED
  BY <1>2, <1>3

(* A list that starts with x and ends with e.                              *)
EndsOf(w, x, a, e) ==
    /\ Head(w) = x /\ Len(w) \in Nat /\ Len(w) > 1 /\ Shell!Last(w) = e
    /\ Tail(w) = a \o <<e>> /\ Tail(Shell!Front(w)) = a

(* What its ends are.                                                      *)
LEMMA TheEnds ==
    ASSUME NEW S, NEW x \in S, NEW a \in Seq(S), NEW e \in S, NEW w,
           w = <<x>> \o (a \o <<e>>)
    PROVE  EndsOf(w, x, a, e)
<1>1. PICK n \in Nat : n = Len(a)
  BY LenProperties
<1>2. PICK b : b = a \o <<e>>
  OBVIOUS
<1>3. /\ b \in Seq(S) /\ Len(b) = n + 1 /\ b[n + 1] = e
      /\ \A i \in 1 .. n : b[i] = a[i]
  <2>1. b = Append(a, e)
    BY <1>2, AppendIsConcat
  <2> QED
    BY <1>1, <2>1, AppendProperties
<1>4. PICK o \in Seq(S) : o = <<x>> /\ Len(o) = 1 /\ o[1] = x
  BY OneOf
<1>5. /\ w \in Seq(S) /\ Len(w) = n + 2 /\ w[1] = x
      /\ \A i \in 1 .. n + 1 : w[i + 1] = b[i]
  <2>1. Concatenation(w, o, b, S)
    BY <1>2, <1>3, <1>4, Concatenated
  <2>2. /\ w \in Seq(S) /\ Len(w) = Len(o) + Len(b)
        /\ \A i \in 1 .. Len(o) + Len(b) : w[i] = IF i <= Len(o) THEN o[i] ELSE b[i - Len(o)]
    BY <2>1 DEF Concatenation
  <2>3. Len(o) = 1 /\ Len(b) = n + 1 /\ Len(o) + Len(b) = n + 2
    BY <1>3, <1>4
  <2>4. w[1] = x
    <3>1. 1 \in 1 .. n + 2
      OBVIOUS
    <3> QED
      BY <1>4, <2>2, <2>3, <3>1
  <2>5. ASSUME NEW i \in 1 .. n + 1 PROVE w[i + 1] = b[i]
    <3>1. i + 1 \in 1 .. n + 2 /\ ~(i + 1 <= 1) /\ (i + 1) - 1 = i
      OBVIOUS
    <3> QED
      BY <2>2, <2>3, <3>1
  <2> QED
    BY <2>2, <2>3, <2>4, <2>5
<1>6. w # <<>>
  BY <1>5, EmptySeq
<1>7. Head(w) = x
  <2>1. Head(w) = w[1]
    BY <1>5, <1>6
  <2> QED
    BY <1>5, <2>1
<1>8. Tail(w) = b
  <2>1. PICK t : t = Tail(w)
    OBVIOUS
  <2>2. t \in Seq(S) /\ Len(t) = n + 1 /\ \A i \in 1 .. n + 1 : t[i] = w[i + 1]
    <3>1. /\ Tail(w) \in Seq(S) /\ Len(Tail(w)) = Len(w) - 1
          /\ \A i \in 1 .. Len(Tail(w)) : Tail(w)[i] = w[i + 1]
      BY <1>5, <1>6, HeadTailProperties
    <3>2. Len(w) - 1 = n + 1
      BY <1>5
    <3> QED
      BY <2>1, <3>1, <3>2
  <2>3. \A i \in 1 .. Len(t) : t[i] = b[i]
    BY <1>5, <2>2
  <2> QED
    BY <1>3, <2>1, <2>2, <2>3, SeqEqual
<1>9. Shell!Last(w) = e
  <2>1. n + 1 \in 1 .. n + 1 /\ (n + 1) + 1 = n + 2
    OBVIOUS
  <2> QED
    BY <1>3, <1>5, <2>1 DEF Shell!Last
<1>10. Tail(Shell!Front(w)) = a
  <2>1. PICK f : f = SubSeq(w, 1, n + 1)
    OBVIOUS
  <2>2. Shell!Front(w) = f
    <3>1. Len(w) - 1 = n + 1
      BY <1>5
    <3> QED
      BY <2>1, <3>1 DEF Shell!Front
  <2>3. f \in Seq(S) /\ Len(f) = n + 1 /\ \A i \in 1 .. n + 1 : f[i] = w[i]
    <3>1. n + 1 \in Nat /\ n + 1 <= Len(w)
      BY <1>5
    <3> QED
      BY <1>5, <2>1, <3>1, TakeFirst
  <2>4. f # <<>>
    BY <2>3, EmptySeq
  <2>5. PICK t : t = Tail(f)
    OBVIOUS
  <2>6. t \in Seq(S) /\ Len(t) = n /\ \A i \in 1 .. n : t[i] = f[i + 1]
    <3>1. /\ Tail(f) \in Seq(S) /\ Len(Tail(f)) = Len(f) - 1
          /\ \A i \in 1 .. Len(Tail(f)) : Tail(f)[i] = f[i + 1]
      BY <2>3, <2>4, HeadTailProperties
    <3>2. Len(f) - 1 = n
      BY <2>3
    <3> QED
      BY <2>5, <3>1, <3>2
  <2>7. \A i \in 1 .. Len(t) : t[i] = a[i]
    <3> TAKE i \in 1 .. Len(t)
    <3>1. i \in 1 .. n /\ i + 1 \in 1 .. n + 1 /\ i \in 1 .. n + 1
      BY <2>6
    <3> QED
      BY <1>3, <1>5, <2>3, <2>6, <3>1
  <2>8. t = a
    BY <1>1, <2>6, <2>7, SeqEqual
  <2> QED
    BY <2>2, <2>5, <2>8
<1> QED
  <2>1. n + 2 \in Nat /\ n + 2 > 1
    OBVIOUS
  <2> QED
    BY <1>2, <1>5, <1>7, <1>8, <1>9, <1>10, <2>1 DEF EndsOf

(* The rest of a line, from the space after the name on: v is what follows *)
(* that space.                                                             *)
IsRest(rest, v, m, C) ==
    /\ rest \in Seq(C) /\ Len(rest) = m + 1 /\ m \in Nat /\ m = Len(v) /\ m >= 1
    /\ rest # <<>> /\ rest[1] = Space
    /\ \A i \in 1 .. m : rest[i + 1] = v[i]

(* The rest is what it should be.                                          *)
LEMMA RestIs ==
    ASSUME NEW C, NEW s \in Seq(C), NEW k \in Nat, k < Len(s), s[k + 1] = Space,
           NEW v \in Seq(C), Len(v) = Len(s) - k - 1, v # <<>>,
           \A i \in 1 .. Len(v) : v[i] = s[k + 1 + i],
           NEW m, m = Len(v), NEW rest, rest = SubSeq(s, k + 1, Len(s))
    PROVE  IsRest(rest, v, m, C)
<1>1. PICK n \in Nat : n = Len(s)
  BY LenProperties
<1>2. m \in Nat /\ m # 0 /\ m = n - k - 1
  BY <1>1, LenProperties, EmptySeq
<1>3. /\ rest \in Seq(C) /\ DOMAIN rest = 1 .. n - k /\ Len(rest) = n - k
      /\ \A i \in DOMAIN rest : rest[i] = s[k + i]
  <2>1. k <= Len(s) + 1 /\ k <= Len(s)
    BY <1>1
  <2> QED
    BY <1>1, <2>1, DropFirst
<1>4. rest[1] = Space /\ rest # <<>>
  <2>1. 1 \in 1 .. n - k /\ n - k # 0
    BY <1>1, <1>2
  <2> QED
    BY <1>3, <2>1, EmptySeq
<1>5. \A i \in 1 .. m : rest[i + 1] = v[i]
  <2> TAKE i \in 1 .. m
  <2>1. i + 1 \in 1 .. n - k /\ k + (i + 1) = k + 1 + i
    BY <1>2
  <2> QED
    BY <1>3, <2>1
<1>6. n - k = m + 1 /\ m >= 1
  BY <1>1, <1>2
<1> QED
  BY <1>2, <1>3, <1>4, <1>5, <1>6 DEF IsRest

(* What the shell makes of the words of a line.                            *)
Asked(w) ==
    LET mark == Len(w) > 1 /\ Shell!Last(w) = <<Shell!Mark>>
    IN  [name |-> Head(w),
         args |-> IF mark THEN Tail(Shell!Front(w)) ELSE Tail(w),
         foreground |-> ~mark]

(* The background mark, at the end of the rest of a line.                  *)
MarkIs(rest, v, m) ==
    /\ Shell!IsBackground(rest) <=> v[m] = Shell!Mark /\ (m = 1 \/ v[m - 1] = Space)
    /\ SubSeq(rest, 2, Len(rest)) = v
    /\ SubSeq(Shell!WithoutMark(rest), 2, Len(Shell!WithoutMark(rest))) = SubSeq(v, 1, m - 2)

(* So it is found, and taken off.                                          *)
LEMMA MarkOfRest ==
    ASSUME NEW C, NEW v \in Seq(C), NEW m, NEW rest, IsRest(rest, v, m, C)
    PROVE  MarkIs(rest, v, m)
<1> USE DEF IsRest
<1>1. Shell!Space = Space
  BY ShellLines DEF SameLines
<1>2. Shell!Last(rest) = v[m]
  <2>1. m \in 1 .. m
    OBVIOUS
  <2> QED
    BY <2>1 DEF Shell!Last
<1>3. rest[Len(rest) - 1] = Space <=> (m = 1 \/ v[m - 1] = Space)
  <2>1. Len(rest) - 1 = m
    OBVIOUS
  <2>2. CASE m = 1
    BY <2>1, <2>2
  <2>3. CASE m # 1
    <3>1. m - 1 \in 1 .. m /\ (m - 1) + 1 = m
      BY <2>3
    <3>2. rest[m] = v[m - 1]
      BY <3>1
    <3> QED
      BY <2>1, <2>3, <3>2
  <2> QED
    BY <2>2, <2>3
<1>4. Len(rest) # 1
  OBVIOUS
<1>5. Shell!IsBackground(rest) <=> v[m] = Shell!Mark /\ (m = 1 \/ v[m - 1] = Space)
  BY <1>1, <1>2, <1>3, <1>4 DEF Shell!IsBackground
<1>6. SubSeq(rest, 2, Len(rest)) = v
  <2>1. PICK d : d = SubSeq(rest, 1 + 1, Len(rest))
    OBVIOUS
  <2>2. /\ d \in Seq(C) /\ Len(d) = Len(rest) - 1
        /\ DOMAIN d = 1 .. Len(rest) - 1
        /\ \A i \in DOMAIN d : d[i] = rest[1 + i]
    <3>1. 1 \in Nat /\ 1 <= Len(rest) + 1 /\ 1 <= Len(rest)
      OBVIOUS
    <3> QED
      BY <2>1, <3>1, DropFirst
  <2>3. Len(d) = m
    BY <2>2
  <2>4. \A i \in 1 .. m : d[i] = v[i]
    <3> TAKE i \in 1 .. m
    <3>1. i \in DOMAIN d /\ 1 + i = i + 1
      BY <2>2
    <3> QED
      BY <2>2, <3>1
  <2>5. d = v
    BY <2>2, <2>3, <2>4, SeqEqual
  <2>6. 1 + 1 = 2
    OBVIOUS
  <2> QED
    BY <2>1, <2>5, <2>6
<1>7. SubSeq(Shell!WithoutMark(rest), 2, Len(Shell!WithoutMark(rest))) = SubSeq(v, 1, m - 2)
  <2>1. PICK x : x = SubSeq(rest, 1, m - 1)
    OBVIOUS
  <2>2. Shell!WithoutMark(rest) = x
    <3>1. (m + 1) - 2 = m - 1
      OBVIOUS
    <3> QED
      BY <1>4, <2>1, <3>1 DEF Shell!WithoutMark
  <2>3. x \in Seq(C) /\ Len(x) = m - 1 /\ \A i \in 1 .. m - 1 : x[i] = rest[i]
    <3>1. m - 1 \in Nat /\ m - 1 <= Len(rest)
      OBVIOUS
    <3> QED
      BY <2>1, <3>1, TakeFirst
  <2>4. PICK d : d = SubSeq(x, 2, Len(x))
    OBVIOUS
  <2>5. PICK z : z = SubSeq(v, 1, m - 2)
    OBVIOUS
  <2>6. CASE m = 1
    <3>1. d = <<>>
      <4>1. Len(x) \in Int /\ Len(x) < 2 /\ 2 \in Int
        BY <2>3, <2>6
      <4> QED
        BY <2>4, <4>1, SubSeqEmpty
    <3>2. z = <<>>
      <4>1. m - 2 \in Int /\ m - 2 < 1 /\ 1 \in Int
        BY <2>6
      <4> QED
        BY <2>5, <4>1, SubSeqEmpty
    <3> QED
      BY <2>2, <2>4, <2>5, <3>1, <3>2
  <2>7. CASE m # 1
    <3>1. PICK l \in Nat : l = m - 2
      BY <2>7
    <3>2. d \in Seq(C) /\ Len(d) = l /\ \A i \in 1 .. l : d[i] = x[1 + i]
      <4>1. 1 \in Nat /\ 1 <= Len(x) + 1 /\ 1 <= Len(x) /\ 1 + 1 = 2
        BY <2>3, <2>7
      <4>2. d = SubSeq(x, 1 + 1, Len(x))
        BY <2>4, <4>1
      <4>3. /\ d \in Seq(C) /\ Len(d) = Len(x) - 1
            /\ DOMAIN d = 1 .. Len(x) - 1
            /\ \A i \in DOMAIN d : d[i] = x[1 + i]
        BY <2>3, <4>1, <4>2, DropFirst
      <4>4. Len(x) - 1 = l
        BY <2>3, <3>1
      <4> QED
        BY <4>3, <4>4
    <3>3. z \in Seq(C) /\ Len(z) = l /\ \A i \in 1 .. l : z[i] = v[i]
      <4>1. l <= Len(v) /\ z = SubSeq(v, 1, l)
        BY <2>5, <3>1
      <4> QED
        BY <4>1, TakeFirst
    <3>4. \A i \in 1 .. l : d[i] = z[i]
      <4> TAKE i \in 1 .. l
      <4>1. 1 + i \in 1 .. m - 1 /\ i \in 1 .. m /\ 1 + i = i + 1
        BY <3>1
      <4>2. d[i] = rest[i + 1]
        BY <2>3, <3>2, <4>1
      <4> QED
        BY <3>3, <4>1, <4>2
    <3>5. d = z
      BY <3>2, <3>3, <3>4, SeqEqual
    <3> QED
      BY <2>2, <2>4, <2>5, <3>5
  <2> QED
    BY <2>6, <2>7
<1> QED
  BY <1>5, <1>6, <1>7 DEF MarkIs

(* The shell gives a command the words of its line.                        *)
LEMMA ShellRuns ==
    ASSUME NEW C, Space \in C, NEW p, NEW s, IsLine(s, p, C),
           NEW w, w = Words(p), Head(w) \in CommandName, Shell!Fits(Asked(w).args)
    PROVE  Shell!shell(s) = Asked(w)
<1>1. s \in Seq(C) /\ s # <<>> /\ Tidy(s) /\ s[Len(s)] # Space /\ Split(s) = w
  BY DEF IsLine
<1>2. PICK n \in Nat : n = Len(s) /\ n # 0
  BY <1>1, LenProperties, EmptySeq
<1>3. Shell!Space = Space /\ \A x : Shell!Strings(x) = Strings(x)
  BY ShellLines DEF SameLines
<1>4. PICK k \in 0 .. n :
        /\ Shell!UpTo(s, Space) = SubSeq(s, 1, k)
        /\ \A i \in 1 .. k : s[i] # Space
        /\ k = n \/ s[k + 1] = Space
  <2>1. IsUpTo(Shell!UpTo(s, Space), s, Space)
    BY <1>1, UpToIs
  <2> QED
    BY <1>2, <2>1 DEF IsUpTo
<1>5. k \in 1 .. n /\ k \in Nat
  <2>1. s[1] # Space
    BY <1>1 DEF Tidy
  <2>2. k # 0
    <3>1. k = 0 => k + 1 = 1
      OBVIOUS
    <3> QED
      BY <1>2, <1>4, <2>1, <3>1
  <2> QED
    BY <2>2
<1>6. PICK name : name = SubSeq(s, 1, k)
  OBVIOUS
<1>7. /\ name \in Seq(C) /\ Len(name) = k /\ Split(name) = <<name>>
      /\ k = n => s = name
      /\ k < n /\ s[k + 1] = Space =>
           \E v \in Seq(C) :
             /\ Len(v) = n - k - 1
             /\ Split(s) = <<name>> \o Split(v)
             /\ \A i \in 1 .. Len(v) : v[i] = s[k + 1 + i]
  <2>1. k \in 1 .. Len(s)
    BY <1>2, <1>5
  <2>2. StartsWith(s, name, k, C)
    BY <1>1, <1>4, <1>6, <2>1, FirstWord
  <2> QED
    BY <1>2, <2>2 DEF StartsWith
<1>8. Shell!extract_cmd_name(s) = name
  BY <1>3, <1>4, <1>6 DEF Shell!extract_cmd_name
<1>9. PICK rest : rest = SubSeq(s, k + 1, n)
  OBVIOUS
<1>10. PICK args, fg :
         /\ args = LET arg == IF Shell!IsBackground(rest) THEN Shell!WithoutMark(rest) ELSE rest
                   IN  SubSeq(arg, 2, Len(arg))
         /\ fg = ~Shell!IsBackground(rest)
  OBVIOUS
<1>11. Shell!shell(s) = Shell!execute(name, args, fg)
  BY <1>2, <1>7, <1>8, <1>9, <1>10 DEF Shell!shell
<1>12. ASSUME name \in CommandName, Shell!Fits(Strings(args))
       PROVE  Shell!shell(s) = [name |-> name, args |-> Strings(args), foreground |-> fg]
  <2>1. Shell!build_arguments(args) = Strings(args)
    BY <1>3, <1>12, Zenon DEF Shell!build_arguments
  <2> QED
    BY <1>11, <1>12, <2>1, Zenon DEF Shell!execute
<1>13. CASE k = n
  <2>1. w = <<name>> /\ Head(w) = name /\ Len(w) = 1 /\ Tail(w) = <<>>
    <3>1. w = <<name>>
      BY <1>1, <1>7, <1>13
    <3> QED
      BY <3>1
  <2>2. rest = <<>>
    <3>1. k + 1 \in Int /\ n \in Int /\ n < k + 1
      BY <1>13
    <3> QED
      BY <1>9, <3>1, SubSeqEmpty
  <2>3. ~Shell!IsBackground(rest)
    BY <2>2 DEF Shell!IsBackground
  <2>4. args = <<>>
    <3>1. Len(rest) = 0 /\ 2 \in Int /\ 0 \in Int /\ 0 < 2
      BY <2>2
    <3>2. SubSeq(rest, 2, Len(rest)) = <<>>
      BY <3>1, SubSeqEmpty
    <3> QED
      BY <1>10, <2>3, <3>2
  <2>5. Strings(args) = <<>>
    BY <2>4 DEF Strings
  <2>6. ~(Len(w) > 1 /\ Shell!Last(w) = <<Shell!Mark>>)
    BY <2>1
  <2>7. Shell!shell(s) = [name |-> Head(w), args |-> Tail(w), foreground |-> fg]
    <3>1. Asked(w).args = Strings(args)
      BY <2>1, <2>5, <2>6 DEF Asked
    <3>2. Shell!Fits(Strings(args))
      BY <3>1
    <3> QED
      BY <1>12, <2>1, <2>5, <3>2
  <2> QED
    BY <1>10, <2>3, <2>6, <2>7, Zenon DEF Asked
<1>14. CASE k # n
  <2>1. k < n /\ s[k + 1] = Space
    BY <1>4, <1>14
  <2>2. PICK v \in Seq(C) :
             /\ Len(v) = n - k - 1
             /\ Split(s) = <<name>> \o Split(v)
             /\ \A i \in 1 .. Len(v) : v[i] = s[k + 1 + i]
    BY <1>7, <2>1
  <2>3. PICK m \in Nat : m = Len(v) /\ m = n - k - 1
    BY <2>2, LenProperties
  <2>4. m # 0 /\ v # <<>> /\ 1 \in 1 .. m /\ m \in 1 .. m
    <3>1. m # 0
      <4>1. m = 0 => k + 1 = n
        BY <2>3
      <4> QED
        BY <1>1, <1>2, <2>1, <4>1
    <3>2. v # <<>>
      BY <2>3, <3>1, EmptySeq
    <3>3. 1 \in 1 .. m /\ m \in 1 .. m
      BY <3>1
    <3> QED
      BY <3>1, <3>2, <3>3
  <2>5. v[m] # Space
    <3>1. k + 1 + m = n
      BY <2>3
    <3> QED
      BY <1>1, <1>2, <2>2, <2>3, <2>4, <3>1
  <2>6. v[1] # Space
    <3>1. k + 1 \in 1 .. n - 1 /\ (k + 1) + 1 = k + 1 + 1
      BY <2>3, <2>4
    <3>2. s[(k + 1) + 1] # Space
      BY <1>1, <1>2, <2>1, <3>1 DEF Tidy
    <3> QED
      BY <2>2, <2>3, <2>4, <3>1, <3>2
  <2>7. PICK mark : mark = Shell!Mark
    OBVIOUS
  <2>8. PICK a \in Seq(Seq(C)), e \in Seq(C) :
             /\ Split(v) = a \o <<e>>
             /\ (v[m] = mark /\ (m = 1 \/ v[m - 1] = Space)) <=> e = <<mark>>
             /\ e = <<mark>> => Strings(SubSeq(v, 1, m - 2)) = a
    <3>1. EndsMarked(v, m, mark, C)
      BY <2>3, <2>4, <2>5, <2>6, LastWord
    <3> QED
      BY <3>1 DEF EndsMarked
  <2>9. EndsOf(w, name, a, e)
    <3>1. PICK S : S = Seq(C)
      OBVIOUS
    <3>2. name \in S /\ a \in Seq(S) /\ e \in S
      BY <1>7, <3>1
    <3>3. w = <<name>> \o (a \o <<e>>)
      BY <1>1, <2>2, <2>8
    <3> QED
      BY <3>2, <3>3, TheEnds
  <2>10. /\ Head(w) = name /\ Len(w) > 1 /\ Shell!Last(w) = e
         /\ Tail(w) = a \o <<e>> /\ Tail(Shell!Front(w)) = a
    BY <2>9 DEF EndsOf
  <2>11. IsRest(rest, v, m, C)
    <3>1. k < Len(s) /\ Len(v) = Len(s) - k - 1 /\ rest = SubSeq(s, k + 1, Len(s))
      BY <1>2, <1>9, <2>1, <2>2
    <3> QED
      BY <1>1, <1>5, <2>1, <2>2, <2>3, <2>4, <3>1, RestIs
  <2>12. /\ Shell!IsBackground(rest) <=> v[m] = Shell!Mark /\ (m = 1 \/ v[m - 1] = Space)
         /\ SubSeq(rest, 2, Len(rest)) = v
         /\ SubSeq(Shell!WithoutMark(rest), 2, Len(Shell!WithoutMark(rest))) = SubSeq(v, 1, m - 2)
    <3>1. MarkIs(rest, v, m)
      BY <2>11, MarkOfRest
    <3> QED
      BY <3>1, Zenon DEF MarkIs
  <2>13. Shell!IsBackground(rest) <=> e = <<mark>>
    BY <2>7, <2>8, <2>12, Zenon
  <2>14. Strings(args) = IF e = <<mark>> THEN a ELSE Tail(w)
    <3>1. CASE e = <<mark>>
      <4>1. args = SubSeq(v, 1, m - 2)
        BY <1>10, <2>12, <2>13, <3>1, Zenon
      <4> QED
        BY <2>8, <3>1, <4>1, Zenon
    <3>2. CASE e # <<mark>>
      <4>1. args = v
        BY <1>10, <2>12, <2>13, <3>2, Zenon
      <4>2. Strings(v) = Split(v)
        BY <2>4, Zenon DEF Strings
      <4> QED
        BY <2>8, <2>10, <3>2, <4>1, <4>2, Zenon
    <3> QED
      BY <3>1, <3>2
  <2>15. name \in CommandName
    BY <2>10
  <2>16. fg <=> ~(e = <<mark>>)
    BY <1>10, <2>13
  <2>17. (Len(w) > 1 /\ Shell!Last(w) = <<Shell!Mark>>) <=> e = <<mark>>
    BY <2>7, <2>10
  <2>18. Asked(w) = [name |-> Head(w), args |-> IF e = <<mark>> THEN a ELSE Tail(w),
                     foreground |-> ~(e = <<mark>>)]
    <3>1. CASE e = <<mark>>
      BY <2>10, <2>17, <3>1, Zenon DEF Asked
    <3>2. CASE e # <<mark>>
      BY <2>10, <2>17, <3>2, Zenon DEF Asked
    <3> QED
      BY <3>1, <3>2
  <2>19. Asked(w).args = Strings(args)
    BY <2>14, <2>18
  <2>20. Shell!shell(s) = [name |-> Head(w), args |-> Strings(args), foreground |-> fg]
    <3>1. Shell!Fits(Strings(args))
      BY <2>19
    <3> QED
      BY <1>12, <2>10, <2>15, <3>1
  <2>21. fg = ~(e = <<mark>>)
    BY <1>10, <2>13, Zenon
  <2> QED
    BY <2>14, <2>18, <2>20, <2>21, Zenon
<1> QED
  BY <1>13, <1>14

(* A line is of the characters that are in it.                             *)
LEMMA LineOf ==
    ASSUME NEW T, NEW C, NEW p \in Seq(T), \A i \in 1 .. Len(p) : p[i] \in C
    PROVE  p \in Seq(C)
<1>1. PICK n \in Nat : n = Len(p) /\ p \in [1 .. n -> T]
  BY LenProperties
<1>2. p \in [1 .. n -> C]
  BY <1>1
<1> QED
  BY <1>2, FunctionIsSeq

(* So is what comes before its last character.                             *)
LEMMA LineBefore ==
    ASSUME NEW T, NEW C, NEW p \in Seq(T), NEW c \in T, NEW q, q = Append(p, c), q \in Seq(C)
    PROVE  p \in Seq(C) /\ c \in C
<1>1. PICK n \in Nat : n = Len(p)
  BY LenProperties
<1>2. Len(q) = n + 1 /\ q[n + 1] = c /\ \A i \in 1 .. n : q[i] = p[i]
  BY <1>1, AppendProperties
<1>3. \A i \in 1 .. n + 1 : q[i] \in C
  BY <1>2, ElementOfSeq
<1>4. \A i \in 1 .. n : p[i] \in C
  BY <1>2, <1>3
<1>5. c \in C
  BY <1>2, <1>3
<1> QED
  BY <1>1, <1>4, <1>5, LineOf

(* The first of what is to come goes to the end of what has come.          *)
LEMMA NextComes ==
    ASSUME NEW S, NEW p \in Seq(S), NEW u \in Seq(S), u # <<>>
    PROVE  p \o u = Append(p, Head(u)) \o Tail(u)
<1>1. PICK h \in S, t \in Seq(S) : h = Head(u) /\ t = Tail(u)
  BY HeadTailProperties
<1>2. u = <<h>> \o t
  <2>1. PICK o \in Seq(S) : o = <<h>> /\ Len(o) = 1 /\ o[1] = h
    BY OneOf
  <2>2. PICK w : w = o \o t
    OBVIOUS
  <2>3. Concatenation(w, o, t, S)
    BY <2>2, Concatenated
  <2>4. PICK n \in Nat : n = Len(t) /\ Len(u) = n + 1 /\ \A i \in 1 .. n : t[i] = u[i + 1]
    <3>1. Len(Tail(u)) = Len(u) - 1 /\ \A i \in 1 .. Len(Tail(u)) : Tail(u)[i] = u[i + 1]
      BY HeadTailProperties
    <3>2. Len(t) \in Nat /\ Len(u) \in Nat
      BY LenProperties
    <3>3. Len(u) = Len(t) + 1
      BY <1>1, <3>1, <3>2
    <3> QED
      BY <1>1, <3>1, <3>2, <3>3
  <2>5. w \in Seq(S) /\ Len(w) = n + 1
        /\ \A i \in 1 .. n + 1 : w[i] = IF i <= 1 THEN h ELSE t[i - 1]
    <3>1. /\ w \in Seq(S) /\ Len(w) = Len(o) + Len(t)
          /\ \A i \in 1 .. Len(o) + Len(t) : w[i] = IF i <= Len(o) THEN o[i] ELSE t[i - Len(o)]
      BY <2>3 DEF Concatenation
    <3>2. Len(o) + Len(t) = n + 1 /\ Len(o) = 1
      BY <2>1, <2>4
    <3>3. \A i \in 1 .. n + 1 : i <= 1 => i = 1
      OBVIOUS
    <3> QED
      BY <2>1, <3>1, <3>2, <3>3
  <2>6. u[1] = h
    BY <1>1
  <2>7. \A i \in 1 .. Len(u) : u[i] = w[i]
    <3> TAKE i \in 1 .. Len(u)
    <3>1. i \in 1 .. n + 1
      BY <2>4
    <3>2. CASE i = 1
      BY <2>5, <2>6, <3>1, <3>2
    <3>3. CASE i # 1
      <4>1. i - 1 \in 1 .. n /\ (i - 1) + 1 = i /\ ~(i <= 1)
        BY <3>1, <3>3
      <4> QED
        BY <2>4, <2>5, <3>1, <4>1
    <3> QED
      BY <3>2, <3>3
  <2>8. u = w
    BY <2>4, <2>5, <2>7, SeqEqual
  <2> QED
    BY <2>1, <2>2, <2>8
<1>3. Append(p, h) = p \o <<h>> /\ <<h>> \in Seq(S)
  BY AppendIsConcat, OneOf
<1>4. p \o (<<h>> \o t) = (p \o <<h>>) \o t
  BY <1>3, ConcatAssociative
<1> QED
  BY <1>1, <1>2, <1>3, <1>4

(* t is u after a line that has come, of which s is kept.                  *)
LineComes(t, u, s) ==
    \E p \in Seq(Typed) : t = p \o u /\ (p \in Seq(Plain) => IsKept(p, s, Plain))

(* What the loop of readline_no_spaces does with the next character.       *)
LEMMA LineGoesOn ==
    ASSUME NEW D, Typed \subseteq D, NEW t, NEW u \in Seq(D), u # <<>>, Head(u) \in Typed,
           LineComes(t, u, str)
    PROVE  LineComes(t, Tail(u), Shell!Keeps(Head(u)))
<1>1. PICK p \in Seq(Typed) : t = p \o u /\ (p \in Seq(Plain) => IsKept(p, str, Plain))
  BY DEF LineComes
<1>2. PICK c \in Typed : c = Head(u)
  OBVIOUS
<1>3. PICK q : q = Append(p, c)
  OBVIOUS
<1>4. q \in Seq(Typed)
  <2>1. PICK E : E = Typed
    OBVIOUS
  <2>2. p \in Seq(E) /\ c \in E
    BY <2>1
  <2>3. q \in Seq(E)
    BY <1>3, <2>2, AppendProperties
  <2> QED
    BY <2>1, <2>3
<1>5. t = q \o Tail(u)
  <2>1. p \in Seq(D)
    <3>1. \A i \in 1 .. Len(p) : p[i] \in D
      BY ElementOfSeq
    <3> QED
      BY <3>1, LineOf
  <2> QED
    BY <1>1, <1>2, <1>3, <2>1, NextComes
<1>6. ASSUME q \in Seq(Plain) PROVE IsKept(q, Shell!Keeps(c), Plain)
  <2>1. p \in Seq(Plain) /\ c \in Plain
    BY <1>3, <1>6, LineBefore
  <2>2. IsKept(p, str, Plain)
    BY <1>1, <2>1
  <2>3. str \in Seq(Plain)
    BY <2>2 DEF IsKept
  <2>4. Space \in Plain /\ \A x \in Plain : Shell!isspace(x) <=> x = Space
    BY Characters DEF CharactersDiffer
  <2>5. str # <<>> => Shell!Last(str) \in Plain
    <3>1. ASSUME str # <<>> PROVE str[Len(str)] \in Plain
      <4>1. Len(str) \in 1 .. Len(str)
        BY <2>3, <3>1, LenProperties, EmptySeq
      <4> QED
        BY <2>3, <4>1, ElementOfSeq
    <3> QED
      BY <3>1 DEF Shell!Last
  <2>6. str # <<>> => (Shell!isspace(Shell!Last(str)) <=> Spaced(str))
    BY <2>4, <2>5 DEF Shell!Last, Spaced
  <2>7. Shell!isspace(c) <=> c = Space
    BY <2>1, <2>4
  <2>8. (c = Space /\ (str = <<>> \/ Spaced(str))) <=>
          (Shell!isspace(c) /\ (str = <<>> \/ Shell!isspace(Shell!Last(str))))
    BY <2>6, <2>7, Zenon
  <2>9. Shell!Keeps(c) = IF c = Space /\ (str = <<>> \/ Spaced(str)) THEN str ELSE Append(str, c)
    <3>1. CASE c = Space /\ (str = <<>> \/ Spaced(str))
      BY <2>8, <3>1, Zenon DEF Shell!Keeps
    <3>2. CASE ~(c = Space /\ (str = <<>> \/ Spaced(str)))
      BY <2>8, <3>2, Zenon DEF Shell!Keeps
    <3> QED
      BY <3>1, <3>2, Zenon
  <2> QED
    BY <1>3, <2>1, <2>2, <2>4, <2>9, KeepsOn
<1> QED
  BY <1>2, <1>4, <1>5, <1>6, Zenon DEF LineComes

(* u is the keys b of a line and the end e of it.  When it ends as it was  *)
(* typed, and no part of it was taken for a line, what is kept is of it.   *)
Ending(u, b, e, k, t, s) ==
    /\ u = Append(b, e)
    /\ e = Shell!Newline /\ ~k => LineComes(t, u, s)

ShellInv ==
    /\ filling \in BOOLEAN /\ cut \in BOOLEAN
    /\ filling => buffer \in Seq(Typed) /\ (~cut => str = <<>> /\ text = buffer)
    /\ ~filling => \E b \in Seq(Typed), e \in {Shell!Newline, Shell!Nul} :
                       Ending(buffer, b, e, cut, text, str)

(* The end of a line is added to a line that was edited in the buffer.     *)
LEMMA LineEnds ==
    ASSUME NEW u, NEW D, u \in Seq(D)
    PROVE  LineComes(u, u, <<>>)
<1>1. PICK p : p = <<>> /\ p \in Seq(Typed)
  <2>1. PICK E : E = Typed
    OBVIOUS
  <2>2. <<>> \in Seq(E)
    BY EmptySeq
  <2> QED
    BY <2>1, <2>2
<1>2. u = p \o u
  BY <1>1, ConcatEmptySeq
<1>3. IsKept(p, <<>>, Plain)
  BY <1>1, KeptOfNothing, Zenon
<1> QED
  BY <1>1, <1>2, <1>3, Zenon DEF LineComes

(* A key in the buffer.                                                    *)
LEMMA KeyPressed ==
    ASSUME ShellInv, NEW c, c = Shell!Backspace \/ c = Shell!Newline \/ c \in Typed,
           Shell!fill_buffer(c)
    PROVE  ShellInv'
<1>1. filling = TRUE /\ cut \in BOOLEAN /\ cut' = cut /\ str' = str
  BY DEF ShellInv, Shell!fill_buffer
<1>2. PICK T : T = Typed
  OBVIOUS
<1>3. buffer \in Seq(T) /\ (~cut => str = <<>> /\ text = buffer)
  BY <1>1, <1>2 DEF ShellInv
<1>4. /\ Shell!Newline # Shell!Nul /\ Shell!Newline # Shell!Backspace
      /\ Shell!Newline \notin T /\ Shell!Nul \notin T /\ Shell!Backspace \notin T
  BY <1>2, Characters DEF CharactersDiffer
<1>5. CASE c = Shell!Backspace
  <2>1. /\ buffer' = IF buffer = <<>> THEN <<>> ELSE Shell!Front(buffer)
        /\ text' = IF buffer = <<>> THEN text ELSE Shell!Front(text)
        /\ filling' = filling
    BY <1>5 DEF Shell!fill_buffer
  <2>2. buffer' \in Seq(T)
    <3>1. CASE buffer = <<>>
      BY <1>3, <2>1, <3>1
    <3>2. CASE buffer # <<>>
      <4>1. PICK u \in Seq(T), d \in T : EndsIn(buffer, u, d)
        BY <1>3, <3>2, LastOff
      <4>2. Shell!Front(buffer) = u
        BY <4>1 DEF EndsIn, Shell!Front
      <4> QED
        BY <2>1, <3>2, <4>1, <4>2
    <3> QED
      BY <3>1, <3>2
  <2>3. ~cut => text' = buffer'
    BY <1>3, <2>1
  <2> QED
    BY <1>1, <1>2, <1>3, <2>1, <2>2, <2>3 DEF ShellInv
<1>6. CASE c # Shell!Backspace
  <2>1. PICK fills \in BOOLEAN : fills <=> Len(buffer) + 1 = LINE_BUFFER - 1
    OBVIOUS
  <2>2. /\ buffer' = Append(buffer, c) \o (IF fills /\ c # Shell!Newline THEN <<Shell!Nul>> ELSE <<>>)
        /\ filling' = ~(fills \/ c = Shell!Newline)
        /\ text' = Append(text, c)
    BY <1>6, <2>1 DEF Shell!fill_buffer
  <2>3. PICK D : D = T \cup {Shell!Newline, Shell!Nul}
    OBVIOUS
  <2>4. PICK u : u = Append(buffer, c)
    OBVIOUS
  <2>5. u \in Seq(D)
    <3>1. buffer \in Seq(D)
      <4>1. \A i \in 1 .. Len(buffer) : buffer[i] \in D
        BY <1>3, <2>3, ElementOfSeq
      <4> QED
        BY <1>3, <4>1, LineOf
    <3>2. c \in D
      BY <1>2, <1>6, <2>3
    <3> QED
      BY <2>4, <3>1, <3>2, AppendProperties
  <2>6. u \o <<>> = u
    BY <2>5, ConcatEmptySeq
  <2>7. CASE c = Shell!Newline
    <3>1. buffer' = u /\ filling' = FALSE /\ text' = Append(text, c)
      BY <2>2, <2>4, <2>6, <2>7, Zenon
    <3>2. ~cut => LineComes(text', buffer', str')
      <4>1. LineComes(u, u, <<>>)
        BY <2>5, LineEnds
      <4>2. ~cut => text' = u /\ str' = <<>>
        BY <1>1, <1>3, <2>4, <3>1
      <4> QED
        BY <3>1, <4>1, <4>2
    <3>3. PICK b : b = buffer
      OBVIOUS
    <3>4. Ending(buffer', b, c, cut', text', str')
      BY <1>1, <2>4, <3>1, <3>2, <3>3, Zenon DEF Ending
    <3>5. b \in Seq(Typed) /\ c \in {Shell!Newline, Shell!Nul}
      BY <1>2, <1>3, <2>7, <3>3
    <3> QED
      BY <1>1, <3>1, <3>4, <3>5, Zenon DEF ShellInv
  <2>8. CASE c # Shell!Newline /\ fills
    <3>1. buffer' = u \o <<Shell!Nul>> /\ filling' = FALSE
      BY <2>2, <2>4, <2>8, Zenon
    <3>2. PICK e : e = Shell!Nul
      OBVIOUS
    <3>3. buffer' = Append(u, e)
      BY <2>5, <3>1, <3>2, AppendIsConcat
    <3>4. u \in Seq(T)
      <4>1. c \in T
        BY <1>2, <1>6, <2>8
      <4> QED
        BY <1>3, <2>4, <4>1, AppendProperties
    <3>5. Ending(buffer', u, e, cut', text', str')
      BY <1>4, <3>2, <3>3, Zenon DEF Ending
    <3>6. u \in Seq(Typed) /\ e \in {Shell!Newline, Shell!Nul}
      BY <1>2, <3>2, <3>4
    <3> QED
      BY <1>1, <3>1, <3>5, <3>6, Zenon DEF ShellInv
  <2>9. CASE c # Shell!Newline /\ ~fills
    <3>1. buffer' = u /\ filling' = TRUE /\ text' = Append(text, c)
      BY <2>2, <2>4, <2>6, <2>9, Zenon
    <3>2. u \in Seq(T)
      <4>1. c \in T
        BY <1>2, <1>6, <2>9
      <4> QED
        BY <1>3, <2>4, <4>1, AppendProperties
    <3>3. ~cut => text' = u
      BY <1>3, <2>4, <3>1
    <3> QED
      BY <1>1, <1>2, <1>3, <3>1, <3>2, <3>3 DEF ShellInv
  <2> QED
    BY <2>7, <2>8, <2>9
<1> QED
  BY <1>5, <1>6

(* A character is taken out of the buffer.                                 *)
LEMMA LineRead ==
    ASSUME ShellInv, Shell!readline_no_spaces
    PROVE  ShellInv'
<1>1. cut \in BOOLEAN /\ ~filling
  BY DEF ShellInv, Shell!readline_no_spaces
<1>2. PICK T : T = Typed
  OBVIOUS
<1>3. PICK b \in Seq(T), e \in {Shell!Newline, Shell!Nul} : Ending(buffer, b, e, cut, text, str)
  BY <1>1, <1>2 DEF ShellInv
<1>4. buffer = Append(b, e) /\ (e = Shell!Newline /\ ~cut => LineComes(text, buffer, str))
  BY <1>3 DEF Ending
<1>5. /\ Shell!Newline # Shell!Nul
      /\ Shell!Newline \notin T /\ Shell!Nul \notin T
  BY <1>2, Characters DEF CharactersDiffer
<1>6. PICK c, ends : c = Head(buffer) /\ ends = (c = Shell!Newline \/ Len(str) = MAX_CMD_SIZE - 1)
  OBVIOUS
<1>7. /\ buffer' = Tail(buffer) /\ filling' = (Len(buffer) = 1)
      /\ str' = IF ends THEN <<>> ELSE Shell!Keeps(c)
      /\ cut' = IF c = Shell!Newline THEN FALSE ELSE (cut \/ ends \/ c = Shell!Nul)
      /\ text' = IF c = Shell!Newline THEN <<>> ELSE text
  BY <1>6 DEF Shell!readline_no_spaces, Shell!getchar
<1>8. PICK D : D = T \cup {Shell!Newline, Shell!Nul}
  OBVIOUS
<1>9. b \in Seq(D) /\ e \in D
  <2>1. \A i \in 1 .. Len(b) : b[i] \in D
    BY <1>8, ElementOfSeq
  <2> QED
    BY <1>8, <2>1, LineOf
<1>10. /\ buffer \in Seq(D) /\ buffer # <<>> /\ Len(buffer) = Len(b) + 1 /\ Len(b) \in Nat
       /\ Head(buffer) = IF b = <<>> THEN e ELSE Head(b)
       /\ Tail(buffer) = IF b = <<>> THEN <<>> ELSE Append(Tail(b), e)
  BY <1>4, <1>9, AppendProperties, LenProperties, HeadTailAppend
<1>11. cut' \in BOOLEAN
  <2>1. CASE c = Shell!Newline
    BY <1>7, <2>1
  <2>2. CASE c # Shell!Newline
    <3>1. cut' = (cut \/ ends \/ c = Shell!Nul)
      BY <1>7, <2>2
    <3> QED
      BY <3>1
  <2> QED
    BY <2>1, <2>2
<1>12. CASE b = <<>>
  <2>1. c = e /\ buffer' = <<>> /\ filling' = TRUE
    <3>1. Len(b) = 0
      BY <1>12
    <3>2. Len(buffer) = 1
      BY <1>10, <3>1
    <3> QED
      BY <1>6, <1>7, <1>10, <1>12, <3>2
  <2>2. buffer' \in Seq(T)
    BY <1>3, <1>12, <2>1
  <2>3. ~cut' => str' = <<>> /\ text' = buffer'
    <3>1. CASE e = Shell!Newline
      BY <1>6, <1>7, <2>1, <3>1, Zenon
    <3>2. CASE e = Shell!Nul
      BY <1>5, <1>7, <2>1, <3>2, Zenon
    <3> QED
      BY <3>1, <3>2
  <2> QED
    BY <1>2, <1>11, <2>1, <2>2, <2>3 DEF ShellInv
<1>13. CASE b # <<>>
  <2>1. c \in T /\ Tail(b) \in Seq(T) /\ buffer' = Append(Tail(b), e) /\ c = Head(buffer)
    BY <1>6, <1>7, <1>10, <1>13, HeadTailProperties
  <2>2. filling' = FALSE
    <3>1. Len(b) # 0
      BY <1>13, EmptySeq
    <3>2. Len(buffer) # 1
      BY <1>10, <3>1
    <3> QED
      BY <1>7, <3>2
  <2>3. c # Shell!Newline
    BY <1>5, <2>1
  <2>4. ASSUME e = Shell!Newline, ~cut' PROVE LineComes(text', buffer', str')
    <3>1. ~cut /\ ~ends /\ text' = text
      BY <1>7, <2>3, <2>4, Zenon
    <3>2. str' = Shell!Keeps(c)
      BY <1>7, <3>1, Zenon
    <3>3. LineComes(text, buffer, str)
      BY <1>4, <2>4, <3>1
    <3>4. LineComes(text, Tail(buffer), Shell!Keeps(Head(buffer)))
      <4>1. Typed \subseteq D /\ Head(buffer) \in Typed
        BY <1>2, <1>8, <2>1
      <4> QED
        BY <1>10, <3>3, <4>1, LineGoesOn
    <3> QED
      BY <1>7, <2>1, <3>1, <3>2, <3>4
  <2>5. PICK d \in Seq(T) : d = Tail(b)
    BY <2>1
  <2>6. Ending(buffer', d, e, cut', text', str')
    BY <2>1, <2>4, <2>5, Zenon DEF Ending
  <2>7. d \in Seq(Typed)
    BY <1>2, <2>5
  <2> QED
    BY <1>11, <2>2, <2>6, <2>7, Zenon DEF ShellInv
<1> QED
  BY <1>12, <1>13

(* What the buffer and the line kept have to do with what was typed.       *)
LEMMA ShellInvariant ==
    (Shell!Init => ShellInv) /\ (ShellInv /\ [Shell!Next]_(Shell!vars) => ShellInv')
<1>1. Shell!Init => ShellInv
  <2> SUFFICES ASSUME Shell!Init PROVE ShellInv
    OBVIOUS
  <2>1. buffer = <<>> /\ filling = TRUE /\ str = <<>> /\ text = <<>> /\ cut = FALSE
    BY DEF Shell!Init
  <2>2. PICK T : T = Typed
    OBVIOUS
  <2>3. buffer \in Seq(T)
    BY <2>1, EmptySeq
  <2> QED
    BY <2>1, <2>2, <2>3 DEF ShellInv
<1>2. ASSUME ShellInv, [Shell!Next]_(Shell!vars) PROVE ShellInv'
  <2>1. ASSUME NEW c \in Shell!Other \cup {Shell!Space, Shell!Tab, Shell!Backspace, Shell!Newline},
               Shell!fill_buffer(c)
        PROVE  ShellInv'
    <3>1. c = Shell!Backspace \/ c = Shell!Newline \/ c \in Typed
      BY Characters, ShellLines DEF CharactersDiffer, SameLines
    <3> QED
      BY <1>2, <2>1, <3>1, KeyPressed
  <2>2. CASE Shell!readline_no_spaces
    BY <1>2, <2>2, LineRead
  <2>3. CASE UNCHANGED Shell!vars
    BY <1>2, <2>3 DEF Shell!vars, ShellInv
  <2> QED
    BY <1>2, <2>1, <2>2, <2>3 DEF Shell!Next
<1> QED
  BY <1>1, <1>2

(* A line of characters has no end in it.                                  *)
LEMMA WholeLine ==
    ASSUME NEW u \in Seq(Plain)
    PROVE  Shell!UpTo(u, Shell!Nul) = u
<1>1. PICK C : C = Plain
  OBVIOUS
<1>2. u \in Seq(C)
  BY <1>1
<1>3. PICK e : e = Shell!Nul
  OBVIOUS
<1>4. e \notin C
  BY <1>1, <1>3, Characters DEF CharactersDiffer, Plain
<1>5. PICK n \in Nat : n = Len(u)
  BY LenProperties
<1>6. PICK k \in 0 .. n :
        /\ Shell!UpTo(u, e) = SubSeq(u, 1, k)
        /\ k = n \/ u[k + 1] = e
  <2>1. IsUpTo(Shell!UpTo(u, e), u, e)
    BY <1>2, UpToIs
  <2> QED
    BY <1>5, <2>1 DEF IsUpTo
<1>7. k = n
  <2>1. ASSUME k # n PROVE FALSE
    <3>1. k + 1 \in 1 .. n
      BY <2>1
    <3>2. u[k + 1] \in C
      BY <1>2, <1>5, <3>1, ElementOfSeq
    <3> QED
      BY <1>4, <1>6, <2>1, <3>2
  <2> QED
    BY <2>1
<1>8. SubSeq(u, 1, n) = u
  BY <1>2, <1>5, SubSeqFull
<1> QED
  BY <1>3, <1>6, <1>7, <1>8

(* At the end of a line that has come whole the shell runs what it says.   *)
LEMMA WordsAreGot ==
    ASSUME NEW p \in Seq(Plain), IsKept(p, str, Plain), Words(p) # <<>>,
           Head(Words(p)) \in CommandName, Shell!Fits(Asked(Words(p)).args)
    PROVE  Shell!shell(Shell!UpTo(Shell!Trimmed(str), Shell!Nul)) = Asked(Words(p))
<1>1. PICK C : C = Plain
  OBVIOUS
<1>2. IsKept(p, str, C) /\ str \in Seq(C)
  BY <1>1 DEF IsKept
<1>3. Space \in C /\ \A x \in C : Shell!isspace(x) <=> x = Space
  BY <1>1, Characters DEF CharactersDiffer
<1>4. PICK u : u = IF Spaced(str) THEN SubSeq(str, 1, Len(str) - 1) ELSE str
  OBVIOUS
<1>5. Shell!Trimmed(str) = u
  <2>1. str # <<>> => (Shell!isspace(Shell!Last(str)) <=> Spaced(str))
    <3>1. ASSUME str # <<>> PROVE str[Len(str)] \in C
      <4>1. Len(str) \in 1 .. Len(str)
        BY <1>2, <3>1, LenProperties, EmptySeq
      <4> QED
        BY <1>2, <4>1, ElementOfSeq
    <3> QED
      BY <1>3, <3>1 DEF Shell!Last, Spaced
  <2>2. (str # <<>> /\ Shell!isspace(Shell!Last(str))) <=> Spaced(str)
    BY <2>1 DEF Spaced
  <2>3. CASE Spaced(str)
    BY <1>4, <2>2, <2>3, Zenon DEF Shell!Trimmed, Shell!Front
  <2>4. CASE ~Spaced(str)
    BY <1>4, <2>2, <2>4, Zenon DEF Shell!Trimmed
  <2> QED
    BY <2>3, <2>4
<1>6. IsLine(u, p, C)
  BY <1>2, <1>4, WithoutTheLast
<1>7. Shell!UpTo(u, Shell!Nul) = u
  <2>1. u \in Seq(Plain)
    BY <1>1, <1>6 DEF IsLine
  <2> QED
    BY <2>1, WholeLine
<1>8. PICK w : w = Words(p)
  OBVIOUS
<1>9. Shell!shell(u) = Asked(w)
  <2>1. Head(w) \in CommandName /\ Shell!Fits(Asked(w).args)
    BY <1>8
  <2> QED
    BY <1>3, <1>6, <1>8, <2>1, ShellRuns
<1> QED
  BY <1>5, <1>7, <1>8, <1>9, Zenon

(* A step that ends such a line runs the command.                          *)
LEMMA StepGetsTheWords ==
    ASSUME ShellInv, Shell!Next
    PROVE  Shell!GetsTheWords
<1>1. PICK t, w : t = Shell!Front(text) /\ w = Words(t)
  OBVIOUS
<1>2. Shell!Words(t) = w
  BY <1>1, ShellLines DEF SameLines
<1>3. ASSUME ~filling, Head(buffer) = Shell!Newline, ~cut,
             Shell!Tab \notin Shell!ToSet(t), w # <<>>, Head(w) \in CommandName,
             Shell!Fits(Asked(w).args)
      PROVE  ran' = Asked(w)
  <2>1. PICK T : T = Typed
    OBVIOUS
  <2>2. PICK b \in Seq(T), e \in {Shell!Newline, Shell!Nul} : Ending(buffer, b, e, cut, text, str)
    BY <1>3, <2>1 DEF ShellInv
  <2>3. buffer = Append(b, e) /\ (e = Shell!Newline => LineComes(text, buffer, str))
    BY <1>3, <2>2 DEF Ending
  <2>4. Shell!Newline # Shell!Nul /\ Shell!Newline \notin T
    BY <2>1, Characters DEF CharactersDiffer
  <2>5. b = <<>> /\ e = Shell!Newline
    <3>1. Head(buffer) = IF b = <<>> THEN e ELSE Head(b)
      BY <2>2, <2>3, HeadTailAppend
    <3>2. ASSUME b # <<>> PROVE FALSE
      <4>1. Head(b) \in T
        BY <2>2, <3>2, HeadTailProperties
      <4> QED
        BY <1>3, <2>4, <3>1, <3>2, <4>1
    <3> QED
      BY <1>3, <3>1, <3>2
  <2>6. PICK p \in Seq(Typed) : text = p \o buffer /\ (p \in Seq(Plain) => IsKept(p, str, Plain))
    BY <2>3, <2>5 DEF LineComes
  <2>7. p = t
    <3>1. PICK D : D = T \cup {e}
      OBVIOUS
    <3>2. p \in Seq(D) /\ e \in D
      <4>1. p \in Seq(T)
        BY <2>1
      <4>2. \A i \in 1 .. Len(p) : p[i] \in D
        BY <3>1, <4>1, ElementOfSeq
      <4> QED
        BY <3>1, <4>1, <4>2, LineOf
    <3>3. text = Append(p, e)
      <4>1. buffer = <<e>>
        BY <2>3, <2>5
      <4>2. Append(p, e) = p \o <<e>>
        BY <3>2, AppendIsConcat
      <4> QED
        BY <2>6, <4>1, <4>2
    <3>4. PICK x \in Seq(D), y \in D : EndsIn(text, x, y)
      <4>1. text \in Seq(D) /\ text # <<>>
        BY <3>2, <3>3, AppendProperties
      <4> QED
        BY <4>1, LastOff
    <3>5. text = Append(x, y) /\ SubSeq(text, 1, Len(text) - 1) = x
      BY <3>4 DEF EndsIn
    <3>6. x = p
      <4>1. Append(p, e) = Append(x, y) <=> p = x /\ e = y
        BY <3>2, <3>4, AppendInjective
      <4> QED
        BY <3>3, <3>5, <4>1
    <3> QED
      BY <1>1, <3>5, <3>6 DEF Shell!Front
  <2>8. p \in Seq(Plain)
    <3>1. \A i \in 1 .. Len(p) : p[i] \in Plain
      <4> TAKE i \in 1 .. Len(p)
      <4>1. p[i] \in T
        BY <2>1, ElementOfSeq
      <4>2. p[i] \in Shell!ToSet(t)
        <5>1. DOMAIN p = 1 .. Len(p)
          BY LenProperties
        <5> QED
          BY <2>7, <5>1 DEF Shell!ToSet
      <4> QED
        BY <1>3, <2>1, <4>1, <4>2 DEF Plain
    <3> QED
      BY <3>1, LineOf
  <2>9. ran' = Shell!shell(Shell!UpTo(Shell!Trimmed(str), Shell!Nul))
    <3>1. Shell!readline_no_spaces
      BY <1>3 DEF Shell!Next, Shell!fill_buffer
    <3> QED
      BY <1>3, <3>1 DEF Shell!readline_no_spaces
  <2>10. IsKept(p, str, Plain) /\ Words(p) = w
    BY <1>1, <2>6, <2>7, <2>8
  <2> QED
    BY <1>3, <2>8, <2>9, <2>10, WordsAreGot
<1>4. PICK args : args = Asked(w).args
  OBVIOUS
<1>5. args = IF Len(w) > 1 /\ Shell!Last(w) = <<Shell!Mark>> THEN Tail(Shell!Front(w)) ELSE Tail(w)
  BY <1>4 DEF Asked
<1> QED
  BY <1>1, <1>2, <1>3, <1>4, <1>5, Zenon DEF Shell!GetsTheWords, Asked

(* Shell: a command gets the words that were typed, if its table of        *)
(* arguments holds them, for lines, buffers and tables of any size         *)
(* (stdio.c:100-119, shell.c:32-66, executer.c:20-37, 63-88).              *)
THEOREM ShellGetsTheWords ==
    Shell!Spec => CommandGetsTheWords
<1>1. Shell!Init => ShellInv
  BY ShellInvariant
<1>2. ShellInv /\ [Shell!Next]_(Shell!vars) => ShellInv'
  BY ShellInvariant
<1>3. ShellInv /\ [Shell!Next]_(Shell!vars) => [Shell!GetsTheWords]_(Shell!vars)
  BY StepGetsTheWords
<1> QED
  BY <1>1, <1>2, <1>3, PTL DEF Shell!Spec, CommandGetsTheWords, Shell!CommandGetsTheWords
=============================================================================
