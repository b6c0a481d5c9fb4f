---------------------------- MODULE Memory_proofs ----------------------------
(***************************************************************************)
(* What is in the memory: the page allocators of MemoryAllocator, for any  *)
(* number of pages, of processes and of places to list pages in; and the   *)
(* binaries that Image loads, of any size and content.                     *)
(***************************************************************************)
EXTENDS MemoryAllocator, Loader, OrderLemmas

-----------------------------------------------------------------------------
(* Sequences without repetitions. *)

(* The elements of a sequence, one by one.                                 *)
LEMMA ElementsOf ==
    ASSUME NEW S, NEW s \in Seq(S)
    PROVE  /\ DOMAIN s = 1 .. Len(s) /\ Len(s) \in Nat
           /\ \A i \in DOMAIN s : s[i] \in S /\ s[i] \in ToSet(s)
           /\ \A a \in ToSet(s) : a \in S /\ \E i \in DOMAIN s : s[i] = a
           /\ s = <<>> <=> Len(s) = 0
           /\ s = <<>> => ToSet(s) = {}
<1>1. DOMAIN s = 1 .. Len(s) /\ Len(s) \in Nat
  BY LenProperties
<1>2. \A i \in DOMAIN s : s[i] \in S
  BY <1>1, ElementOfSeq
<1>3. s = <<>> <=> Len(s) = 0
  BY EmptySeq
<1>4. \A i \in DOMAIN s : s[i] \in ToSet(s)
  BY DEF ToSet
<1>5. \A a \in ToSet(s) : a \in S /\ \E i \in DOMAIN s : s[i] = a
  BY <1>2 DEF ToSet
<1>6. Len(s) = 0 => DOMAIN s = {}
  BY <1>1
<1>7. s = <<>> => ToSet(s) = {}
  BY <1>3, <1>5, <1>6
<1> QED
  BY <1>1, <1>2, <1>3, <1>4, <1>5, <1>7

(* Two of them with nothing in common make one.                            *)
LEMMA Joined ==
    ASSUME NEW S, NEW s \in Seq(S), NEW t \in Seq(S), NEW c, c = s \o t,
           IsInjective(s), IsInjective(t), ToSet(s) \cap ToSet(t) = {}
    PROVE  /\ c \in Seq(S) /\ IsInjective(c) /\ Len(c) = Len(s) + Len(t)
           /\ \A a : a \in ToSet(c) <=> a \in ToSet(s) \/ a \in ToSet(t)
<1>1. /\ DOMAIN s = 1 .. Len(s) /\ Len(s) \in Nat
      /\ DOMAIN t = 1 .. Len(t) /\ Len(t) \in Nat
      /\ \A i \in DOMAIN s : s[i] \in ToSet(s)
      /\ \A i \in DOMAIN t : t[i] \in ToSet(t)
      /\ \A a \in ToSet(s) : \E i \in DOMAIN s : s[i] = a
      /\ \A a \in ToSet(t) : \E i \in DOMAIN t : t[i] = a
  BY ElementsOf
<1>2. /\ c \in Seq(S) /\ Len(c) = Len(s) + Len(t)
      /\ \A i \in 1 .. Len(s) + Len(t) : c[i] = IF i <= Len(s) THEN s[i] ELSE t[i - Len(s)]
  BY ConcatProperties
<1>3. DOMAIN c = 1 .. Len(s) + Len(t)
  BY <1>2, LenProperties
<1> DEFINE l == Len(s)
           m == Len(t)
<1>4. /\ l \in Nat /\ m \in Nat /\ DOMAIN s = 1 .. l /\ DOMAIN t = 1 .. m /\ DOMAIN c = 1 .. l + m
      /\ \A i \in 1 .. l + m : c[i] = IF i <= l THEN s[i] ELSE t[i - l]
  BY <1>1, <1>2, <1>3
<1> HIDE DEF l, m
<1>5. \A i \in DOMAIN c :
         \/ i \in DOMAIN s /\ c[i] = s[i] /\ i <= l
         \/ i - l \in DOMAIN t /\ c[i] = t[i - l] /\ i > l
  BY <1>4
<1>6. /\ \A i \in DOMAIN s : i \in DOMAIN c /\ c[i] = s[i]
      /\ \A i \in DOMAIN t : l + i \in DOMAIN c /\ c[l + i] = t[i]
  <2>1. \A i \in DOMAIN s : i \in DOMAIN c /\ c[i] = s[i]
    BY <1>4
  <2>2. ASSUME NEW i \in DOMAIN t
        PROVE  l + i \in DOMAIN c /\ c[l + i] = t[i]
    <3>1. l + i \in 1 .. l + m /\ ~(l + i <= l) /\ (l + i) - l = i
      BY <1>4
    <3> QED
      BY <1>4, <3>1
  <2> QED
    BY <2>1, <2>2
<1>7. IsInjective(c)
  <2> SUFFICES ASSUME NEW i \in DOMAIN c, NEW j \in DOMAIN c, c[i] = c[j]
               PROVE  i = j
    BY DEF IsInjective
  <2>1. i \in Int /\ j \in Int
    BY <1>4
  <2>2. CASE i <= l /\ j <= l
    BY <1>4, <1>5, <2>1, <2>2 DEF IsInjective
  <2>3. CASE i > l /\ j > l
    <3>1. i - l = j - l
      BY <1>4, <1>5, <2>1, <2>3 DEF IsInjective
    <3> QED
      BY <1>4, <2>1, <3>1
  <2>4. CASE (i <= l /\ j > l) \/ (i > l /\ j <= l)
    <3>1. \A k \in DOMAIN c : k \in Int /\ (k <= l => c[k] \in ToSet(s)) /\ (k > l => c[k] \in ToSet(t))
      <4> TAKE k \in DOMAIN c
      <4>1. CASE k <= l
        BY <1>1, <1>4, <1>5, <4>1
      <4>2. CASE k > l
        BY <1>1, <1>4, <1>5, <4>2
      <4> QED
        BY <1>4, <4>1, <4>2
    <3> QED
      BY <2>4, <3>1
  <2> QED
    BY <1>4, <2>1, <2>2, <2>3, <2>4
<1>8. ASSUME NEW a
      PROVE  a \in ToSet(c) <=> a \in ToSet(s) \/ a \in ToSet(t)
  <2>1. a \in ToSet(c) => a \in ToSet(s) \/ a \in ToSet(t)
    BY <1>1, <1>5, SMTT(20) DEF ToSet
  <2>2. ASSUME a \in ToSet(s) PROVE a \in ToSet(c)
    <3>1. PICK i \in DOMAIN s : s[i] = a
      BY <1>1, <2>2
    <3> QED
      BY <1>6, <3>1 DEF ToSet
  <2>3. ASSUME a \in ToSet(t) PROVE a \in ToSet(c)
    <3>1. PICK i \in DOMAIN t : t[i] = a
      BY <1>1, <2>3
    <3> QED
      BY <1>6, <3>1 DEF ToSet
  <2> QED
    BY <2>1, <2>2, <2>3
<1> QED
  BY <1>2, <1>7, <1>8

(* One of pages is no longer than there are pages.                         *)
LEMMA NoLonger ==
    ASSUME NEW T, IsFiniteSet(T), NEW s \in Seq(T), IsInjective(s)
    PROVE  Len(s) <= Cardinality(T) /\ (Len(s) = Cardinality(T) => ToSet(s) = T)
<1>1. Len(s) \in Nat /\ s \in [1 .. Len(s) -> T] /\ DOMAIN s = 1 .. Len(s)
  BY LenProperties
<1>2. s \in Injection(1 .. Len(s), T)
  BY <1>1 DEF Injection
<1>3. Cardinality(1 .. Len(s)) = Len(s)
  BY <1>1, FS_Interval
<1>4. /\ Len(s) <= Cardinality(T)
      /\ Len(s) = Cardinality(T) <=> s \in Surjection(1 .. Len(s), T)
  BY <1>2, <1>3, FS_Injection
<1>5. s \in Surjection(1 .. Len(s), T) => ToSet(s) = T
  BY <1>1 DEF Surjection, ToSet
<1> QED
  BY <1>4, <1>5

(* What is left of one after its first n elements.                         *)
LEMMA PopLeaves ==
    ASSUME NEW S, NEW s \in Seq(S), IsInjective(s), NEW n \in Nat, n <= Len(s),
           NEW d, d = Popped(s, n)
    PROVE  /\ d \in Seq(S) /\ IsInjective(d) /\ Len(d) = Len(s) - n
           /\ \A i \in DOMAIN d : n + i \in DOMAIN s /\ d[i] = s[n + i]
           /\ \A a : a \in ToSet(d) <=> \E i \in DOMAIN s : i > n /\ a = s[i]
<1>1. /\ DOMAIN s = 1 .. Len(s) /\ Len(s) \in Nat
  BY ElementsOf
<1>2. /\ d \in Seq(S) /\ DOMAIN d = 1 .. Len(s) - n /\ Len(d) = Len(s) - n
      /\ \A i \in DOMAIN d : n + i \in DOMAIN s /\ d[i] = s[n + i]
      /\ \A i \in DOMAIN s : i > n => i - n \in DOMAIN d /\ d[i - n] = s[i]
  <2>1. n <= Len(s) + 1
    BY <1>1
  <2> QED
    BY <2>1, DropFirst DEF Popped
<1> DEFINE l == Len(s)
<1>3. l \in Nat /\ DOMAIN d = 1 .. l - n
  BY <1>1, <1>2
<1> HIDE DEF l
<1>4. IsInjective(d)
  <2> SUFFICES ASSUME NEW i \in DOMAIN d, NEW j \in DOMAIN d, d[i] = d[j]
               PROVE  i = j
    BY DEF IsInjective
  <2>1. n + i = n + j
    BY <1>2 DEF IsInjective
  <2> QED
    BY <1>3, <2>1
<1>5. ASSUME NEW a
      PROVE  a \in ToSet(d) <=> \E i \in DOMAIN s : i > n /\ a = s[i]
  <2>1. a \in ToSet(d) => \E i \in DOMAIN s : i > n /\ a = s[i]
    <3> HAVE a \in ToSet(d)
    <3>1. PICK i \in DOMAIN d : d[i] = a
      BY DEF ToSet
    <3>2. n + i > n
      BY <1>3
    <3> QED
      BY <1>2, <3>1, <3>2
  <2>2. ASSUME NEW i \in DOMAIN s, i > n, a = s[i]
        PROVE  a \in ToSet(d)
    BY <1>2, <2>2 DEF ToSet
  <2> QED
    BY <2>1, <2>2
<1> QED
  BY <1>2, <1>4, <1>5

(* The first element, and what is left without it.                         *)
LEMMA PopOne ==
    ASSUME NEW S, NEW s \in Seq(S), IsInjective(s), s # <<>>, NEW d, d = Popped(s, 1)
    PROVE  /\ d \in Seq(S) /\ IsInjective(d)
           /\ s[1] \in S /\ s[1] \in ToSet(s)
           /\ \A a : a \in ToSet(d) <=> a \in ToSet(s) /\ a # s[1]
<1>1. /\ DOMAIN s = 1 .. Len(s) /\ Len(s) \in Nat /\ Len(s) # 0
      /\ \A i \in DOMAIN s : s[i] \in S /\ s[i] \in ToSet(s)
      /\ \A a \in ToSet(s) : \E i \in DOMAIN s : s[i] = a
  BY ElementsOf
<1>2. 1 \in DOMAIN s /\ 1 <= Len(s) /\ \A i \in DOMAIN s : i > 1 <=> i # 1
  BY <1>1
<1>3. /\ d \in Seq(S) /\ IsInjective(d)
      /\ \A a : a \in ToSet(d) <=> \E i \in DOMAIN s : i > 1 /\ a = s[i]
  <2> DEFINE one == 1
  <2>1. one \in Nat /\ one <= Len(s) /\ d = Popped(s, one)
    BY <1>2
  <2> HIDE DEF one
  <2>2. /\ d \in Seq(S) /\ IsInjective(d)
        /\ \A a : a \in ToSet(d) <=> \E i \in DOMAIN s : i > one /\ a = s[i]
    BY <2>1, PopLeaves
  <2> QED
    BY <2>2 DEF one
<1>4. \A a : a \in ToSet(d) <=> a \in ToSet(s) /\ a # s[1]
  <2> TAKE a
  <2>1. ASSUME a \in ToSet(d) PROVE a \in ToSet(s) /\ a # s[1]
    <3>1. PICK i \in DOMAIN s : i > 1 /\ a = s[i]
      BY <1>3, <2>1
    <3> QED
      BY <1>1, <1>2, <3>1 DEF IsInjective
  <2>2. ASSUME a \in ToSet(s), a # s[1] PROVE a \in ToSet(d)
    <3>1. PICK i \in DOMAIN s : s[i] = a
      BY <1>1, <2>2
    <3>2. i > 1
      BY <1>2, <2>2, <3>1
    <3> QED
      BY <1>3, <3>1, <3>2
  <2> QED
    BY <2>1, <2>2
<1> QED
  BY <1>1, <1>2, <1>3, <1>4

(* The first two.                                                          *)
LEMMA PopTwo ==
    ASSUME NEW S, NEW s \in Seq(S), IsInjective(s), Len(s) >= 2, NEW d, d = Popped(s, 2)
    PROVE  /\ d \in Seq(S) /\ IsInjective(d) /\ s[1] # s[2]
           /\ s[1] \in S /\ s[1] \in ToSet(s) /\ s[2] \in S /\ s[2] \in ToSet(s)
           /\ \A a : a \in ToSet(d) <=> a \in ToSet(s) /\ a # s[1] /\ a # s[2]
<1>1. /\ DOMAIN s = 1 .. Len(s) /\ Len(s) \in Nat
      /\ \A i \in DOMAIN s : s[i] \in S /\ s[i] \in ToSet(s)
      /\ \A a \in ToSet(s) : \E i \in DOMAIN s : s[i] = a
  BY ElementsOf
<1>2. 1 \in DOMAIN s /\ 2 \in DOMAIN s /\ \A i \in DOMAIN s : i > 2 <=> i # 1 /\ i # 2
  BY <1>1
<1>3. s[1] # s[2]
  <2>1. s[1] = s[2] => 1 = 2
    BY <1>2 DEF IsInjective
  <2> QED
    BY <2>1
<1>4. /\ d \in Seq(S) /\ IsInjective(d)
      /\ \A a : a \in ToSet(d) <=> \E i \in DOMAIN s : i > 2 /\ a = s[i]
  <2> DEFINE two == 2
  <2>1. two \in Nat /\ two <= Len(s) /\ d = Popped(s, two)
    BY <1>1
  <2> HIDE DEF two
  <2>2. /\ d \in Seq(S) /\ IsInjective(d)
        /\ \A a : a \in ToSet(d) <=> \E i \in DOMAIN s : i > two /\ a = s[i]
    BY <2>1, PopLeaves
  <2> QED
    BY <2>2 DEF two
<1>5. \A a : a \in ToSet(d) <=> a \in ToSet(s) /\ a # s[1] /\ a # s[2]
  <2> TAKE a
  <2>1. ASSUME a \in ToSet(d) PROVE a \in ToSet(s) /\ a # s[1] /\ a # s[2]
    <3>1. PICK i \in DOMAIN s : i > 2 /\ a = s[i]
      BY <1>4, <2>1
    <3> QED
      BY <1>1, <1>2, <3>1 DEF IsInjective
  <2>2. ASSUME a \in ToSet(s), a # s[1], a # s[2] PROVE a \in ToSet(d)
    <3>1. PICK i \in DOMAIN s : s[i] = a
      BY <1>1, <2>2
    <3>2. i > 2
      BY <1>2, <2>2, <3>1
    <3> QED
      BY <1>4, <3>1, <3>2
  <2> QED
    BY <2>1, <2>2
<1> QED
  BY <1>1, <1>2, <1>3, <1>4, <1>5

(* What is stored on a stack that holds none of it fits: store_page and    *)
(* store_stack_page never refuse a page (memoryAllocator.c:40-51, 79-89).  *)
LEMMA StoredFits ==
    ASSUME NEW T, IsFiniteSet(T), NEW s \in Seq(T), NEW new \in Seq(T),
           IsInjective(s), IsInjective(new), ToSet(new) \cap ToSet(s) = {},
           NEW d, d = Stored(s, new, Cardinality(T))
    PROVE  /\ d \in Seq(T) /\ IsInjective(d)
           /\ \A a : a \in ToSet(d) <=> a \in ToSet(new) \/ a \in ToSet(s)
<1> DEFINE c == new \o s
<1>1. /\ c \in Seq(T) /\ IsInjective(c) /\ Len(c) = Len(new) + Len(s)
      /\ \A a : a \in ToSet(c) <=> a \in ToSet(new) \/ a \in ToSet(s)
  BY Joined
<1>2. Len(c) <= Cardinality(T)
  BY <1>1, NoLonger
<1>3. Len(new) \in Nat /\ Len(s) \in Nat /\ Cardinality(T) \in Nat
  BY LenProperties, FS_CardinalityType
<1>4. Len(new) <= Cardinality(T) - Len(s)
  BY <1>1, <1>2, <1>3
<1>5. d = c
  BY <1>4 DEF Stored
<1> QED
  BY <1>1, <1>5

(* A set written down in any order.                                        *)
LEMMA Listed ==
    ASSUME NEW S, IsFiniteSet(S), NEW f \in SetToSeqs(S)
    PROVE  f \in Seq(S) /\ IsInjective(f) /\ ToSet(f) = S
<1>1. Cardinality(S) \in Nat
  BY FS_CardinalityType
<1>2. f \in [1 .. Cardinality(S) -> S] /\ \A i, j \in 1 .. Cardinality(S) : i # j => f[i] # f[j]
  BY DEF SetToSeqs
<1>3. f \in Seq(S) /\ Len(f) = Cardinality(S) /\ DOMAIN f = 1 .. Cardinality(S)
  BY <1>1, <1>2, FunctionIsSeq
<1>4. IsInjective(f)
  BY <1>2, <1>3 DEF IsInjective
<1> QED
  BY <1>3, <1>4, NoLonger

(* Sequences of one and of two elements.                                   *)
LEMMA OneOrTwo ==
    ASSUME NEW S, NEW a \in S, NEW b \in S
    PROVE  /\ <<a>> \in Seq(S) /\ IsInjective(<<a>>) /\ ToSet(<<a>>) = {a}
           /\ <<a, b>> \in Seq(S) /\ ToSet(<<a, b>>) = {a, b}
           /\ a # b => IsInjective(<<a, b>>)
BY DEF IsInjective, ToSet

(* One that is read from its end.                                          *)
LEMMA Reversed ==
    ASSUME NEW S, NEW s \in Seq(S), IsInjective(s), NEW r, r = Reverse(s)
    PROVE  r \in Seq(S) /\ IsInjective(r) /\ ToSet(r) = ToSet(s)
<1>1. /\ DOMAIN s = 1 .. Len(s) /\ Len(s) \in Nat
      /\ \A i \in DOMAIN s : s[i] \in S
  BY ElementsOf
<1> DEFINE l == Len(s)
<1>2. /\ r = [i \in 1 .. l |-> s[(l - i) + 1]] /\ l \in Nat
      /\ DOMAIN s = 1 .. l
  BY <1>1 DEF Reverse
<1> HIDE DEF l
<1>3. \A i \in 1 .. l : (l - i) + 1 \in DOMAIN s
  BY <1>2
<1>4. r \in [1 .. l -> S]
  BY <1>1, <1>2, <1>3
<1>5. r \in Seq(S) /\ DOMAIN r = 1 .. l
  BY <1>2, <1>4, FunctionIsSeq
<1>6. IsInjective(r)
  <2> SUFFICES ASSUME NEW i \in 1 .. l, NEW j \in 1 .. l, r[i] = r[j]
               PROVE  i = j
    BY <1>5 DEF IsInjective
  <2>1. (l - i) + 1 = (l - j) + 1
    BY <1>2, <1>3 DEF IsInjective
  <2> QED
    BY <1>2, <2>1
<1>7. ASSUME NEW a \in ToSet(s)
      PROVE  a \in ToSet(r)
  <2>1. PICK i \in DOMAIN s : s[i] = a
    BY DEF ToSet
  <2>2. (l - i) + 1 \in 1 .. l /\ (l - ((l - i) + 1)) + 1 = i
    BY <1>2
  <2>3. r[(l - i) + 1] = a
    BY <1>2, <2>1, <2>2
  <2> QED
    BY <1>5, <2>2, <2>3 DEF ToSet
<1>8. ToSet(r) \subseteq ToSet(s)
  BY <1>2, <1>3, <1>5 DEF ToSet
<1> QED
  BY <1>5, <1>6, <1>7, <1>8

-----------------------------------------------------------------------------
(* The inductive invariant. *)

Kind == {"stack", "sleeping", "queue", "abandoned", "pcb", "node", "request", "reserved"}
User == Proc \cup {NULL}

(* What page a is used as, and by which process, if by one.                *)
UsedAs(a, kind, p) ==
    \/ kind = "stack" /\ p = NULL /\ a \in ToSet(pages)
    \/ kind = "sleeping" /\ p = NULL /\ a \in sleeping
    \/ kind = "queue" /\ p = NULL /\ a \in ToSet(queue)
    \/ kind = "abandoned" /\ p = NULL /\ a \in abandoned
    \/ p \in Proc /\ \/ kind = "pcb" /\ pcb[p] = a
                     \/ kind = "node" /\ node[p] = a
                     \/ kind = "request" /\ request[p] = a
                     \/ kind = "reserved" /\ a \in reserved[p]

OneUse ==
    \A a \in Page : \A k1, k2 \in Kind, p1, p2 \in User :
        UsedAs(a, k1, p1) /\ UsedAs(a, k2, p2) => k1 = k2 /\ p1 = p2

SomeUse == \A a \in Page : \E kind \in Kind, p \in User : UsedAs(a, kind, p)

MemTypes ==
    /\ pages \in Seq(Page) /\ queue \in Seq(Page) /\ stacks \in Seq(StackPage)
    /\ pcb \in [Proc -> Page \cup {NULL}] /\ node \in [Proc -> Page \cup {NULL}]
    /\ request \in [Proc -> Page \cup {NULL}]
    /\ stack_page \in [Proc -> StackPage \cup {NULL}]
    /\ reserved \in [Proc -> SUBSET Page] /\ data_page \in [Proc -> SUBSET Page]
    /\ sleeping \subseteq Page /\ abandoned \subseteq Page

(* A process has all of its pages, and what is none has nothing.           *)
Consistent ==
    \A p \in Proc :
        /\ data_page[p] \subseteq reserved[p]
        /\ Exists(p) => node[p] # NULL /\ stack_page[p] # NULL
        /\ ~Exists(p) => /\ node[p] = NULL /\ stack_page[p] = NULL /\ request[p] = NULL
                         /\ reserved[p] = {}

NoRepetition == IsInjective(pages) /\ IsInjective(queue)

StacksHaveOneUser ==
    /\ IsInjective(stacks)
    /\ \A p \in Proc : Exists(p) =>
         /\ stack_page[p] \notin ToSet(stacks)
         /\ \A q \in Proc \ {p} : stack_page[p] # stack_page[q]

MemInv == MemTypes /\ Consistent /\ NoRepetition /\ StacksHaveOneUser /\ OneUse

(* Every page a program reserved is in its control block.                  *)
AllListed == data_page = reserved

-----------------------------------------------------------------------------
(* What a step does with a page. *)

Stays(a) == \A kind \in Kind, u \in User : UsedAs(a, kind, u)' <=> UsedAs(a, kind, u)
Moved(a, k, p) == \A kind \in Kind, u \in User : UsedAs(a, kind, u)' <=> kind = k /\ u = p
Lost(a) == \A kind \in Kind, u \in User : ~UsedAs(a, kind, u)'

Tracked(a) == Stays(a) \/ \E k \in Kind, p \in User : Moved(a, k, p)

(* Pages that move to one use each still have one.                         *)
LEMMA MovesKeep ==
    ASSUME OneUse, \A a \in Page : Tracked(a) \/ Lost(a)
    PROVE  OneUse'
BY DEF OneUse, Tracked, Stays, Moved, Lost, Page

(* As long as none is lost every page has some.                            *)
LEMMA MovesFind ==
    ASSUME SomeUse, \A a \in Page : Tracked(a)
    PROVE  SomeUse'
BY DEF SomeUse, Tracked, Stays, Moved, Page

(* There are as many pages as entries in the arrays.                       *)
LEMMA PagesAreCounted ==
    /\ IsFiniteSet(Page) /\ Cardinality(Page) = STACK_SIZE
    /\ IsFiniteSet(StackPage) /\ Cardinality(StackPage) = MAX_PROCESSES
    /\ NULL \notin Page /\ NULL \notin StackPage
<1>1. STACK_SIZE - 1 \in Int /\ MAX_PROCESSES \in Int /\ 0 \in Int /\ 1 \in Int
  BY SizeAssumption
<1>2. IsFiniteSet(Page) /\ Cardinality(Page) = STACK_SIZE
  BY <1>1, FS_Interval, SizeAssumption DEF Page
<1>3. IsFiniteSet(StackPage) /\ Cardinality(StackPage) = MAX_PROCESSES
  BY <1>1, FS_Interval, SizeAssumption DEF StackPage
<1> QED
  BY <1>2, <1>3, SizeAssumption DEF Page, StackPage

(* get_page takes the first of the stack (memoryAllocator.c:31-38).        *)
LEMMA GetPage ==
    ASSUME MemTypes, NoRepetition, get_page
    PROVE  /\ pages' \in Seq(Page) /\ IsInjective(pages')
           /\ pages[1] \in Page /\ pages[1] \in ToSet(pages)
           /\ \A a : a \in ToSet(pages') <=> a \in ToSet(pages) /\ a # pages[1]
<1>1. pages \in Seq(Page) /\ IsInjective(pages) /\ pages # <<>> /\ pages' = Popped(pages, 1)
  BY DEF MemTypes, NoRepetition, get_page
<1> QED
  BY <1>1, PopOne

(* create_process takes the first two (process.c).                         *)
LEMMA GetTwoPages ==
    ASSUME MemTypes, NoRepetition, Len(pages) >= 2, pages' = Popped(pages, 2)
    PROVE  /\ pages' \in Seq(Page) /\ IsInjective(pages')
           /\ pages[1] \in Page /\ pages[1] \in ToSet(pages)
           /\ pages[2] \in Page /\ pages[2] \in ToSet(pages) /\ pages[1] # pages[2]
           /\ \A a : a \in ToSet(pages') <=> a \in ToSet(pages) /\ a # pages[1] /\ a # pages[2]
<1>1. pages \in Seq(Page) /\ IsInjective(pages)
  BY DEF MemTypes, NoRepetition
<1> QED
  BY <1>1, PopTwo

(* get_stack_page does the same with the stacks (memoryAllocator.c:67-77). *)
LEMMA GetStackPage ==
    ASSUME MemTypes, StacksHaveOneUser, get_stack_page
    PROVE  /\ stacks' \in Seq(StackPage) /\ IsInjective(stacks')
           /\ stacks[1] \in StackPage /\ stacks[1] \in ToSet(stacks)
           /\ \A a : a \in ToSet(stacks') <=> a \in ToSet(stacks) /\ a # stacks[1]
<1>1. stacks \in Seq(StackPage) /\ IsInjective(stacks) /\ stacks # <<>> /\ stacks' = Popped(stacks, 1)
  BY DEF MemTypes, StacksHaveOneUser, get_stack_page
<1> QED
  BY <1>1, PopOne

(* What is stored is on the stack from then on.                            *)
LEMMA StorePages ==
    ASSUME MemTypes, NoRepetition, NEW new \in Seq(Page), IsInjective(new),
           ToSet(new) \cap ToSet(pages) = {}, store_pages(new)
    PROVE  /\ pages' \in Seq(Page) /\ IsInjective(pages')
           /\ \A a : a \in ToSet(pages') <=> a \in ToSet(new) \/ a \in ToSet(pages)
<1> DEFINE d == pages'
<1>1. d = Stored(pages, new, Cardinality(Page))
  BY PagesAreCounted DEF store_pages
<1> HIDE DEF d
<1>2. /\ d \in Seq(Page) /\ IsInjective(d)
      /\ \A a : a \in ToSet(d) <=> a \in ToSet(new) \/ a \in ToSet(pages)
  <2>1. pages \in Seq(Page) /\ IsInjective(pages) /\ IsFiniteSet(Page)
    BY PagesAreCounted DEF MemTypes, NoRepetition
  <2> QED
    BY <1>1, <2>1, StoredFits
<1> QED
  BY <1>2 DEF d

(* Storing one page that is not on the stack.                              *)
LEMMA StorePage ==
    ASSUME MemTypes, NoRepetition, NEW b \in Page, b \notin ToSet(pages), store_page(b)
    PROVE  /\ pages' \in Seq(Page) /\ IsInjective(pages')
           /\ \A a : a \in ToSet(pages') <=> a = b \/ a \in ToSet(pages)
<1>1. /\ <<b>> \in Seq(Page) /\ IsInjective(<<b>>) /\ ToSet(<<b>>) = {b}
      /\ store_pages(<<b>>) /\ ToSet(<<b>>) \cap ToSet(pages) = {}
  <2>1. <<b>> \in Seq(Page) /\ IsInjective(<<b>>) /\ ToSet(<<b>>) = {b}
    BY OneOrTwo
  <2> QED
    BY <2>1 DEF store_page
<1>2. /\ pages' \in Seq(Page) /\ IsInjective(pages')
      /\ \A a : a \in ToSet(pages') <=> a \in ToSet(<<b>>) \/ a \in ToSet(pages)
  BY <1>1, StorePages
<1> QED
  BY <1>1, <1>2

(* A page on the stack is used for nothing else.                           *)
LEMMA OnStackOnly ==
    ASSUME OneUse, NEW a \in Page, a \in ToSet(pages)
    PROVE  \A kind \in Kind, u \in User : UsedAs(a, kind, u) <=> kind = "stack" /\ u = NULL
<1>1. "stack" \in Kind /\ NULL \in User /\ UsedAs(a, "stack", NULL)
  BY DEF Kind, User, UsedAs
<1> QED
  BY <1>1 DEF OneUse

(* Nor is one that is used for something on the stack.                     *)
LEMMA UsedIsOffStack ==
    ASSUME OneUse, NEW a \in Page, NEW kind \in Kind \ {"stack"}, NEW u \in User, UsedAs(a, kind, u)
    PROVE  a \notin ToSet(pages)
BY OnStackOnly

(* But for the stack, the step only puts page g to one use.                *)
Puts(g, kind, p) ==
    \A a \in Page, k \in Kind \ {"stack"}, u \in User :
        UsedAs(a, k, u)' <=> UsedAs(a, k, u) \/ (a = g /\ k = kind /\ u = p)

(* A step that takes a page for one use moves it from the stack to there.  *)
LEMMA Taking ==
    ASSUME MemInv, get_page, NEW g, g = pages[1],
           NEW kind, kind \in Kind, kind # "stack", NEW p, p \in User,
           Puts(g, kind, p)
    PROVE  \A a \in Page : Tracked(a)
<1>a. \A a \in Page, k \in Kind \ {"stack"}, u \in User :
         UsedAs(a, k, u)' <=> UsedAs(a, k, u) \/ (a = g /\ k = kind /\ u = p)
  BY DEF Puts
<1>1. \A a : a \in ToSet(pages') <=> a \in ToSet(pages) /\ a # g
  BY GetPage DEF MemInv
<1>2. g \in Page /\ g \in ToSet(pages)
  BY GetPage DEF MemInv
<1>3. \A k \in Kind, u \in User : UsedAs(g, k, u) => k = "stack" /\ u = NULL
  BY <1>2, OnStackOnly DEF MemInv
<1> SUFFICES ASSUME NEW a \in Page PROVE Tracked(a)
  OBVIOUS
<1>4. \A u \in User : UsedAs(a, "stack", u)' <=> UsedAs(a, "stack", u) /\ a # g
  BY <1>1 DEF UsedAs
<1>5. CASE a = g
  <2>1. Moved(a, kind, p)
    BY <1>a, <1>3, <1>4, <1>5 DEF Moved
  <2> QED
    BY <2>1 DEF Tracked
<1>6. CASE a # g
  <2>1. Stays(a)
    BY <1>a, <1>4, <1>6 DEF Stays
  <2> QED
    BY <2>1 DEF Tracked
<1> QED
  BY <1>5, <1>6

(* A step that stores the pages of M moves them to the stack.              *)
LEMMA Storing ==
    ASSUME MemInv, NEW M \in SUBSET Page,
           \A a : a \in ToSet(pages') <=> a \in M \/ a \in ToSet(pages),
           \A a \in Page, k \in Kind \ {"stack"}, u \in User :
               UsedAs(a, k, u)' <=> UsedAs(a, k, u) /\ a \notin M
    PROVE  \A a \in Page : Tracked(a)
<1> SUFFICES ASSUME NEW a \in Page PROVE Tracked(a)
  OBVIOUS
<1>1. \A u \in User : UsedAs(a, "stack", u)' <=> u = NULL /\ (a \in M \/ a \in ToSet(pages))
  BY DEF UsedAs
<1>2. \A u \in User : UsedAs(a, "stack", u) <=> u = NULL /\ a \in ToSet(pages)
  BY DEF UsedAs
<1>3. CASE a \in M
  <2>1. Moved(a, "stack", NULL)
    BY <1>1, <1>3 DEF Moved
  <2>2. "stack" \in Kind /\ NULL \in User
    BY DEF Kind, User
  <2> QED
    BY <2>1, <2>2 DEF Tracked
<1>4. CASE a \notin M
  <2>1. Stays(a)
    BY <1>1, <1>2, <1>4 DEF Stays
  <2> QED
    BY <2>1 DEF Tracked
<1> QED
  BY <1>3, <1>4

-----------------------------------------------------------------------------
(* The steps. *)

(* At the start every page is on the stack, page 0 last, and every stack   *)
(* page too.                                                               *)
LEMMA InitIsFine == Init => MemInv /\ SomeUse /\ AllListed
<1> SUFFICES ASSUME Init PROVE MemInv /\ SomeUse /\ AllListed
  OBVIOUS
<1>1. /\ pages = [i \in 1 .. STACK_SIZE |-> IF i < STACK_SIZE THEN i ELSE 0]
      /\ stacks = [i \in 1 .. MAX_PROCESSES |-> i]
      /\ STACK_SIZE \in Nat \ {0} /\ MAX_PROCESSES \in Nat
  BY SizeAssumption DEF Init, initialize_memory_allocator, initialize_stack_memory_allocator
<1>2. pages \in [1 .. STACK_SIZE -> Page] /\ stacks \in [1 .. MAX_PROCESSES -> StackPage]
  BY <1>1 DEF Page, StackPage
<1>3. pages \in Seq(Page) /\ stacks \in Seq(StackPage)
  BY <1>1, <1>2, FunctionIsSeq
<1>4. IsInjective(pages) /\ IsInjective(stacks)
  BY <1>1 DEF IsInjective
<1>5. Page \subseteq ToSet(pages)
  <2> SUFFICES ASSUME NEW a \in Page PROVE a \in ToSet(pages)
    OBVIOUS
  <2> DEFINE i == IF a = 0 THEN STACK_SIZE ELSE a
  <2>1. i \in 1 .. STACK_SIZE /\ pages[i] = a
    BY <1>1 DEF Page
  <2> QED
    BY <1>1, <2>1 DEF ToSet
<1>6. /\ \A p \in Proc : /\ pcb[p] = NULL /\ node[p] = NULL /\ stack_page[p] = NULL
                         /\ request[p] = NULL /\ reserved[p] = {} /\ data_page[p] = {}
      /\ sleeping = {} /\ queue = <<>> /\ abandoned = {}
      /\ ToSet(queue) = {}
  BY DEF Init, ToSet
<1>7. MemTypes
  BY <1>3 DEF Init, MemTypes
<1>8. Consistent /\ NoRepetition /\ StacksHaveOneUser /\ AllListed
  BY <1>4, <1>6 DEF Init, Consistent, NoRepetition, StacksHaveOneUser, AllListed, Exists, IsInjective
<1>9. \A a \in Page, kind \in Kind, u \in User : UsedAs(a, kind, u) <=> kind = "stack" /\ u = NULL
  BY <1>5, <1>6, PagesAreCounted DEF UsedAs
<1>10. OneUse /\ SomeUse
  BY <1>9 DEF OneUse, SomeUse, Kind, User
<1> QED
  BY <1>7, <1>8, <1>10 DEF MemInv

(* malloc: a page of the stack is the program's (systemCalls.c:80-90).     *)
LEMMA MallocKeeps ==
    ASSUME MemInv, NEW p \in Proc, sys_malloc(p)
    PROVE  /\ MemInv' /\ \A a \in Page : Tracked(a)
           /\ MaxReserved <= MAX_DATA_PAGES /\ AllListed => AllListed'
<1> USE DEF MemInv
<1>1. /\ Exists(p) /\ get_page /\ Cardinality(reserved[p]) < MaxReserved
      /\ UNCHANGED <<stacks, pcb, node, stack_page, request, sleeping, queue, abandoned>>
      /\ \/ Cardinality(data_page[p]) >= MAX_DATA_PAGES /\ data_page' = data_page
         \/ data_page' = [data_page EXCEPT ![p] = @ \cup {pages[1]}]
      /\ Cardinality(data_page[p]) < MAX_DATA_PAGES =>
           data_page' = [data_page EXCEPT ![p] = @ \cup {pages[1]}]
  <2>1. Cardinality(data_page[p]) < MAX_DATA_PAGES \/ Cardinality(data_page[p]) >= MAX_DATA_PAGES
    <3>1. data_page[p] \subseteq Page
      BY DEF MemTypes
    <3>2. IsFiniteSet(data_page[p])
      BY <3>1, PagesAreCounted, FS_Subset
    <3>3. Cardinality(data_page[p]) \in Nat
      BY <3>2, FS_CardinalityType
    <3> QED
      BY <3>3, SizeAssumption
  <2>2. /\ Exists(p) /\ get_page /\ Cardinality(reserved[p]) < MaxReserved
        /\ UNCHANGED <<stacks, pcb, node, stack_page, request, sleeping, queue, abandoned>>
        /\ add_data_page(p, pages[1])
    BY DEF sys_malloc, Runs, procs, kernel
  <2> QED
    BY <2>1, <2>2 DEF add_data_page
<1>2. PICK g \in Page : g = pages[1]
  BY <1>1, GetPage
<1>3. reserved' = [reserved EXCEPT ![p] = @ \cup {g}]
  BY <1>2 DEF sys_malloc
<1>4. /\ pages' \in Seq(Page) /\ IsInjective(pages')
  BY <1>1, GetPage
<1>5. \A q \in Proc : reserved'[q] = IF q = p THEN reserved[p] \cup {g} ELSE reserved[q]
  BY <1>3 DEF MemTypes
<1>6. MemTypes'
  BY <1>1, <1>2, <1>3, <1>4 DEF MemTypes
<1>7. \A q \in Proc : data_page'[q] \subseteq reserved'[q]
  BY <1>1, <1>2, <1>5 DEF MemTypes, Consistent
<1>8. Consistent' /\ NoRepetition' /\ StacksHaveOneUser'
  BY <1>1, <1>4, <1>5, <1>7 DEF Consistent, NoRepetition, StacksHaveOneUser, Exists
<1>9. Puts(g, "reserved", p)
  BY <1>1, <1>5 DEF UsedAs, Puts
<1>10. \A a \in Page : Tracked(a)
  <2>1. "reserved" \in Kind /\ "reserved" # "stack" /\ p \in User
    BY DEF Kind, User
  <2> QED
    BY <1>1, <1>2, <1>9, <2>1, Taking
<1>11. ASSUME MaxReserved <= MAX_DATA_PAGES, AllListed
       PROVE  AllListed'
  <2>1. Cardinality(data_page[p]) \in Nat
    BY PagesAreCounted, FS_Subset, FS_CardinalityType DEF MemTypes
  <2>2. Cardinality(data_page[p]) < MAX_DATA_PAGES
    BY <1>1, <1>11, <2>1, SizeAssumption DEF AllListed
  <2> QED
    BY <1>1, <1>2, <1>3, <1>11, <2>2 DEF AllListed
<1> QED
  BY <1>6, <1>8, <1>10, <1>11, MovesKeep

(* free: the page goes back (systemCalls.c).                               *)
LEMMA FreeKeeps ==
    ASSUME MemInv, NEW p \in Proc, NEW b \in Page, sys_free(p, b)
    PROVE  MemInv' /\ (\A a \in Page : Tracked(a)) /\ (AllListed => AllListed')
<1> USE DEF MemInv
<1>1. /\ Exists(p) /\ b \in reserved[p] /\ store_page(b)
      /\ UNCHANGED <<stacks, pcb, node, stack_page, request, sleeping, queue, abandoned>>
      /\ reserved' = [reserved EXCEPT ![p] = @ \ {b}]
      /\ data_page' = [data_page EXCEPT ![p] = @ \ {b}]
  BY DEF sys_free, Runs, procs, kernel, remove_data_page
<1>2. "reserved" \in Kind \ {"stack"} /\ p \in User /\ UsedAs(b, "reserved", p)
  BY <1>1 DEF Kind, User, UsedAs
<1>3. b \notin ToSet(pages) /\ \A k \in Kind, u \in User : UsedAs(b, k, u) => k = "reserved" /\ u = p
  BY <1>2, UsedIsOffStack DEF OneUse
<1>4. /\ pages' \in Seq(Page) /\ IsInjective(pages')
      /\ \A a : a \in ToSet(pages') <=> a = b \/ a \in ToSet(pages)
  BY <1>1, <1>3, StorePage
<1>5. \A q \in Proc : /\ reserved'[q] = IF q = p THEN reserved[p] \ {b} ELSE reserved[q]
                      /\ data_page'[q] = IF q = p THEN data_page[p] \ {b} ELSE data_page[q]
  BY <1>1 DEF MemTypes
<1>6. MemTypes'
  BY <1>1, <1>4 DEF MemTypes
<1>7. Consistent' /\ NoRepetition' /\ StacksHaveOneUser'
  BY <1>1, <1>4, <1>5 DEF Consistent, NoRepetition, StacksHaveOneUser, Exists
<1>8. \A a \in Page, k \in Kind \ {"stack"}, u \in User :
         UsedAs(a, k, u)' <=> UsedAs(a, k, u) /\ a \notin {b}
  <2>1. \A a \in Page, k \in Kind \ {"stack"}, u \in User :
           UsedAs(a, k, u)' <=> UsedAs(a, k, u) /\ ~(a = b /\ k = "reserved" /\ u = p)
    BY <1>1, <1>5 DEF UsedAs
  <2> QED
    BY <1>3, <2>1
<1>9. \A a \in Page : Tracked(a)
  BY <1>4, <1>8, Storing
<1>10. AllListed => AllListed'
  BY <1>1 DEF AllListed
<1> QED
  BY <1>6, <1>7, <1>9, <1>10, MovesKeep

(* A reader takes a page for its request.                                  *)
LEMMA RequestKeeps ==
    ASSUME MemInv, NEW p \in Proc, create_read_request(p)
    PROVE  MemInv' /\ (\A a \in Page : Tracked(a)) /\ (AllListed => AllListed')
<1> USE DEF MemInv
<1>1. /\ Exists(p) /\ request[p] = NULL /\ get_page
      /\ UNCHANGED <<stacks, pcb, node, stack_page, data_page, reserved, sleeping, queue, abandoned>>
      /\ request' = [request EXCEPT ![p] = pages[1]]
  BY DEF create_read_request, Runs, procs, kernel
<1>2. PICK g \in Page : g = pages[1]
  BY <1>1, GetPage
<1>3. pages' \in Seq(Page) /\ IsInjective(pages')
  BY <1>1, GetPage
<1>4. \A q \in Proc : request'[q] = IF q = p THEN g ELSE request[q]
  BY <1>1, <1>2 DEF MemTypes
<1>5. MemTypes'
  BY <1>1, <1>2, <1>3 DEF MemTypes
<1>6. Consistent' /\ NoRepetition' /\ StacksHaveOneUser'
  BY <1>1, <1>3, <1>4 DEF Consistent, NoRepetition, StacksHaveOneUser, Exists
<1>7. Puts(g, "request", p)
  BY <1>1, <1>4, PagesAreCounted DEF UsedAs, Puts
<1>8. \A a \in Page : Tracked(a)
  <2>1. "request" \in Kind /\ "request" # "stack" /\ p \in User
    BY DEF Kind, User
  <2> QED
    BY <1>1, <1>2, <1>7, <2>1, Taking
<1> QED
  BY <1>1, <1>5, <1>6, <1>8, MovesKeep DEF AllListed

(* sleep: a page for the entry of the list (timer.c).                      *)
LEMMA SleepKeeps ==
    ASSUME MemInv, create_sleep_process
    PROVE  MemInv' /\ (\A a \in Page : Tracked(a)) /\ (AllListed => AllListed')
<1> USE DEF MemInv
<1>1. /\ get_page /\ sleeping' = sleeping \cup {pages[1]}
      /\ UNCHANGED <<stacks, pcb, node, stack_page, data_page, reserved, request, queue, abandoned>>
  BY DEF create_sleep_process, procs
<1>2. PICK g \in Page : g = pages[1]
  BY <1>1, GetPage
<1>3. pages' \in Seq(Page) /\ IsInjective(pages')
  BY <1>1, GetPage
<1>4. MemTypes'
  BY <1>1, <1>2, <1>3 DEF MemTypes
<1>5. Consistent' /\ NoRepetition' /\ StacksHaveOneUser'
  BY <1>1, <1>3 DEF Consistent, NoRepetition, StacksHaveOneUser, Exists
<1>6. Puts(g, "sleeping", NULL)
  BY <1>1, <1>2 DEF UsedAs, Puts
<1>7. \A a \in Page : Tracked(a)
  <2>1. "sleeping" \in Kind /\ "sleeping" # "stack" /\ NULL \in User
    BY DEF Kind, User
  <2> QED
    BY <1>1, <1>2, <1>6, <2>1, Taking
<1> QED
  BY <1>1, <1>4, <1>5, <1>7, MovesKeep DEF AllListed

(* A page more at the end of the queue, or the first one of it: a page of  *)
(* the stack is not in the queue (queueADT.c).                             *)
LEMMA QueueGrows ==
    ASSUME MemInv, get_page, UNCHANGED keeps,
           (queue' = <<pages[1]>> /\ queue = <<>>) \/ queue' = Append(queue, pages[1])
    PROVE  MemInv' /\ (\A a \in Page : Tracked(a)) /\ (AllListed => AllListed')
<1> USE DEF MemInv
<1>1. UNCHANGED <<stacks, pcb, node, stack_page, data_page, reserved, request, sleeping, abandoned>>
  BY DEF keeps, procs
<1>2. PICK g \in Page : g = pages[1]
  BY GetPage
<1>3. pages' \in Seq(Page) /\ IsInjective(pages')
  BY GetPage
<1>4. g \notin ToSet(queue)
  <2>1. g \in ToSet(pages)
    BY <1>2, GetPage
  <2>2. "queue" \in Kind /\ NULL \in User /\ "queue" # "stack"
    BY DEF Kind, User
  <2>3. ~UsedAs(g, "queue", NULL)
    BY <2>1, <2>2, OnStackOnly
  <2> QED
    BY <2>3 DEF UsedAs
<1>5. /\ queue' \in Seq(Page) /\ IsInjective(queue')
      /\ \A a : a \in ToSet(queue') <=> a \in ToSet(queue) \/ a = g
  <2> DEFINE s == queue
             d == queue'
  <2>1. s \in Seq(Page) /\ IsInjective(s) /\ g \notin ToSet(s)
    BY <1>4 DEF MemTypes, NoRepetition
  <2>2. <<g>> \in Seq(Page) /\ IsInjective(<<g>>) /\ ToSet(<<g>>) = {g}
    BY OneOrTwo
  <2>3. (d = <<g>> /\ s = <<>>) \/ d = Append(s, g)
    BY <1>2
  <2> HIDE DEF s, d
  <2>4. ASSUME d = <<g>>, s = <<>>
        PROVE  d \in Seq(Page) /\ IsInjective(d) /\ \A a : a \in ToSet(d) <=> a \in ToSet(s) \/ a = g
    <3>1. ToSet(s) = {}
      BY <2>1, <2>4, ElementsOf
    <3> QED
      BY <2>2, <2>4, <3>1
  <2>5. ASSUME d = Append(s, g)
        PROVE  d \in Seq(Page) /\ IsInjective(d) /\ \A a : a \in ToSet(d) <=> a \in ToSet(s) \/ a = g
    <3>1. d = s \o <<g>>
      BY <2>1, <2>5, AppendIsConcat
    <3>2. ToSet(s) \cap ToSet(<<g>>) = {}
      BY <2>1, <2>2
    <3>3. d \in Seq(Page) /\ IsInjective(d) /\ \A a : a \in ToSet(d) <=> a \in ToSet(s) \/ a \in ToSet(<<g>>)
      BY <2>1, <2>2, <3>1, <3>2, Joined
    <3> QED
      BY <2>2, <3>3
  <2>6. d \in Seq(Page) /\ IsInjective(d) /\ \A a : a \in ToSet(d) <=> a \in ToSet(s) \/ a = g
    BY <2>3, <2>4, <2>5
  <2> QED
    BY <2>6 DEF s, d
<1>6. MemTypes'
  BY <1>1, <1>3, <1>5 DEF MemTypes
<1>7. Consistent' /\ NoRepetition' /\ StacksHaveOneUser'
  BY <1>1, <1>3, <1>5 DEF Consistent, NoRepetition, StacksHaveOneUser, Exists
<1>8. Puts(g, "queue", NULL)
  BY <1>1, <1>5 DEF UsedAs, Puts
<1>9. \A a \in Page : Tracked(a)
  <2>1. "queue" \in Kind /\ "queue" # "stack" /\ NULL \in User
    BY DEF Kind, User
  <2> QED
    BY <1>2, <1>8, <2>1, Taking
<1> QED
  BY <1>1, <1>6, <1>7, <1>9, MovesKeep DEF AllListed

(* The entry of a process that wakes goes back to the stack.               *)
LEMMA TimerKeeps ==
    ASSUME MemInv, NEW b \in Page, timer_handler(b)
    PROVE  MemInv' /\ (\A a \in Page : Tracked(a)) /\ (AllListed => AllListed')
<1> USE DEF MemInv
<1>1. /\ b \in sleeping /\ store_page(b) /\ sleeping' = sleeping \ {b}
      /\ UNCHANGED <<stacks, pcb, node, stack_page, data_page, reserved, request, queue, abandoned>>
  BY DEF timer_handler, procs
<1>2. "sleeping" \in Kind \ {"stack"} /\ NULL \in User /\ UsedAs(b, "sleeping", NULL)
  BY <1>1 DEF Kind, User, UsedAs
<1>3. b \notin ToSet(pages) /\ \A k \in Kind, u \in User : UsedAs(b, k, u) => k = "sleeping" /\ u = NULL
  BY <1>2, UsedIsOffStack DEF OneUse
<1>4. /\ pages' \in Seq(Page) /\ IsInjective(pages')
      /\ \A a : a \in ToSet(pages') <=> a = b \/ a \in ToSet(pages)
  BY <1>1, <1>3, StorePage
<1>5. MemTypes'
  BY <1>1, <1>4 DEF MemTypes
<1>6. Consistent' /\ NoRepetition' /\ StacksHaveOneUser'
  BY <1>1, <1>4 DEF Consistent, NoRepetition, StacksHaveOneUser, Exists
<1>7. \A a \in Page, k \in Kind \ {"stack"}, u \in User :
         UsedAs(a, k, u)' <=> UsedAs(a, k, u) /\ a \notin {b}
  <2>1. \A a \in Page, k \in Kind \ {"stack"}, u \in User :
           UsedAs(a, k, u)' <=> UsedAs(a, k, u) /\ ~(a = b /\ k = "sleeping" /\ u = NULL)
    BY <1>1 DEF UsedAs
  <2> QED
    BY <1>3, <2>1
<1>8. \A a \in Page : Tracked(a)
  BY <1>4, <1>7, Storing
<1> QED
  BY <1>1, <1>5, <1>6, <1>8, MovesKeep DEF AllListed

(* fifo_read: the request is stored, or the reader is released by the      *)
(* closing of its fifo and leaves it (fifo.c).                             *)
LEMMA ReadKeeps ==
    ASSUME MemInv, NEW p \in Proc, fifo_read(p)
    PROVE  MemInv' /\ (\A a \in Page : Tracked(a)) /\ (AllListed => AllListed')
<1> USE DEF MemInv
<1>1. /\ Exists(p) /\ request[p] # NULL
      /\ UNCHANGED <<stacks, pcb, node, stack_page, data_page, reserved, sleeping, queue>>
      /\ request' = [request EXCEPT ![p] = NULL]
      /\ \/ store_page(request[p]) /\ UNCHANGED abandoned
         \/ abandoned' = abandoned \cup {request[p]} /\ UNCHANGED pages
  BY DEF fifo_read, Runs, procs
<1>2. PICK b \in Page : b = request[p]
  BY <1>1 DEF MemTypes
<1>3. "request" \in Kind \ {"stack"} /\ p \in User /\ UsedAs(b, "request", p)
  BY <1>2 DEF Kind, User, UsedAs
<1>4. b \notin ToSet(pages) /\ \A k \in Kind, u \in User : UsedAs(b, k, u) => k = "request" /\ u = p
  BY <1>3, UsedIsOffStack DEF OneUse
<1>5. \A q \in Proc : request'[q] = IF q = p THEN NULL ELSE request[q]
  BY <1>1 DEF MemTypes
<1>6. CASE store_page(request[p]) /\ UNCHANGED abandoned
  <2>1. store_page(b) /\ abandoned' = abandoned
    BY <1>2, <1>6
  <2>2. /\ pages' \in Seq(Page) /\ IsInjective(pages')
        /\ \A a : a \in ToSet(pages') <=> a = b \/ a \in ToSet(pages)
    BY <1>4, <2>1, StorePage
  <2>3. MemTypes'
    BY <1>1, <2>1, <2>2 DEF MemTypes
  <2>4. Consistent' /\ NoRepetition' /\ StacksHaveOneUser'
    BY <1>1, <1>5, <2>2 DEF Consistent, NoRepetition, StacksHaveOneUser, Exists
  <2>5. \A a \in Page, k \in Kind \ {"stack"}, u \in User :
           UsedAs(a, k, u)' <=> UsedAs(a, k, u) /\ a \notin {b}
    <3>1. \A a \in Page, k \in Kind \ {"stack"}, u \in User :
             UsedAs(a, k, u)' <=> UsedAs(a, k, u) /\ ~(a = b /\ k = "request" /\ u = p)
      BY <1>1, <1>2, <1>5, <2>1, PagesAreCounted DEF UsedAs
    <3> QED
      BY <1>4, <3>1
  <2>6. \A a \in Page : Tracked(a)
    BY <2>2, <2>5, Storing
  <2> QED
    BY <1>1, <2>3, <2>4, <2>6, MovesKeep DEF AllListed
<1>7. CASE abandoned' = abandoned \cup {request[p]} /\ UNCHANGED pages
  <2>1. abandoned' = abandoned \cup {b} /\ pages' = pages
    BY <1>2, <1>7
  <2>2. MemTypes'
    BY <1>1, <2>1 DEF MemTypes
  <2>3. Consistent' /\ NoRepetition' /\ StacksHaveOneUser'
    BY <1>1, <1>5, <2>1 DEF Consistent, NoRepetition, StacksHaveOneUser, Exists
  <2>4. \A a \in Page, k \in Kind, u \in User :
           UsedAs(a, k, u)' <=> \/ UsedAs(a, k, u) /\ ~(a = b /\ k = "request" /\ u = p)
                                \/ a = b /\ k = "abandoned" /\ u = NULL
    BY <1>1, <1>2, <1>5, <2>1, PagesAreCounted DEF UsedAs
  <2>5. Moved(b, "abandoned", NULL)
    BY <1>4, <2>4 DEF Moved
  <2>6. "abandoned" \in Kind /\ NULL \in User
    BY DEF Kind, User
  <2>7. \A a \in Page : a # b => Stays(a)
    BY <2>4 DEF Stays
  <2>8. \A a \in Page : Tracked(a)
    BY <2>5, <2>6, <2>7 DEF Tracked
  <2> QED
    BY <1>1, <2>2, <2>3, <2>8, MovesKeep DEF AllListed
<1> QED
  BY <1>1, <1>6, <1>7

(* A process that leaves the queue is served from its head: the page of    *)
(* its node is stored and the rest keeps its order (queueADT.c).           *)
LEMMA DequeueKeeps ==
    ASSUME MemInv, dequeue
    PROVE  MemInv' /\ (\A a \in Page : Tracked(a)) /\ (AllListed => AllListed')
<1> USE DEF MemInv
<1>1. /\ Len(queue) > 1 /\ store_page(queue[2]) /\ queue' = <<queue[1]>> \o Popped(queue, 2)
      /\ UNCHANGED <<stacks, pcb, node, stack_page, data_page, reserved, request, sleeping, abandoned>>
  BY DEF dequeue, keeps, procs
<1> DEFINE s == queue
           d == queue'
<1>2. s \in Seq(Page) /\ IsInjective(s) /\ Len(s) > 1 /\ d = <<s[1]>> \o Popped(s, 2)
  BY <1>1 DEF MemTypes, NoRepetition
<1> HIDE DEF s, d
<1>3. /\ DOMAIN s = 1 .. Len(s) /\ Len(s) \in Nat
      /\ \A i \in DOMAIN s : s[i] \in Page /\ s[i] \in ToSet(s)
      /\ \A a \in ToSet(s) : \E i \in DOMAIN s : s[i] = a
  BY <1>2, ElementsOf
<1>4. 1 \in DOMAIN s /\ 2 \in DOMAIN s
  BY <1>2, <1>3
<1>5. PICK t : t = Popped(s, 2)
  OBVIOUS
<1>6. /\ t \in Seq(Page) /\ IsInjective(t) /\ s[1] # s[2]
      /\ s[1] \in Page /\ s[2] \in Page
      /\ \A a : a \in ToSet(t) <=> a \in ToSet(s) /\ a # s[1] /\ a # s[2]
  BY <1>2, <1>3, <1>5, PopTwo
<1>7. PICK h \in Page, b \in Page : h = s[1] /\ b = s[2]
  BY <1>6
<1>8. <<h>> \in Seq(Page) /\ IsInjective(<<h>>) /\ ToSet(<<h>>) = {h}
  BY OneOrTwo
<1>9. /\ d \in Seq(Page) /\ IsInjective(d)
      /\ \A a : a \in ToSet(d) <=> a \in ToSet(s) /\ a # b
  <2>1. d = <<h>> \o t /\ ToSet(<<h>>) \cap ToSet(t) = {}
    BY <1>2, <1>5, <1>6, <1>7, <1>8
  <2>2. d \in Seq(Page) /\ IsInjective(d) /\ \A a : a \in ToSet(d) <=> a \in ToSet(<<h>>) \/ a \in ToSet(t)
    BY <1>6, <1>8, <2>1, Joined, ZenonT(40)
  <2>3. h \in ToSet(s)
    BY <1>3, <1>4, <1>7
  <2> QED
    BY <1>6, <1>7, <1>8, <2>2, <2>3
<1>10. b \in ToSet(queue) /\ store_page(b)
  BY <1>1, <1>3, <1>4, <1>7 DEF s
<1>11. "queue" \in Kind \ {"stack"} /\ NULL \in User /\ UsedAs(b, "queue", NULL)
  BY <1>10 DEF Kind, User, UsedAs
<1>12. b \notin ToSet(pages) /\ \A k \in Kind, u \in User : UsedAs(b, k, u) => k = "queue" /\ u = NULL
  BY <1>11, UsedIsOffStack DEF OneUse
<1>13. /\ pages' \in Seq(Page) /\ IsInjective(pages')
       /\ \A a : a \in ToSet(pages') <=> a = b \/ a \in ToSet(pages)
  BY <1>10, <1>12, StorePage
<1>14. /\ queue' \in Seq(Page) /\ IsInjective(queue')
       /\ \A a : a \in ToSet(queue') <=> a \in ToSet(queue) /\ a # b
  BY <1>9 DEF s, d
<1>15. MemTypes'
  BY <1>1, <1>13, <1>14 DEF MemTypes
<1>16. Consistent' /\ NoRepetition' /\ StacksHaveOneUser'
  BY <1>1, <1>13, <1>14 DEF Consistent, NoRepetition, StacksHaveOneUser, Exists
<1>17. \A a \in Page, k \in Kind \ {"stack"}, u \in User :
          UsedAs(a, k, u)' <=> UsedAs(a, k, u) /\ a \notin {b}
  <2>1. \A a \in Page, k \in Kind \ {"stack"}, u \in User :
           UsedAs(a, k, u)' <=> UsedAs(a, k, u) /\ ~(a = b /\ k = "queue" /\ u = NULL)
    BY <1>1, <1>14 DEF UsedAs
  <2> QED
    BY <1>12, <2>1
<1>18. \A a \in Page : Tracked(a)
  BY <1>13, <1>17, Storing
<1> QED
  BY <1>1, <1>15, <1>16, <1>18, MovesKeep DEF AllListed

(* The end of a queue stores its page and those of all its nodes           *)
(* (queueADT.c:23-28).                                                     *)
LEMMA DestroyQueueKeeps ==
    ASSUME MemInv, destroy_queue
    PROVE  MemInv' /\ (\A a \in Page : Tracked(a)) /\ (AllListed => AllListed')
<1> USE DEF MemInv
<1> DEFINE s == queue
           d == Reverse(Tail(queue))
           c == <<queue[1]>> \o d
<1>1. /\ s # <<>> /\ store_pages(c) /\ queue' = <<>>
      /\ UNCHANGED <<stacks, pcb, node, stack_page, data_page, reserved, request, sleeping, abandoned>>
  BY DEF destroy_queue, keeps, procs
<1>2. s \in Seq(Page) /\ IsInjective(s)
  BY DEF MemTypes, NoRepetition
<1>3. d = Reverse(Tail(s)) /\ c = <<s[1]>> \o d
  OBVIOUS
<1> HIDE DEF s, d, c
<1>4. /\ DOMAIN s = 1 .. Len(s) /\ Len(s) \in Nat /\ Len(s) # 0
      /\ \A i \in DOMAIN s : s[i] \in Page /\ s[i] \in ToSet(s)
      /\ \A a \in ToSet(s) : \E i \in DOMAIN s : s[i] = a
  BY <1>1, <1>2, ElementsOf
<1>5. 1 \in DOMAIN s
  BY <1>4
<1>6. PICK h \in Page : h = s[1]
  BY <1>4, <1>5
<1>7. PICK t : t = Tail(s)
  OBVIOUS
<1>8. /\ t \in Seq(Page) /\ IsInjective(t)
      /\ \A a : a \in ToSet(t) <=> a \in ToSet(s) /\ a # h
  <2>1. t = SubSeq(s, 2, Len(s))
    BY <1>1, <1>2, <1>7, TailIsSubSeq
  <2>2. t = Popped(s, 1)
    BY <1>4, <2>1 DEF Popped
  <2> QED
    BY <1>1, <1>2, <1>6, <2>2, PopOne
<1>9. d \in Seq(Page) /\ IsInjective(d) /\ ToSet(d) = ToSet(t)
  BY <1>3, <1>7, <1>8, Reversed
<1>10. <<h>> \in Seq(Page) /\ IsInjective(<<h>>) /\ ToSet(<<h>>) = {h}
  BY OneOrTwo
<1>11. c \in Seq(Page) /\ IsInjective(c) /\ \A a : a \in ToSet(c) <=> a \in ToSet(s)
  <2>1. c = <<h>> \o d /\ ToSet(<<h>>) \cap ToSet(d) = {}
    BY <1>3, <1>6, <1>8, <1>9, <1>10
  <2>2. c \in Seq(Page) /\ IsInjective(c) /\ \A a : a \in ToSet(c) <=> a \in ToSet(<<h>>) \/ a \in ToSet(d)
    BY <1>9, <1>10, <2>1, Joined
  <2>3. h \in ToSet(s)
    BY <1>4, <1>5, <1>6
  <2> QED
    BY <1>8, <1>9, <1>10, <2>2, <2>3
<1>12. PICK M \in SUBSET Page : M = ToSet(queue)
  BY <1>4 DEF s
<1>13. \A b \in M : \A k \in Kind, u \in User : UsedAs(b, k, u) => k = "queue" /\ u = NULL
  <2> TAKE b \in M
  <2>1. "queue" \in Kind /\ NULL \in User /\ UsedAs(b, "queue", NULL)
    BY <1>12 DEF Kind, User, UsedAs
  <2> QED
    BY <2>1 DEF OneUse
<1>14. \A b \in M : b \notin ToSet(pages)
  <2> TAKE b \in M
  <2>1. "stack" \in Kind /\ NULL \in User /\ ~UsedAs(b, "stack", NULL)
    BY <1>13 DEF Kind, User
  <2> QED
    BY <2>1 DEF UsedAs
<1>15. /\ pages' \in Seq(Page) /\ IsInjective(pages')
       /\ \A a : a \in ToSet(pages') <=> a \in M \/ a \in ToSet(pages)
  <2>1. \A a : a \in ToSet(c) <=> a \in M
    BY <1>11, <1>12 DEF s
  <2>2. ToSet(c) \cap ToSet(pages) = {}
    BY <1>14, <2>1
  <2>3. /\ pages' \in Seq(Page) /\ IsInjective(pages')
        /\ \A a : a \in ToSet(pages') <=> a \in ToSet(c) \/ a \in ToSet(pages)
    BY <1>1, <1>11, <2>2, StorePages
  <2> QED
    BY <2>1, <2>3
<1>16. queue' \in Seq(Page) /\ IsInjective(queue') /\ ToSet(queue') = {}
  BY <1>1 DEF IsInjective, ToSet
<1>17. MemTypes'
  BY <1>1, <1>15, <1>16 DEF MemTypes
<1>18. Consistent' /\ NoRepetition' /\ StacksHaveOneUser'
  BY <1>1, <1>15, <1>16 DEF Consistent, NoRepetition, StacksHaveOneUser, Exists
<1>19. \A a \in Page, k \in Kind \ {"stack"}, u \in User :
          UsedAs(a, k, u)' <=> UsedAs(a, k, u) /\ a \notin M
  <2>1. \A a \in Page, k \in Kind \ {"stack"}, u \in User :
           UsedAs(a, k, u)' <=> UsedAs(a, k, u) /\ ~(a \in M /\ k = "queue" /\ u = NULL)
    BY <1>1, <1>12, <1>16 DEF UsedAs
  <2> QED
    BY <1>13, <2>1
<1>20. \A a \in Page : Tracked(a)
  BY <1>15, <1>19, Storing
<1> QED
  BY <1>1, <1>17, <1>18, <1>20, MovesKeep DEF AllListed

(* exec: two pages and a stack page leave their stacks (process.c).        *)
LEMMA CreateKeeps ==
    ASSUME MemInv, NEW p \in Proc, create_process(p)
    PROVE  MemInv' /\ (\A a \in Page : Tracked(a)) /\ (AllListed => AllListed')
<1> USE DEF MemInv
<1>1. /\ ~Exists(p) /\ Len(pages) >= 2 /\ pages' = Popped(pages, 2) /\ get_stack_page
      /\ pcb' = [pcb EXCEPT ![p] = pages[1]]
      /\ node' = [node EXCEPT ![p] = pages[2]]
      /\ stack_page' = [stack_page EXCEPT ![p] = stacks[1]]
      /\ UNCHANGED <<data_page, reserved, request, sleeping, queue, abandoned>>
  BY DEF create_process, kernel
<1>2. /\ pages' \in Seq(Page) /\ IsInjective(pages')
      /\ pages[1] \in Page /\ pages[1] \in ToSet(pages)
      /\ pages[2] \in Page /\ pages[2] \in ToSet(pages) /\ pages[1] # pages[2]
      /\ \A a : a \in ToSet(pages') <=> a \in ToSet(pages) /\ a # pages[1] /\ a # pages[2]
  BY <1>1, GetTwoPages
<1>3. /\ stacks' \in Seq(StackPage) /\ IsInjective(stacks')
      /\ stacks[1] \in StackPage /\ stacks[1] \in ToSet(stacks)
      /\ \A a : a \in ToSet(stacks') <=> a \in ToSet(stacks) /\ a # stacks[1]
  BY <1>1, GetStackPage
<1>4. PICK g \in Page, h \in Page, k \in StackPage : g = pages[1] /\ h = pages[2] /\ k = stacks[1]
  BY <1>2, <1>3
<1>5. \A q \in Proc : /\ pcb'[q] = IF q = p THEN g ELSE pcb[q]
                      /\ node'[q] = IF q = p THEN h ELSE node[q]
                      /\ stack_page'[q] = IF q = p THEN k ELSE stack_page[q]
  BY <1>1, <1>4 DEF MemTypes
<1>6. MemTypes'
  BY <1>1, <1>2, <1>3 DEF MemTypes
<1>7. Consistent' /\ NoRepetition'
  BY <1>1, <1>2, <1>5, PagesAreCounted DEF Consistent, NoRepetition, Exists
<1>8. StacksHaveOneUser'
  <2>1. \A q \in Proc : Exists(q) => stack_page[q] # k
    BY <1>3, <1>4 DEF StacksHaveOneUser
  <2>2. \A q \in Proc : Exists(q)' => q = p \/ Exists(q)
    BY <1>5 DEF Exists
  <2>3. ASSUME NEW q \in Proc, Exists(q)'
        PROVE  /\ stack_page'[q] \notin ToSet(stacks')
               /\ \A r \in Proc \ {q} : stack_page'[q] # stack_page'[r]
    <3>1. CASE q = p
      <4>1. stack_page'[q] \notin ToSet(stacks')
        BY <1>3, <1>4, <1>5, <3>1
      <4>2. ASSUME NEW r \in Proc \ {q} PROVE stack_page'[r] # k
        <5>1. Exists(r) => stack_page[r] # k
          BY <2>1
        <5>2. ~Exists(r) => stack_page[r] = NULL
          BY DEF Consistent
        <5> QED
          BY <1>5, <3>1, <5>1, <5>2, PagesAreCounted
      <4> QED
        BY <1>5, <3>1, <4>1, <4>2
    <3>2. CASE q # p
      <4>1. Exists(q) /\ stack_page'[q] = stack_page[q]
        BY <1>5, <2>2, <2>3, <3>2
      <4>2. /\ stack_page[q] \notin ToSet(stacks) /\ stack_page[q] # k
            /\ \A r \in Proc \ {q} : stack_page[q] # stack_page[r]
        BY <2>1, <4>1 DEF StacksHaveOneUser
      <4> QED
        BY <1>3, <1>5, <4>1, <4>2
    <3> QED
      BY <3>1, <3>2
  <2> QED
    BY <1>3, <2>3 DEF StacksHaveOneUser
<1>9. /\ \A c \in Kind, u \in User : UsedAs(g, c, u) => c = "stack" /\ u = NULL
      /\ \A c \in Kind, u \in User : UsedAs(h, c, u) => c = "stack" /\ u = NULL
  BY <1>2, <1>4, OnStackOnly
<1>10. \A a \in Page, c \in Kind, u \in User :
          UsedAs(a, c, u)' <=> \/ UsedAs(a, c, u) /\ ~(a \in {g, h} /\ c = "stack")
                               \/ a = g /\ c = "pcb" /\ u = p
                               \/ a = h /\ c = "node" /\ u = p
  <2>1. pcb[p] = NULL /\ node[p] = NULL
    BY <1>1 DEF Exists, Consistent
  <2> QED
    BY <1>1, <1>2, <1>4, <1>5, <2>1, PagesAreCounted DEF UsedAs
<1>11. "pcb" \in Kind /\ "node" \in Kind /\ p \in User
  BY DEF Kind, User
<1>12. Moved(g, "pcb", p) /\ Moved(h, "node", p)
  BY <1>2, <1>4, <1>9, <1>10 DEF Moved
<1>13. \A a \in Page \ {g, h} : Stays(a)
  BY <1>10 DEF Stays
<1>14. \A a \in Page : Tracked(a)
  BY <1>11, <1>12, <1>13 DEF Tracked
<1> QED
  BY <1>1, <1>6, <1>7, <1>8, <1>14, MovesKeep DEF AllListed

(* The stack page of a process that goes is free, and nobody else's.       *)
LEMMA StackPageStored ==
    ASSUME MemInv, NEW p \in Proc, Gone(p)
    PROVE  stacks' \in Seq(StackPage) /\ StacksHaveOneUser'
<1> USE DEF MemInv
<1>1. /\ Exists(p) /\ stacks' = Stored(stacks, <<stack_page[p]>>, MAX_PROCESSES)
      /\ pcb' = [pcb EXCEPT ![p] = NULL] /\ stack_page' = [stack_page EXCEPT ![p] = NULL]
  BY DEF Gone, store_stack_page
<1>2. PICK k \in StackPage : k = stack_page[p]
  BY <1>1 DEF MemTypes, Consistent
<1>3. k \notin ToSet(stacks)
  BY <1>1, <1>2 DEF StacksHaveOneUser
<1>4. <<k>> \in Seq(StackPage) /\ IsInjective(<<k>>) /\ ToSet(<<k>>) = {k}
  BY OneOrTwo
<1>5. /\ stacks' \in Seq(StackPage) /\ IsInjective(stacks')
      /\ \A a : a \in ToSet(stacks') <=> a = k \/ a \in ToSet(stacks)
  <2> DEFINE d == stacks'
             new == <<k>>
  <2>1. d = Stored(stacks, new, Cardinality(StackPage))
    BY <1>1, <1>2, PagesAreCounted
  <2>2. stacks \in Seq(StackPage) /\ IsInjective(stacks) /\ IsFiniteSet(StackPage)
    BY PagesAreCounted DEF MemTypes, StacksHaveOneUser
  <2>3. new \in Seq(StackPage) /\ IsInjective(new) /\ ToSet(new) = {k}
    BY <1>4
  <2> HIDE DEF d, new
  <2>4. ToSet(new) \cap ToSet(stacks) = {}
    BY <1>3, <2>3
  <2>5. /\ d \in Seq(StackPage) /\ IsInjective(d)
        /\ \A a : a \in ToSet(d) <=> a \in ToSet(new) \/ a \in ToSet(stacks)
    BY <2>1, <2>2, <2>3, <2>4, StoredFits
  <2> QED
    BY <2>3, <2>5 DEF d
<1>6. \A q \in Proc : /\ pcb'[q] = IF q = p THEN NULL ELSE pcb[q]
                      /\ stack_page'[q] = IF q = p THEN NULL ELSE stack_page[q]
  BY <1>1 DEF MemTypes
<1>7. ASSUME NEW q \in Proc, Exists(q)'
      PROVE  /\ stack_page'[q] \notin ToSet(stacks')
             /\ \A r \in Proc \ {q} : stack_page'[q] # stack_page'[r]
  <2>1. q # p /\ Exists(q) /\ stack_page'[q] = stack_page[q]
    BY <1>6, <1>7 DEF Exists
  <2>2. /\ stack_page[q] \notin ToSet(stacks) /\ stack_page[q] # NULL
        /\ \A r \in Proc \ {q} : stack_page[q] # stack_page[r]
    BY <2>1 DEF StacksHaveOneUser, Consistent
  <2> QED
    BY <1>2, <1>5, <1>6, <2>1, <2>2
<1> QED
  BY <1>5, <1>7 DEF StacksHaveOneUser

(* The end of a process stores the pages its control block lists, the      *)
(* control block and the node; a request that it leaves and the pages that *)
(* did not fit in the list are lost to everybody (process.c:219-251).      *)
LEMMA DestroyKeeps ==
    ASSUME MemInv, NEW p \in Proc, destroy_process(p)
    PROVE  /\ MemInv' /\ (AllListed => AllListed')
           /\ \A a \in Page : Tracked(a) \/ (Lost(a) /\ a \in reserved[p] \ data_page[p])
<1> USE DEF MemInv
<1>1. PICK listed \in SetToSeqs(data_page[p]) : store_pages(<<node[p], pcb[p]>> \o listed)
  BY DEF destroy_process, free_data_pages
<1>2. /\ Gone(p) /\ Exists(p)
      /\ pcb' = [pcb EXCEPT ![p] = NULL] /\ node' = [node EXCEPT ![p] = NULL]
      /\ stack_page' = [stack_page EXCEPT ![p] = NULL]
      /\ data_page' = [data_page EXCEPT ![p] = {}] /\ reserved' = [reserved EXCEPT ![p] = {}]
      /\ request' = [request EXCEPT ![p] = NULL]
      /\ abandoned' = abandoned \cup ({request[p]} \ {NULL})
      /\ sleeping' = sleeping /\ queue' = queue
  BY DEF destroy_process, Gone
<1>3. stacks' \in Seq(StackPage) /\ StacksHaveOneUser'
  BY <1>2, StackPageStored
<1>4. PICK g \in Page, h \in Page : g = pcb[p] /\ h = node[p]
  BY <1>2 DEF MemTypes, Consistent, Exists
<1>5. PICK D \in SUBSET Page : D = data_page[p]
  BY DEF MemTypes
<1>6. /\ \A k \in Kind, u \in User : UsedAs(g, k, u) => k = "pcb" /\ u = p
      /\ \A k \in Kind, u \in User : UsedAs(h, k, u) => k = "node" /\ u = p
  <2>1. "pcb" \in Kind /\ "node" \in Kind /\ p \in User /\ UsedAs(g, "pcb", p) /\ UsedAs(h, "node", p)
    BY <1>4 DEF Kind, User, UsedAs
  <2> QED
    BY <2>1 DEF OneUse
<1>7. \A b \in D, k \in Kind, u \in User : UsedAs(b, k, u) => k = "reserved" /\ u = p
  <2> TAKE b \in D
  <2>1. "reserved" \in Kind /\ p \in User /\ UsedAs(b, "reserved", p)
    BY <1>5 DEF Consistent, Kind, User, UsedAs
  <2> QED
    BY <2>1 DEF OneUse
<1>8. /\ g # h /\ g \notin D /\ h \notin D
      /\ g \notin ToSet(pages) /\ h \notin ToSet(pages) /\ D \cap ToSet(pages) = {}
  <2>1. /\ "stack" \in Kind /\ NULL \in User /\ "reserved" \in Kind /\ "node" \in Kind /\ p \in User
        /\ "reserved" # "node" /\ "reserved" # "pcb" /\ "node" # "pcb" /\ "stack" # "reserved"
    BY DEF Kind, User
  <2>2. UsedAs(h, "node", p) /\ \A b \in D : UsedAs(b, "reserved", p)
    BY <1>4, <1>5 DEF UsedAs, Consistent
  <2>3. g # h /\ g \notin D /\ h \notin D
    BY <1>6, <2>1, <2>2
  <2>4. \A b \in Page : b \in ToSet(pages) => UsedAs(b, "stack", NULL)
    BY DEF UsedAs
  <2> QED
    BY <1>6, <1>7, <2>1, <2>3, <2>4
<1>9. listed \in Seq(Page) /\ IsInjective(listed) /\ ToSet(listed) = D
  <2>1. IsFiniteSet(D)
    BY PagesAreCounted, FS_Subset
  <2>2. listed \in Seq(D) /\ IsInjective(listed) /\ ToSet(listed) = D
    BY <1>5, <2>1, Listed
  <2>3. Seq(D) \subseteq Seq(Page)
    OBVIOUS
  <2> QED
    BY <2>2, <2>3
<1>10. PICK M \in SUBSET Page : M = {h, g} \cup D
  OBVIOUS
<1>11. /\ pages' \in Seq(Page) /\ IsInjective(pages')
       /\ \A a : a \in ToSet(pages') <=> a \in M \/ a \in ToSet(pages)
  <2>1. <<h, g>> \in Seq(Page) /\ ToSet(<<h, g>>) = {h, g} /\ IsInjective(<<h, g>>)
    BY <1>8, OneOrTwo
  <2>2. PICK c : c = <<h, g>> \o listed
    OBVIOUS
  <2>3. ToSet(<<h, g>>) \cap ToSet(listed) = {}
    BY <1>8, <1>9, <2>1
  <2>4. c \in Seq(Page) /\ IsInjective(c) /\ \A a : a \in ToSet(c) <=> a \in ToSet(<<h, g>>) \/ a \in ToSet(listed)
    BY <1>9, <2>1, <2>2, <2>3, Joined
  <2>5. \A a : a \in ToSet(c) <=> a \in M
    BY <1>9, <1>10, <2>1, <2>4
  <2>6. ToSet(c) \cap ToSet(pages) = {}
    BY <1>8, <1>10, <2>5
  <2>7. store_pages(c)
    BY <1>1, <1>4, <2>2
  <2>8. /\ pages' \in Seq(Page) /\ IsInjective(pages')
        /\ \A a : a \in ToSet(pages') <=> a \in ToSet(c) \/ a \in ToSet(pages)
    BY <2>4, <2>6, <2>7, StorePages
  <2> QED
    BY <2>5, <2>8
<1>12. \A q \in Proc : /\ pcb'[q] = IF q = p THEN NULL ELSE pcb[q]
                       /\ node'[q] = IF q = p THEN NULL ELSE node[q]
                       /\ stack_page'[q] = IF q = p THEN NULL ELSE stack_page[q]
                       /\ request'[q] = IF q = p THEN NULL ELSE request[q]
                       /\ data_page'[q] = IF q = p THEN {} ELSE data_page[q]
                       /\ reserved'[q] = IF q = p THEN {} ELSE reserved[q]
  BY <1>2 DEF MemTypes
<1>13. MemTypes'
  <2>1. {request[p]} \ {NULL} \subseteq Page
    BY DEF MemTypes
  <2> QED
    BY <1>2, <1>3, <1>11, <2>1 DEF MemTypes
<1>14. Consistent' /\ NoRepetition'
  <2>1. Consistent'
    BY <1>12 DEF Consistent, Exists
  <2>2. NoRepetition'
    BY <1>2, <1>11 DEF NoRepetition
  <2> QED
    BY <2>1, <2>2
<1>15. ASSUME NEW a \in Page
       PROVE  Tracked(a) \/ (Lost(a) /\ a \in reserved[p] \ data_page[p])
  <2> DEFINE L == reserved[p]
  <2>1. \A k \in Kind, u \in User :
           UsedAs(a, k, u)' <=> \/ k = "stack" /\ u = NULL /\ a \in M
                                \/ k = "abandoned" /\ u = NULL /\ a = request[p]
                                \/ /\ UsedAs(a, k, u)
                                   /\ ~(u = p /\ k \in {"pcb", "node", "request", "reserved"})
    BY <1>2, <1>11, <1>12, PagesAreCounted DEF UsedAs
  <2>2. "stack" \in Kind /\ "abandoned" \in Kind /\ NULL \in User /\ p \in User
        /\ "request" \in Kind /\ "reserved" \in Kind
    BY DEF Kind, User
  <2>3. CASE a \in M
    <3>1. \A k \in Kind, u \in User : UsedAs(a, k, u) => u = p /\ k \in {"pcb", "node", "reserved"}
      BY <1>6, <1>7, <1>10, <2>3
    <3>2. a # request[p]
      <4>1. a = request[p] => UsedAs(a, "request", p)
        BY DEF UsedAs
      <4> QED
        BY <2>2, <3>1, <4>1
    <3>3. Moved(a, "stack", NULL)
      BY <2>1, <2>3, <3>1, <3>2 DEF Moved
    <3> QED
      BY <2>2, <3>3 DEF Tracked
  <2>4. CASE a \notin M /\ a = request[p]
    <3>1. UsedAs(a, "request", p)
      BY <2>4 DEF UsedAs
    <3>2. \A k \in Kind, u \in User : UsedAs(a, k, u) => k = "request" /\ u = p
      BY <2>2, <3>1 DEF OneUse
    <3>3. Moved(a, "abandoned", NULL)
      BY <2>1, <2>4, <3>2 DEF Moved
    <3> QED
      BY <2>2, <3>3 DEF Tracked
  <2>5. CASE a \notin M /\ a # request[p] /\ a \notin L
    <3>1. \A k \in {"pcb", "node", "request", "reserved"} : ~UsedAs(a, k, p)
      BY <1>4, <1>10, <2>5, PagesAreCounted DEF UsedAs
    <3>2. Stays(a)
      BY <2>1, <2>5, <3>1 DEF Stays
    <3> QED
      BY <3>2 DEF Tracked
  <2>6. CASE a \notin M /\ a # request[p] /\ a \in L
    <3>1. UsedAs(a, "reserved", p)
      BY <2>6 DEF UsedAs
    <3>2. \A k \in Kind, u \in User : UsedAs(a, k, u) => k = "reserved" /\ u = p
      BY <2>2, <3>1 DEF OneUse
    <3>3. Lost(a)
      BY <2>1, <2>6, <3>2 DEF Lost
    <3>4. a \notin data_page[p]
      BY <1>5, <1>10, <2>6
    <3> QED
      BY <2>6, <3>3, <3>4
  <2> QED
    BY <2>3, <2>4, <2>5, <2>6
<1>16. OneUse'
  BY <1>15, MovesKeep
<1>17. AllListed => AllListed'
  BY <1>2 DEF AllListed
<1> QED
  BY <1>3, <1>13, <1>14, <1>15, <1>16, <1>17

-----------------------------------------------------------------------------
(* The theorems. *)

(* Whether every page has a use and every reserved page is listed.         *)
NothingMissing == SomeUse /\ AllListed

(* A step that loses no page leaves every page some use.                   *)
LEMMA NothingMissed ==
    ASSUME NothingMissing, \A a \in Page : Tracked(a), AllListed => AllListed'
    PROVE  NothingMissing'
BY MovesFind DEF NothingMissing

(* The invariant is inductive, and under it no step loses a page as long   *)
(* as a control block has room for what its program reserves.              *)
LEMMA NextKeeps ==
    ASSUME MemInv, [Next]_vars
    PROVE  MemInv' /\ (MaxReserved <= MAX_DATA_PAGES /\ NothingMissing => NothingMissing')
<1>1. ASSUME NEW p \in Proc, create_process(p)
      PROVE  MemInv' /\ (NothingMissing => NothingMissing')
  BY <1>1, CreateKeeps, NothingMissed
<1>2. ASSUME NEW p \in Proc, destroy_process(p)
      PROVE  MemInv' /\ (NothingMissing => NothingMissing')
  <2>1. /\ MemInv' /\ (AllListed => AllListed')
        /\ \A a \in Page : Tracked(a) \/ (Lost(a) /\ a \in reserved[p] \ data_page[p])
    BY <1>2, DestroyKeeps
  <2>2. NothingMissing => \A a \in Page : Tracked(a)
    BY <2>1 DEF NothingMissing, AllListed
  <2> QED
    BY <2>1, <2>2, NothingMissed
<1>3. ASSUME NEW p \in Proc, sys_malloc(p)
      PROVE  MemInv' /\ (MaxReserved <= MAX_DATA_PAGES /\ NothingMissing => NothingMissing')
  <2>1. /\ MemInv' /\ \A a \in Page : Tracked(a)
        /\ MaxReserved <= MAX_DATA_PAGES /\ AllListed => AllListed'
    BY <1>3, MallocKeeps
  <2> QED
    BY <2>1, NothingMissed
<1>4. ASSUME NEW p \in Proc, create_read_request(p)
      PROVE  MemInv' /\ (NothingMissing => NothingMissing')
  BY <1>4, RequestKeeps, NothingMissed
<1>5. ASSUME NEW p \in Proc, fifo_read(p)
      PROVE  MemInv' /\ (NothingMissing => NothingMissing')
  BY <1>5, ReadKeeps, NothingMissed
<1>6. ASSUME NEW p \in Proc, NEW a \in Page, sys_free(p, a)
      PROVE  MemInv' /\ (NothingMissing => NothingMissing')
  BY <1>6, FreeKeeps, NothingMissed
<1>7. ASSUME create_sleep_process
      PROVE  MemInv' /\ (NothingMissing => NothingMissing')
  BY <1>7, SleepKeeps, NothingMissed
<1>8. ASSUME NEW a \in Page, timer_handler(a)
      PROVE  MemInv' /\ (NothingMissing => NothingMissing')
  BY <1>8, TimerKeeps, NothingMissed
<1>9. ASSUME create_queue \/ enqueue
      PROVE  MemInv' /\ (NothingMissing => NothingMissing')
  <2>1. /\ get_page /\ UNCHANGED keeps
        /\ (queue' = <<pages[1]>> /\ queue = <<>>) \/ queue' = Append(queue, pages[1])
    BY <1>9 DEF create_queue, enqueue
  <2> QED
    BY <2>1, QueueGrows, NothingMissed
<1>10. ASSUME dequeue
       PROVE  MemInv' /\ (NothingMissing => NothingMissing')
  BY <1>10, DequeueKeeps, NothingMissed
<1>11. ASSUME destroy_queue
       PROVE  MemInv' /\ (NothingMissing => NothingMissing')
  BY <1>11, DestroyQueueKeeps, NothingMissed
<1>12. ASSUME Exhausted \/ UNCHANGED vars
       PROVE  MemInv' /\ (NothingMissing => NothingMissing')
  <2>1. UNCHANGED <<pages, stacks, pcb, node, stack_page, data_page, reserved, request,
                    sleeping, queue, abandoned>>
    BY <1>12 DEF Exhausted, vars, procs, kernel
  <2>2. \A a \in Page, k \in Kind, u \in User : UsedAs(a, k, u)' <=> UsedAs(a, k, u)
    BY <2>1 DEF UsedAs
  <2>3. \A a \in Page : Tracked(a)
    BY <2>2 DEF Tracked, Stays
  <2>4. OneUse'
    BY <2>3, MovesKeep DEF MemInv
  <2>5. MemTypes' /\ Consistent' /\ NoRepetition' /\ StacksHaveOneUser'
    BY <2>1 DEF MemInv, MemTypes, Consistent, NoRepetition, StacksHaveOneUser, Exists
  <2>6. AllListed => AllListed'
    BY <2>1 DEF AllListed
  <2> QED
    BY <2>3, <2>4, <2>5, <2>6, NothingMissed DEF MemInv
<1> QED
  BY <1>1, <1>2, <1>3, <1>4, <1>5, <1>6, <1>7, <1>8, <1>9, <1>10, <1>11, <1>12 DEF Next

(* Every page has at most one use in every reachable state, and the        *)
(* control blocks, nodes and lists are consistent (memoryAllocator.c).     *)
THEOREM PagesInvariance == Spec => []MemInv
<1>1. Init => MemInv
  BY InitIsFine
<1>2. MemInv /\ [Next]_vars => MemInv'
  BY NextKeeps
<1> QED
  BY <1>1, <1>2, PTL DEF Spec

(* What a process uses is used by it as something.                         *)
LEMMA ProcessUses ==
    ASSUME MemInv, NEW p \in Proc, Exists(p), NEW a \in Of(p)
    PROVE  a \in Page /\ \E k \in {"pcb", "node", "request", "reserved"} : UsedAs(a, k, p)
<1>1. a \in reserved[p] \/ (a \in {pcb[p], node[p], request[p]} /\ a # NULL)
  BY DEF Of
<1>2. a \in Page
  BY <1>1 DEF MemInv, MemTypes
<1> QED
  BY <1>1, <1>2 DEF UsedAs

(* And what the kernel uses.                                               *)
LEMMA KernelUses ==
    ASSUME MemInv, NEW a \in Kernels
    PROVE  a \in Page /\ \E k \in {"sleeping", "queue", "abandoned"} : UsedAs(a, k, NULL)
<1>1. \A b \in ToSet(queue) : b \in Page
  BY ElementsOf DEF MemInv, MemTypes
<1> QED
  BY <1>1 DEF MemInv, MemTypes, Kernels, UsedAs

(* The invariant is PagesHaveOneUser, said of each use.                    *)
LEMMA OneUseIsEnough == MemInv => PagesHaveOneUser
<1> SUFFICES ASSUME MemInv PROVE PagesHaveOneUser
  OBVIOUS
<1>0. /\ NULL \in User
      /\ {"stack", "sleeping", "queue", "abandoned", "pcb", "node", "request", "reserved"} = Kind
  BY DEF User, Kind
<1>1. \A a \in Page, k1, k2 \in Kind, p1, p2 \in User :
         UsedAs(a, k1, p1) /\ UsedAs(a, k2, p2) => k1 = k2 /\ p1 = p2
  BY DEF MemInv, OneUse
<1>2. \A a \in ToSet(pages) : a \in Page /\ UsedAs(a, "stack", NULL)
  BY ElementsOf DEF MemInv, MemTypes, UsedAs
<1>3. \A p \in Proc : \A a \in Of(p) :
         a \in Page /\ \E k \in {"pcb", "node", "request", "reserved"} : UsedAs(a, k, p)
  <2> TAKE p \in Proc
  <2> TAKE a \in Of(p)
  <2>1. Exists(p)
    BY DEF Of
  <2> QED
    BY <2>1, ProcessUses
<1>4. \A a \in Kernels : a \in Page /\ \E k \in {"sleeping", "queue", "abandoned"} : UsedAs(a, k, NULL)
  BY KernelUses
<1>5. ToSet(pages) \cap Used = {}
  <2> SUFFICES ASSUME NEW a \in ToSet(pages), a \in Used PROVE FALSE
    OBVIOUS
  <2>1. CASE a \in Kernels
    <3>1. PICK k \in {"sleeping", "queue", "abandoned"} : UsedAs(a, k, NULL)
      BY <1>4, <2>1
    <3> QED
      BY <1>0, <1>1, <1>2, <3>1
  <2>2. CASE \E p \in Proc : a \in Of(p)
    <3>1. PICK p \in Proc, k \in {"pcb", "node", "request", "reserved"} : UsedAs(a, k, p)
      BY <1>3, <2>2
    <3>2. p \in User
      BY DEF User
    <3>3. k \in Kind /\ "stack" \in Kind /\ k # "stack"
      BY <1>0
    <3> QED
      BY <1>0, <1>1, <1>2, <3>1, <3>2, <3>3
  <2> QED
    BY <2>1, <2>2 DEF Used
<1>6. /\ sleeping \cap ToSet(queue) = {}
      /\ abandoned \cap (sleeping \cup ToSet(queue)) = {}
  <2>1. /\ \A a \in sleeping : a \in Page /\ UsedAs(a, "sleeping", NULL)
        /\ \A a \in abandoned : a \in Page /\ UsedAs(a, "abandoned", NULL)
        /\ \A a \in ToSet(queue) : UsedAs(a, "queue", NULL)
    BY DEF MemInv, MemTypes, UsedAs
  <2>2. "sleeping" \in Kind /\ "abandoned" \in Kind /\ "queue" \in Kind
    BY <1>0
  <2> QED
    BY <1>0, <1>1, <2>1, <2>2
<1>7. ASSUME NEW p \in Proc, Exists(p)
      PROVE  /\ stack_page[p] \notin ToSet(stacks)
             /\ Of(p) \cap Kernels = {}
             /\ pcb[p] # node[p] /\ request[p] \notin {pcb[p], node[p]}
             /\ {pcb[p], node[p], request[p]} \cap reserved[p] = {}
             /\ \A q \in Proc \ {p} : Of(p) \cap Of(q) = {} /\ stack_page[p] # stack_page[q]
  <2>1. /\ stack_page[p] \notin ToSet(stacks)
        /\ \A q \in Proc \ {p} : stack_page[p] # stack_page[q]
    BY <1>7 DEF MemInv, StacksHaveOneUser
  <2>2. Of(p) \cap Kernels = {}
    <3> SUFFICES ASSUME NEW a \in Of(p), a \in Kernels PROVE FALSE
      OBVIOUS
    <3>1. PICK k \in {"pcb", "node", "request", "reserved"} : UsedAs(a, k, p)
      BY <1>3
    <3>2. PICK l \in {"sleeping", "queue", "abandoned"} : UsedAs(a, l, NULL)
      BY <1>4
    <3>3. p \in User /\ k \in Kind /\ l \in Kind /\ k # l /\ a \in Page
      BY <1>0, <1>3 DEF User
    <3> QED
      BY <1>0, <1>1, <3>1, <3>2, <3>3
  <2>3. \A a \in Page, k1, k2 \in Kind : UsedAs(a, k1, p) /\ UsedAs(a, k2, p) => k1 = k2
    BY <1>1 DEF User
  <2>4. /\ pcb[p] \in Page /\ node[p] \in Page /\ request[p] \in Page \cup {NULL} /\ reserved[p] \subseteq Page
        /\ UsedAs(pcb[p], "pcb", p) /\ UsedAs(node[p], "node", p)
        /\ UsedAs(request[p], "request", p)
        /\ \A a \in reserved[p] : UsedAs(a, "reserved", p)
    BY <1>7 DEF MemInv, MemTypes, Consistent, Exists, UsedAs
  <2>5. "pcb" \in Kind /\ "node" \in Kind /\ "request" \in Kind /\ "reserved" \in Kind
    BY <1>0
  <2>6. pcb[p] # node[p] /\ request[p] \notin {pcb[p], node[p]}
    BY <2>3, <2>4, <2>5
  <2>7. {pcb[p], node[p], request[p]} \cap reserved[p] = {}
    BY <2>3, <2>4, <2>5
  <2>8. ASSUME NEW q \in Proc \ {p} PROVE Of(p) \cap Of(q) = {}
    <3> SUFFICES ASSUME NEW a \in Of(p), a \in Of(q) PROVE FALSE
      OBVIOUS
    <3>1. PICK k \in {"pcb", "node", "request", "reserved"} : UsedAs(a, k, p)
      BY <1>3
    <3>2. PICK l \in {"pcb", "node", "request", "reserved"} : UsedAs(a, l, q)
      BY <1>3
    <3>3. p \in User /\ q \in User /\ k \in Kind /\ l \in Kind /\ a \in Page
      BY <1>0, <1>3 DEF User
    <3> QED
      BY <1>1, <3>1, <3>2, <3>3
  <2> QED
    BY <2>1, <2>2, <2>6, <2>7, <2>8
<1> QED
  BY <1>5, <1>6, <1>7 DEF PagesHaveOneUser, MemInv, NoRepetition, StacksHaveOneUser

(* No page is ever given out while somebody uses it, whatever the order of *)
(* reserves, frees, waits, kills and ends (memoryAllocator.c:31-51).       *)
THEOREM PagesAreNotShared == Spec => []PagesHaveOneUser
BY PagesInvariance, OneUseIsEnough, PTL

(* A page nobody uses is always on the stack: the ends of processes and of *)
(* queues and the sleepers that wake give theirs back.  This is for        *)
(* programs that reserve no more pages than a control block lists          *)
(* (include/process.h:16); those of the system reserve one at most         *)
(* (executer.c:21, 40, producerConsumer2.c:84).                            *)
THEOREM PagesComeBack ==
    ASSUME MaxReserved <= MAX_DATA_PAGES
    PROVE  Spec => []NoPageIsLost
<1>1. Init => MemInv /\ NothingMissing
  BY InitIsFine DEF NothingMissing
<1>2. MemInv /\ NothingMissing /\ [Next]_vars => MemInv' /\ NothingMissing'
  BY NextKeeps
<1>3. MemInv /\ NothingMissing => NoPageIsLost
  <2> SUFFICES ASSUME MemInv, SomeUse, NEW a \in Page, a \notin ToSet(pages)
               PROVE  a \in Used
    BY DEF NoPageIsLost, NothingMissing
  <2>1. PICK k \in Kind, u \in User : UsedAs(a, k, u)
    BY DEF SomeUse
  <2>2. CASE a \in Kernels
    BY <2>2 DEF Used
  <2>3. CASE u \in Proc /\ (pcb[u] = a \/ node[u] = a \/ request[u] = a \/ a \in reserved[u])
    <3>1. Exists(u)
      BY <2>3, PagesAreCounted DEF MemInv, Consistent, Exists
    <3>2. a \in Of(u)
      BY <2>3, <3>1, PagesAreCounted DEF Of
    <3> QED
      BY <2>3, <3>2 DEF Used
  <2> QED
    BY <2>1, <2>2, <2>3 DEF UsedAs, Kernels
<1> QED
  BY <1>1, <1>2, <1>3, PTL DEF Spec

-----------------------------------------------------------------------------
(* The binaries of user land. *)

(* Where the bytes of file i begin in the image. *)
Start(i) ==
    IF i = 1 THEN 0
    ELSE IF i = 2 THEN endOfKernelBinary + 2
    ELSE endOfKernelBinary + 3 + Len(files[2])

ImageCell == Cell \cup Nat

FilesAreBytes ==
    /\ Len(files) \in 1 .. 3 /\ DOMAIN files = 1 .. Len(files)
    /\ \A i \in 1 .. Len(files) :
         /\ files[i] \in Seq(Cell)
         /\ Len(files[i]) \in 0 .. (IF i = 1 THEN endOfKernelBinary ELSE MaxSize)
    /\ Len(files[1]) = endOfKernelBinary

InImage(i, n) == \A b \in 1 .. n : image[Start(i) + b] = files[i][b]
CountInImage == image[endOfKernelBinary + 1] = Len(files) - 1
SizeInImage(i) == image[Start(i)] = Len(files[i])

Packing ==
    booting \in {"write", "next"} =>
      /\ file \in 1 .. Len(files)
      /\ written \in 0 .. Len(files[file])
      /\ booting = "next" => written = Len(files[file])
      /\ Len(image) = Start(file) + written
      /\ \A i \in 1 .. file - 1 : InImage(i, Len(files[i]))
      /\ InImage(file, written)
      /\ file >= 2 => CountInImage
      /\ \A i \in 2 .. file : SizeInImage(i)

IsPacked ==
    booting \notin {"write", "next"} =>
      /\ Len(image) = IF Len(files) = 1 THEN endOfKernelBinary + 1
                      ELSE Start(Len(files)) + Len(files[Len(files)])
      /\ \A i \in 1 .. Len(files) : InImage(i, Len(files[i]))
      /\ CountInImage
      /\ \A i \in 2 .. Len(files) : SizeInImage(i)

Fits ==
    /\ Len(image) <= sampleCodeModuleAddress
    /\ Len(files) > 1 => sampleCodeModuleAddress + Len(files[2]) <= sampleDataModuleAddress

Intact ==
    Fits /\ booting \in {"start", "load", "copy"} =>
      /\ DOMAIN memory = Packed!Address
      /\ \A a \in 0 .. Len(image) - 1 : memory[a] = image[a + 1]

NothingLoaded == booting \in {"write", "next", "boot", "start"} => loaded = 0

Loaded(i) == \A b \in 1 .. Len(files[i]) : memory[Packed!moduleAddresses[i - 1] + b - 1] = files[i][b]

Loading ==
    Fits /\ booting \in {"load", "copy"} =>
      /\ moduleCount = Len(files) - 1 /\ loaded \in 0 .. moduleCount
      /\ \A i \in 2 .. loaded + 1 : Loaded(i)
      /\ booting = "load" =>
           module = IF loaded = 0 THEN endOfKernelBinary + 1
                    ELSE Start(loaded + 1) + Len(files[loaded + 1])

Copying ==
    Fits /\ booting = "copy" =>
      /\ loaded < moduleCount
      /\ module = Start(loaded + 2) /\ moduleSize = Len(files[loaded + 2])
      /\ written \in 0 .. moduleSize
      /\ \A b \in 1 .. written :
           memory[Packed!moduleAddresses[loaded + 1] + b - 1] = files[loaded + 2][b]

ImageInv ==
    /\ booting \in {"write", "next", "boot", "start", "load", "copy", "main"}
    /\ FilesAreBytes /\ image \in Seq(ImageCell)
    /\ Packing /\ IsPacked /\ NothingLoaded /\ Intact /\ Loading /\ Copying /\ ModulesAreLoaded

(* kernel.ld and dirs.h: the kernel with its bss ends before the addresses *)
(* of the binaries of user land.                                           *)
KernelIsBelow ==
    /\ BLOCK \in Nat \ {0} /\ MaxSize \in Nat
    /\ endOfKernelBinary \in Nat /\ bss \in Nat /\ endOfKernel \in Nat
    /\ sampleCodeModuleAddress \in Nat /\ sampleDataModuleAddress \in Nat
    /\ endOfKernelBinary <= bss
    /\ endOfKernel <= sampleCodeModuleAddress /\ sampleCodeModuleAddress <= sampleDataModuleAddress

(* The binaries are two or three, or the kernel alone.                     *)
LEMMA OneToThree ==
    ASSUME NEW n \in {1, 2, 3}, NEW i \in 1 .. n
    PROVE  /\ i = 1 \/ (i = 2 /\ n >= 2) \/ (i = 3 /\ n = 3)
           /\ i + 1 <= n => (i = 1 /\ i + 1 = 2 /\ n >= 2) \/ (i = 2 /\ i + 1 = 3 /\ n = 3)
<1>1. n \in Int /\ i \in Int /\ 1 <= i /\ i <= n /\ n <= 3
  OBVIOUS
<1> QED
  BY <1>1

(* The files come one after the other.                                     *)
LEMMA FilesInOrder ==
    ASSUME KernelIsBelow, FilesAreBytes
    PROVE  /\ Len(files) \in {1, 2, 3}
           /\ \A i \in 1 .. Len(files) :
                /\ Start(i) \in Nat /\ Len(files[i]) \in Nat
                /\ files[i] \in Seq(Cell) /\ DOMAIN files[i] = 1 .. Len(files[i])
           /\ Start(1) = 0 /\ Len(files[1]) = endOfKernelBinary
           /\ \A i \in 1 .. Len(files) : i + 1 <= Len(files) =>
                Start(i + 1) = Start(i) + Len(files[i]) + IF i = 1 THEN 2 ELSE 1
<1>1. Len(files) \in {1, 2, 3}
  BY DEF FilesAreBytes
<1>2. ASSUME NEW i \in 1 .. Len(files)
      PROVE  files[i] \in Seq(Cell) /\ Len(files[i]) \in Nat /\ DOMAIN files[i] = 1 .. Len(files[i])
  BY LenProperties DEF FilesAreBytes
<1>3. Start(1) = 0 /\ Len(files[1]) = endOfKernelBinary
  BY DEF Start, FilesAreBytes
<1>4. Len(files) >= 2 => Start(2) = endOfKernelBinary + 2 /\ Len(files[2]) \in Nat
  BY <1>1, <1>2 DEF Start
<1>5. Len(files) = 3 => Start(3) = endOfKernelBinary + 3 + Len(files[2])
  BY DEF Start
<1>6. endOfKernelBinary \in Nat
  BY DEF KernelIsBelow
<1>7. ASSUME NEW i \in 1 .. Len(files)
      PROVE  Start(i) \in Nat
  <2>1. i = 1 \/ (i = 2 /\ Len(files) >= 2) \/ (i = 3 /\ Len(files) = 3)
    BY <1>1, OneToThree
  <2>2. CASE i = 1
    BY <2>2, <1>3
  <2>3. CASE i = 2 /\ Len(files) >= 2
    BY <2>3, <1>4, <1>6
  <2>4. CASE i = 3 /\ Len(files) = 3
    BY <2>4, <1>4, <1>5, <1>6
  <2> QED
    BY <2>1, <2>2, <2>3, <2>4
<1>8. ASSUME NEW i \in 1 .. Len(files), i + 1 <= Len(files)
      PROVE  Start(i + 1) = Start(i) + Len(files[i]) + IF i = 1 THEN 2 ELSE 1
  <2>1. (i = 1 /\ i + 1 = 2 /\ Len(files) >= 2) \/ (i = 2 /\ i + 1 = 3 /\ Len(files) = 3)
    BY <1>1, <1>8, OneToThree
  <2>2. CASE i = 1 /\ i + 1 = 2 /\ Len(files) >= 2
    BY <2>2, <1>3, <1>4, <1>6
  <2>3. CASE i = 2 /\ i + 1 = 3 /\ Len(files) = 3
    BY <2>3, <1>4, <1>5, <1>6
  <2> QED
    BY <2>1, <2>2, <2>3
<1> QED
  BY <1>1, <1>2, <1>3, <1>7, <1>8

(* A file ends before the next one begins.                                 *)
LEMMA FilesBefore ==
    ASSUME KernelIsBelow, FilesAreBytes, NEW j \in 1 .. Len(files)
    PROVE  /\ \A i \in 1 .. j - 1 : Start(i) + Len(files[i]) <= Start(j)
           /\ j >= 2 => Start(j) >= endOfKernelBinary + 2
           /\ \A i \in 2 .. j : Start(i) <= Start(j)
<1>1. PICK m \in {1, 2, 3} : m = Len(files)
  BY FilesInOrder
<1> DEFINE k == endOfKernelBinary
           l1 == Len(files[1])
           l2 == Len(files[2])
           s1 == Start(1)
           s2 == Start(2)
           s3 == Start(3)
<1>2. /\ k \in Nat /\ l1 = k /\ s1 = 0 /\ s2 = k + 2 /\ s3 = k + 3 + l2
      /\ m >= 2 => l2 \in Nat
  <2>1. k \in Nat /\ s1 = 0 /\ l1 = k
    BY FilesInOrder DEF KernelIsBelow
  <2>2. m >= 2 => l2 \in Nat
    <3>1. m >= 2 => 2 \in 1 .. Len(files)
      BY <1>1
    <3> QED
      BY <3>1, FilesInOrder
  <2> QED
    BY <2>1, <2>2 DEF Start
<1>3. j \in {1, 2, 3} /\ j <= m
  BY <1>1, OneToThree
<1>4. \A i \in 1 .. j - 1 : (i = 1 /\ j >= 2) \/ (i = 2 /\ j = 3)
  BY <1>3
<1>5. ASSUME NEW i \in 1 .. j - 1 PROVE Start(i) + Len(files[i]) <= Start(j)
  <2>1. CASE i = 1 /\ j = 2
    <3>1. s1 + l1 <= s2
      <4> HIDE DEF s1, l1, s2, s3, l2
      <4> QED
        BY <1>2
    <3> QED
      BY <2>1, <3>1
  <2>2. CASE i = 1 /\ j = 3
    <3>1. s1 + l1 <= s3
      <4> HIDE DEF s1, l1, s2, s3, l2
      <4> QED
        BY <1>2, <1>3, <2>2
    <3> QED
      BY <2>2, <3>1
  <2>3. CASE i = 2 /\ j = 3
    <3>1. s2 + l2 <= s3
      <4> HIDE DEF s1, l1, s2, s3, l2
      <4> QED
        BY <1>2, <1>3, <2>3
    <3> QED
      BY <2>3, <3>1
  <2> QED
    BY <1>3, <1>4, <2>1, <2>2, <2>3
<1>6. j >= 2 => Start(j) >= endOfKernelBinary + 2
  <2>1. CASE j = 2
    BY <1>2, <2>1
  <2>2. CASE j = 3
    <3>1. s3 >= k + 2
      <4> HIDE DEF s1, l1, s2, s3, l2
      <4> QED
        BY <1>2, <1>3, <2>2
    <3> QED
      BY <2>2, <3>1
  <2> QED
    BY <1>3, <2>1, <2>2
<1>7. ASSUME NEW i \in 2 .. j PROVE Start(i) <= Start(j)
  <2>1. i = j \/ (i = 2 /\ j = 3)
    BY <1>3
  <2>2. CASE i = j
    <3>1. Start(j) \in Int
      BY FilesInOrder
    <3> QED
      BY <2>2, <3>1
  <2>3. CASE i = 2 /\ j = 3
    <3>1. s2 <= s3
      <4> HIDE DEF s1, l1, s2, s3, l2
      <4> QED
        BY <1>2, <1>3, <2>3
    <3> QED
      BY <2>3, <3>1
  <2> QED
    BY <2>1, <2>2, <2>3
<1> QED
  BY <1>5, <1>6, <1>7

(* What is in the image stays when more is written after it.               *)
LEMMA ImageGrows ==
    ASSUME KernelIsBelow, FilesAreBytes, image \in Seq(ImageCell),
           NEW more \in Seq(ImageCell), image' = image \o more, UNCHANGED files
    PROVE  /\ image' \in Seq(ImageCell) /\ Len(image') = Len(image) + Len(more)
           /\ Len(image) \in Nat /\ Len(more) \in Nat
           /\ \A k \in 1 .. Len(image) : image'[k] = image[k]
           /\ \A k \in 1 .. Len(more) : image'[Len(image) + k] = more[k]
           /\ \A i \in 1 .. Len(files), n \in Nat :
                Start(i) + n <= Len(image) /\ InImage(i, n) => InImage(i, n)'
           /\ endOfKernelBinary + 1 <= Len(image) /\ CountInImage => CountInImage'
           /\ \A i \in 2 .. Len(files) :
                Start(i) <= Len(image) /\ SizeInImage(i) => SizeInImage(i)'
<1>1. Concatenation(image', image, more, ImageCell)
  BY Concatenated
<1>2. Len(image) \in Nat /\ Len(more) \in Nat
  BY LenProperties
<1>3. \A k \in 1 .. Len(image) : image'[k] = image[k]
  <2> TAKE k \in 1 .. Len(image)
  <2>1. k \in 1 .. Len(image) + Len(more) /\ k <= Len(image)
    BY <1>2
  <2> QED
    BY <1>1, <2>1 DEF Concatenation
<1>4. \A k \in 1 .. Len(more) : image'[Len(image) + k] = more[k]
  <2> TAKE k \in 1 .. Len(more)
  <2>1. Len(image) + k \in 1 .. Len(image) + Len(more) /\ ~(Len(image) + k <= Len(image))
        /\ (Len(image) + k) - Len(image) = k
    BY <1>2
  <2> QED
    BY <1>1, <2>1 DEF Concatenation
<1>5. ASSUME NEW i \in 1 .. Len(files), NEW n \in Nat, Start(i) + n <= Len(image), InImage(i, n)
      PROVE  InImage(i, n)'
  <2>1. Start(i) \in Nat /\ Start(i)' = Start(i) /\ files' = files
    BY FilesInOrder DEF Start
  <2>2. ASSUME NEW b \in 1 .. n PROVE image'[Start(i) + b] = files[i][b]
    <3>1. Start(i) + b \in 1 .. Len(image)
      BY <1>2, <1>5, <2>1
    <3> QED
      BY <1>3, <1>5, <3>1 DEF InImage
  <2> QED
    BY <2>1, <2>2 DEF InImage
<1>6. endOfKernelBinary + 1 <= Len(image) /\ CountInImage => CountInImage'
  <2>1. endOfKernelBinary + 1 <= Len(image) => endOfKernelBinary + 1 \in 1 .. Len(image)
    BY <1>2 DEF KernelIsBelow
  <2> QED
    BY <1>3, <2>1 DEF CountInImage
<1>7. ASSUME NEW i \in 2 .. Len(files), Start(i) <= Len(image), SizeInImage(i)
      PROVE  SizeInImage(i)'
  <2>1. Start(i)' = Start(i) /\ Start(i) \in 1 .. Len(image)
    <3>1. i \in 1 .. Len(files) /\ Len(files[2]) \in Nat /\ endOfKernelBinary \in Nat
      <4>1. 2 \in 1 .. Len(files) /\ i \in 1 .. Len(files)
        BY FilesInOrder
      <4> QED
        BY <4>1, FilesInOrder DEF KernelIsBelow
    <3>2. Start(i) \in Nat /\ Start(i) >= 1
      <4>1. Start(i) = endOfKernelBinary + 2 \/ Start(i) = endOfKernelBinary + 3 + Len(files[2])
        BY DEF Start
      <4> DEFINE l == Len(files[2])
                 s == Start(i)
      <4>2. l \in Nat /\ (s = endOfKernelBinary + 2 \/ s = endOfKernelBinary + 3 + l)
        BY <3>1, <4>1
      <4> HIDE DEF l, s
      <4>3. s \in Nat /\ s >= 1
        BY <3>1, <4>2
      <4> QED
        BY <4>3 DEF s
    <3> QED
      BY <1>2, <1>7, <3>2 DEF Start
  <2> QED
    BY <1>3, <1>7, <2>1 DEF SizeInImage
<1>8. image' \in Seq(ImageCell) /\ Len(image') = Len(image) + Len(more)
  BY <1>1 DEF Concatenation
<1> QED
  BY <1>2, <1>3, <1>4, <1>5, <1>6, <1>7, <1>8

(* A block, of at least what remains of a file or of BUFFER_SIZE.          *)
LEMMA Block ==
    ASSUME NEW s \in Seq(Cell), NEW p \in 0 .. Len(s), NEW r \in 0 .. Len(s) - p
    PROVE  /\ SubSeq(s, p + 1, p + r) \in Seq(ImageCell) /\ Len(SubSeq(s, p + 1, p + r)) = r
           /\ \A k \in 1 .. r : SubSeq(s, p + 1, p + r)[k] = s[p + k]
<1>1. Len(s) \in Nat /\ DOMAIN s = 1 .. Len(s)
  BY LenProperties
<1>2. \A i \in p + 1 .. p + r : s[i] \in ImageCell
  <2> TAKE i \in p + 1 .. p + r
  <2>1. i \in 1 .. Len(s)
    BY <1>1
  <2> QED
    BY <2>1, <1>1, ElementOfSeq DEF ImageCell
<1>3. p + 1 \in Int /\ p + r \in Int /\ r \in Nat
  BY <1>1
<1> DEFINE t == SubSeq(s, p + 1, p + r)
<1>4. /\ t \in Seq(ImageCell)
      /\ Len(t) = IF p + 1 <= p + r THEN p + r - (p + 1) + 1 ELSE 0
      /\ \A i \in 1 .. p + r - (p + 1) + 1 : t[i] = s[p + 1 + i - 1]
  BY <1>2, <1>3, SubSeqProperties
<1>5. Len(t) = r
  <2> DEFINE l == Len(t)
  <2>1. l = IF p + 1 <= p + r THEN p + r - (p + 1) + 1 ELSE 0
    BY <1>4
  <2> HIDE DEF l, t
  <2>2. p \in Int
    BY <1>1
  <2>3. l = r
    BY <1>3, <2>1, <2>2
  <2> QED
    BY <2>3 DEF l
<1>6. ASSUME NEW k \in 1 .. r PROVE t[k] = s[p + k]
  <2> HIDE DEF t
  <2>1. k \in 1 .. p + r - (p + 1) + 1 /\ p + 1 + k - 1 = p + k
    BY <1>3
  <2> QED
    BY <1>4, <2>1
<1> QED
  BY <1>4, <1>5, <1>6

LEMMA WriteKeeps == KernelIsBelow /\ ImageInv /\ Packed!write_file => ImageInv'
<1> SUFFICES ASSUME KernelIsBelow, ImageInv, Packed!write_file PROVE ImageInv'
  OBVIOUS
<1> DEFINE size == Len(files[file])
           rest == size - written
<1>1. PICK read : /\ read = IF rest < BLOCK THEN rest ELSE BLOCK
                  /\ image' = image \o SubSeq(files[file], written + 1, written + read)
                  /\ written' = written + read
                  /\ booting' = IF read < BLOCK THEN "next" ELSE "write"
  BY DEF Packed!write_file
<1>2. /\ booting = "write"
      /\ UNCHANGED <<files, memory, file, moduleCount, loaded, module, moduleSize>>
  BY DEF Packed!write_file
<1>3. /\ file \in 1 .. Len(files) /\ written \in 0 .. size
      /\ Len(image) = Start(file) + written
      /\ \A i \in 1 .. file - 1 : InImage(i, Len(files[i]))
      /\ InImage(file, written)
      /\ file >= 2 => CountInImage
      /\ \A i \in 2 .. file : SizeInImage(i)
  BY <1>2 DEF ImageInv, Packing
<1>4. FilesAreBytes /\ FilesAreBytes' /\ image \in Seq(ImageCell)
  BY <1>2 DEF ImageInv, FilesAreBytes
<1>5. /\ files[file] \in Seq(Cell) /\ size \in Nat /\ Start(file) \in Nat
      /\ \A i \in 1 .. Len(files) : Start(i) \in Nat /\ Len(files[i]) \in Nat
  BY <1>3, <1>4, FilesInOrder
<1>6. read \in 0 .. rest /\ (read < BLOCK => read = rest) /\ written + read \in 0 .. size
  <2> HIDE DEF size
  <2> QED
    BY <1>1, <1>3, <1>5 DEF KernelIsBelow
<1>7. PICK block \in Seq(ImageCell) : /\ block = SubSeq(files[file], written + 1, written + read)
                                      /\ Len(block) = read
                                      /\ \A k \in 1 .. read : block[k] = files[file][written + k]
  BY <1>3, <1>5, <1>6, Block
<1>8. /\ image' \in Seq(ImageCell) /\ Len(image') = Len(image) + Len(block)
      /\ Len(image) \in Nat /\ Len(block) \in Nat
      /\ \A k \in 1 .. Len(image) : image'[k] = image[k]
      /\ \A k \in 1 .. Len(block) : image'[Len(image) + k] = block[k]
      /\ \A i \in 1 .. Len(files), n \in Nat :
           Start(i) + n <= Len(image) /\ InImage(i, n) => InImage(i, n)'
      /\ endOfKernelBinary + 1 <= Len(image) /\ CountInImage => CountInImage'
      /\ \A i \in 2 .. Len(files) :
           Start(i) <= Len(image) /\ SizeInImage(i) => SizeInImage(i)'
  <2>1. image' = image \o block /\ UNCHANGED files
    BY <1>1, <1>2, <1>7
  <2> QED
    BY <1>4, <2>1, ImageGrows
<1>9. \A i \in 1 .. Len(files) : Start(i)' = Start(i)
  BY <1>2 DEF Start
<1>10. \A i \in 1 .. file - 1 : Start(i) + Len(files[i]) <= Start(file)
  BY <1>3, <1>4, FilesBefore
<1>11. ASSUME NEW i \in 1 .. file - 1 PROVE InImage(i, Len(files[i]))'
  <2>1. i \in 1 .. Len(files) /\ Len(files[i]) \in Nat /\ Start(i) + Len(files[i]) <= Len(image)
    <3>1. i \in 1 .. Len(files)
      BY <1>3
    <3>2. Start(i) \in Nat /\ Len(files[i]) \in Nat
      BY <1>5, <3>1
    <3> QED
      BY <1>3, <1>5, <1>10, <3>1, <3>2
  <2> DEFINE n == Len(files[i])
  <2>2. InImage(i, n)' /\ n' = n
    <3>1. n' = n
      BY <1>2
    <3>2. n \in Nat /\ Start(i) + n <= Len(image) /\ InImage(i, n)
      BY <1>3, <2>1
    <3> QED
      BY <1>8, <2>1, <3>1, <3>2
  <2> QED
    BY <2>2
<1>12. InImage(file, written)'
  <2>1. ASSUME NEW b \in 1 .. written + read PROVE image'[Start(file) + b] = files[file][b]
    <3>1. CASE b <= written
      <4>1. b \in 1 .. written /\ Start(file) + b \in 1 .. Len(image)
        BY <1>3, <1>5, <3>1
      <4> QED
        BY <1>3, <1>8, <4>1 DEF InImage
    <3>2. CASE b > written
      <4>1. b - written \in 1 .. read /\ written + (b - written) = b
            /\ Start(file) + b = Len(image) + (b - written)
        BY <1>3, <1>5, <1>6, <3>2
      <4>2. PICK k \in 1 .. read : k = b - written
        BY <4>1
      <4>3. block[k] = files[file][b] /\ image'[Start(file) + b] = block[k]
        <5>1. k \in 1 .. Len(block) /\ written + k = b /\ Start(file) + b = Len(image) + k
          BY <1>7, <4>1, <4>2
        <5> QED
          BY <1>7, <1>8, <5>1
      <4> QED
        BY <4>3
    <3>3. b \in Int /\ written \in Int
      BY <1>3, <1>6
    <3> QED
      BY <3>1, <3>2, <3>3
  <2> QED
    BY <1>1, <1>2, <1>3, <1>9, <2>1 DEF InImage
<1>13. (file >= 2 => CountInImage') /\ \A i \in 2 .. file : SizeInImage(i)'
  <2>1. ASSUME NEW i \in 2 .. file PROVE endOfKernelBinary + 1 <= Len(image) /\ Start(i) <= Len(image) /\ i \in 2 .. Len(files)
    <3>1. Start(i) <= Start(file) /\ Start(file) >= endOfKernelBinary + 2
      <4>1. file >= 2
        BY <1>3
      <4> QED
        BY <1>3, <1>4, <4>1, FilesBefore
    <3>2. i \in 2 .. Len(files) /\ i \in 1 .. Len(files)
      BY <1>3
    <3>3. Start(i) \in Nat /\ endOfKernelBinary \in Nat
      BY <1>5, <3>2 DEF KernelIsBelow
    <3> QED
      BY <1>3, <1>5, <3>1, <3>2, <3>3
  <2>2. file >= 2 => file \in 2 .. file
    BY <1>3
  <2> QED
    BY <1>3, <1>8, <2>1, <2>2
<1>14. Packing'
  <2>1. booting' = "next" => written' = Len(files[file])'
    <3>1. read < BLOCK => written + read = size
      <4> HIDE DEF size
      <4> QED
        BY <1>3, <1>5, <1>6
    <3> QED
      BY <1>1, <1>2, <3>1
  <2>2. Len(image') = Start(file)' + written'
    BY <1>1, <1>2, <1>3, <1>5, <1>6, <1>7, <1>8, <1>9
  <2>3. file' = file /\ files' = files /\ written' \in 0 .. size
    BY <1>1, <1>2, <1>6
  <2> QED
    BY <1>3, <1>11, <1>12, <1>13, <2>1, <2>2, <2>3 DEF Packing
<1>15. booting' \in {"write", "next"}
  BY <1>1
<1>16. IsPacked' /\ NothingLoaded' /\ Intact' /\ Loading' /\ Copying' /\ ModulesAreLoaded'
  BY <1>2, <1>15 DEF ImageInv, NothingLoaded, IsPacked, Intact, Loading, Copying,
                     ModulesAreLoaded, Packed!ModulesAreLoaded
<1> QED
  BY <1>4, <1>8, <1>14, <1>15, <1>16 DEF ImageInv

LEMMA BuildKeeps == KernelIsBelow /\ ImageInv /\ Packed!buildImage => ImageInv'
<1> SUFFICES ASSUME KernelIsBelow, ImageInv, Packed!buildImage PROVE ImageInv'
  OBVIOUS
<1> DEFINE N == Len(files)
           l == Len(files[file])
           extra == IF file = 1 THEN <<N - 1>> ELSE <<>>
           size == IF file < N THEN <<Len(files[file + 1])>> ELSE <<>>
           e == IF file = 1 THEN 1 ELSE 0
<1>1. /\ booting = "next" /\ image' = image \o (extra \o size)
      /\ booting' = IF file < N THEN "write" ELSE "boot"
      /\ file' = file + 1 /\ written' = 0
      /\ UNCHANGED <<files, memory, moduleCount, loaded, module, moduleSize>>
  BY DEF Packed!buildImage, Packed!write_size
<1>2. /\ file \in 1 .. N /\ Len(image) = Start(file) + l
      /\ \A i \in 1 .. file - 1 : InImage(i, Len(files[i]))
      /\ InImage(file, l)
      /\ file >= 2 => CountInImage
      /\ \A i \in 2 .. file : SizeInImage(i)
  <2>1. written = l
    BY <1>1 DEF ImageInv, Packing
  <2> QED
    BY <1>1, <2>1 DEF ImageInv, Packing
<1>3. FilesAreBytes /\ FilesAreBytes' /\ image \in Seq(ImageCell)
  BY <1>1 DEF ImageInv, FilesAreBytes
<1>4. /\ N \in {1, 2, 3} /\ Start(1) = 0 /\ Len(files[1]) = endOfKernelBinary
      /\ \A i \in 1 .. N : Start(i) \in Nat /\ Len(files[i]) \in Nat
      /\ \A i \in 1 .. N : i + 1 <= N =>
           Start(i + 1) = Start(i) + Len(files[i]) + IF i = 1 THEN 2 ELSE 1
  BY <1>3, FilesInOrder
<1>5. PICK s1 \in Seq(ImageCell) : /\ s1 = extra /\ Len(s1) = e
                                   /\ file = 1 => s1[1] = N - 1
  <2>1. CASE file = 1
    <3>1. N - 1 \in ImageCell
      BY <1>4 DEF ImageCell
    <3>2. extra = <<N - 1>> /\ e = 1
      BY <2>1
    <3> HIDE DEF extra
    <3> QED
      BY <2>1, <3>1, <3>2, OneOf
  <2>2. CASE file # 1
    <3>1. extra \in Seq(ImageCell) /\ Len(extra) = 0
      BY <2>2, EmptySeq
    <3> QED
      BY <2>2, <3>1
  <2> QED
    BY <2>1, <2>2
<1>6. PICK s2 \in Seq(ImageCell) : /\ s2 = size /\ Len(s2) = IF file < N THEN 1 ELSE 0
                                   /\ file < N => s2[1] = Len(files[file + 1])
  <2>1. CASE file < N
    <3>1. file + 1 \in 1 .. N
      BY <1>2, <1>4, <2>1
    <3>2. Len(files[file + 1]) \in ImageCell
      BY <1>4, <3>1 DEF ImageCell
    <3>3. size = <<Len(files[file + 1])>>
      BY <2>1
    <3> HIDE DEF size
    <3> QED
      BY <2>1, <3>2, <3>3, OneOf
  <2>2. CASE ~(file < N)
    <3>1. size \in Seq(ImageCell) /\ Len(size) = 0
      BY <2>2, EmptySeq
    <3> QED
      BY <2>2, <3>1
  <2> QED
    BY <2>1, <2>2
<1>7. PICK more \in Seq(ImageCell) :
        /\ image' = image \o more
        /\ Len(more) = e + Len(s2)
        /\ file = 1 => more[1] = N - 1
        /\ file < N => more[e + 1] = Len(files[file + 1])
  <2>1. Concatenation(s1 \o s2, s1, s2, ImageCell)
    BY Concatenated
  <2>2. image' = image \o (s1 \o s2)
    BY <1>1, <1>5, <1>6
  <2>3. file = 1 => 1 \in 1 .. Len(s1) + Len(s2) /\ 1 <= Len(s1)
    BY <1>5, <1>6
  <2>4. file < N => e + 1 \in 1 .. Len(s1) + Len(s2) /\ ~(e + 1 <= Len(s1)) /\ (e + 1) - Len(s1) = 1
    BY <1>5, <1>6
  <2> DEFINE t == s1 \o s2
  <2>5. /\ t \in Seq(ImageCell) /\ Len(t) = Len(s1) + Len(s2)
        /\ \A i \in 1 .. Len(s1) + Len(s2) : t[i] = IF i <= Len(s1) THEN s1[i] ELSE s2[i - Len(s1)]
    BY <2>1 DEF Concatenation
  <2> HIDE DEF t, extra, size
  <2>6. image' = image \o t
    BY <2>2 DEF t
  <2>7. file = 1 => t[1] = N - 1
    BY <1>5, <2>3, <2>5
  <2>8. file < N => t[e + 1] = Len(files[file + 1])
    BY <1>6, <2>4, <2>5
  <2>9. Len(t) = e + Len(s2)
    BY <1>5, <2>5
  <2> QED
    BY <2>5, <2>6, <2>7, <2>8, <2>9
<1> HIDE DEF extra, size
<1>8. /\ image' \in Seq(ImageCell) /\ Len(image') = Len(image) + Len(more)
      /\ Len(image) \in Nat /\ Len(more) \in Nat
      /\ \A k \in 1 .. Len(more) : image'[Len(image) + k] = more[k]
      /\ \A i \in 1 .. Len(files), n \in Nat :
           Start(i) + n <= Len(image) /\ InImage(i, n) => InImage(i, n)'
      /\ endOfKernelBinary + 1 <= Len(image) /\ CountInImage => CountInImage'
      /\ \A i \in 2 .. Len(files) :
           Start(i) <= Len(image) /\ SizeInImage(i) => SizeInImage(i)'
  BY <1>1, <1>3, <1>7, ImageGrows
<1>9. \A i \in 1 .. N : Start(i)' = Start(i)
  BY <1>1 DEF Start
<1>10. ASSUME NEW i \in 1 .. file PROVE InImage(i, Len(files[i]))'
  <2>1. i \in 1 .. N
    BY <1>2
  <2>6. PICK n \in Nat : n = Len(files[i])
    BY <1>4, <2>1
  <2>2. n \in Nat /\ Start(i) \in Nat /\ Start(file) \in Nat /\ l \in Nat
    BY <1>2, <1>4, <2>1, <2>6
  <2>3. Start(i) + n <= Len(image) /\ InImage(i, n)
    <3>1. CASE i = file
      BY <1>2, <2>2, <2>6, <3>1
    <3>2. CASE i # file
      <4>1. i \in 1 .. file - 1
        BY <1>2, <3>2
      <4>2. Start(i) + Len(files[i]) <= Start(file)
        BY <1>2, <1>3, <4>1, FilesBefore
      <4> QED
        BY <1>2, <2>2, <2>6, <4>1, <4>2
    <3> QED
      BY <3>1, <3>2
  <2>4. Len(files'[i]) = n
    BY <1>1, <2>6
  <2>5. InImage(i, n)'
    BY <1>8, <2>1, <2>2, <2>3
  <2> QED
    BY <2>4, <2>5
<1>11. ASSUME NEW i \in 2 .. file PROVE SizeInImage(i)'
  <2>1. Start(i) <= Start(file) /\ Start(file) <= Len(image) /\ i \in 2 .. N
    <3>1. Start(i) <= Start(file)
      BY <1>2, <1>3, FilesBefore
    <3>2. Start(file) \in Nat /\ l \in Nat
      BY <1>2, <1>4
    <3> QED
      BY <1>2, <3>1, <3>2
  <2>2. Start(i) \in Nat /\ Start(file) \in Nat
    <3>1. i \in 1 .. N
      BY <2>1
    <3> QED
      BY <1>2, <1>4, <3>1
  <2>3. Start(i) <= Len(image)
    BY <1>8, <2>1, <2>2
  <2> QED
    BY <1>2, <1>8, <2>1, <2>3
<1>12. CountInImage'
  <2>1. CASE file = 1
    <3>1. Len(image) = endOfKernelBinary /\ Len(more) >= 1
      <4>1. Len(s2) \in Nat /\ endOfKernelBinary \in Nat
        BY <1>6 DEF KernelIsBelow
      <4> QED
        BY <1>2, <1>4, <1>7, <2>1, <4>1
    <3>2. 1 \in 1 .. Len(more)
      BY <1>8, <3>1
    <3> QED
      BY <1>1, <1>7, <1>8, <2>1, <3>1, <3>2 DEF CountInImage
  <2>2. CASE file # 1
    <3>1. file >= 2
      BY <1>2, <2>2
    <3>2. Start(file) >= endOfKernelBinary + 2 /\ Start(file) \in Nat /\ l \in Nat
      BY <1>2, <1>3, <1>4, <3>1, FilesBefore
    <3>3. endOfKernelBinary + 1 <= Len(image)
      BY <1>2, <3>2 DEF KernelIsBelow
    <3> QED
      BY <1>2, <1>8, <3>1, <3>3
  <2> QED
    BY <2>1, <2>2
<1>13. NothingLoaded' /\ Intact' /\ Loading' /\ Copying' /\ ModulesAreLoaded'
  BY <1>1 DEF ImageInv, NothingLoaded, Intact, Loading, Copying, ModulesAreLoaded, Packed!ModulesAreLoaded
<1>14. CASE file < N
  <2>1. booting' = "write" /\ file' = file + 1 /\ file + 1 \in 1 .. N /\ file + 1 <= N
    BY <1>1, <1>2, <1>4, <1>14
  <2>0. PICK next \in 1 .. N : next = file + 1
    BY <2>1
  <2>2. Start(next) = Len(image) + e + 1
    <3>1. Start(next) = Start(file) + Len(files[file]) + IF file = 1 THEN 2 ELSE 1
      BY <1>2, <1>4, <2>0, <2>1
    <3>2. Start(file) \in Nat /\ l \in Nat
      BY <1>2, <1>4
    <3> QED
      BY <1>2, <3>1, <3>2
  <2>3. Len(image') = Start(next)
    BY <1>6, <1>7, <1>8, <1>14, <2>2
  <2>7. Start(next)' = Start(next)
    BY <1>9
  <2>4. SizeInImage(next)'
    <3>1. e + 1 \in 1 .. Len(more) /\ Len(image) + e + 1 = Len(image) + (e + 1)
      BY <1>6, <1>7, <1>8, <1>14
    <3>2. image'[Start(next)] = Len(files[next])
      BY <1>7, <1>8, <1>14, <2>0, <2>2, <3>1
    <3> QED
      BY <1>1, <2>7, <3>2 DEF SizeInImage
  <2>5. Packing'
    <3>0. file' = next /\ files' = files /\ written' = 0 /\ booting' = "write"
      BY <1>1, <2>0, <2>1
    <3>1. 0 \in 0 .. Len(files[next]) /\ Start(next) \in Nat
      BY <1>4
    <3>2. Len(image') = Start(file)' + written'
      <4>1. Start(file)' = Start(next)
        BY <3>0 DEF Start
      <4> QED
        BY <2>3, <3>0, <3>1, <4>1
    <3>3. InImage(file, written)'
      <4>1. ASSUME NEW b \in 1 .. 0 PROVE FALSE
        OBVIOUS
      <4> QED
        BY <3>0, <4>1 DEF InImage
    <3>4. \A i \in 1 .. next - 1 : InImage(i, Len(files[i]))'
      <4>1. \A i \in 1 .. next - 1 : i \in 1 .. file
        BY <1>2, <2>0
      <4> QED
        BY <1>10, <4>1
    <3>5. \A i \in 2 .. next : SizeInImage(i)'
      <4> TAKE i \in 2 .. next
      <4>1. i = next \/ i \in 2 .. file
        BY <1>2, <2>0
      <4> QED
        BY <1>11, <2>4, <4>1
    <3> QED
      BY <1>12, <3>0, <3>1, <3>2, <3>3, <3>4, <3>5 DEF Packing
  <2>6. IsPacked'
    BY <2>1 DEF IsPacked
  <2> QED
    BY <1>3, <1>8, <1>13, <2>1, <2>5, <2>6 DEF ImageInv
<1>15. CASE ~(file < N)
  <2>1. booting' = "boot" /\ file = N
    BY <1>1, <1>2, <1>4, <1>15
  <2>2. Len(image') = IF N = 1 THEN endOfKernelBinary + 1 ELSE Start(N) + Len(files[N])
    <3>1. Len(image') = Start(N) + Len(files[N]) + e
      BY <1>2, <1>6, <1>7, <1>8, <1>15, <2>1
    <3>2. Start(N) \in Nat /\ Len(files[N]) \in Nat /\ endOfKernelBinary \in Nat
      BY <1>2, <1>4, <2>1 DEF KernelIsBelow
    <3> QED
      BY <1>4, <2>1, <3>1, <3>2
  <2>3. IsPacked'
    <3>1. N' = N /\ Start(N)' = Start(N) /\ files' = files
      BY <1>1 DEF Start
    <3> QED
      BY <1>10, <1>11, <1>12, <2>1, <2>2, <3>1 DEF IsPacked
  <2>4. Packing'
    BY <2>1 DEF Packing
  <2> QED
    BY <1>3, <1>8, <1>13, <2>1, <2>3, <2>4 DEF ImageInv
<1> QED
  BY <1>14, <1>15

(* Once it is packed.                                                      *)
LEMMA ImageIsWhole ==
    ASSUME KernelIsBelow, ImageInv, booting \notin {"write", "next"}
    PROVE  /\ Len(image) \in Nat /\ endOfKernelBinary < Len(image)
           /\ image[endOfKernelBinary + 1] = Len(files) - 1
           /\ \A i \in 1 .. Len(files) :
                /\ Start(i) \in Nat /\ Len(files[i]) \in Nat
                /\ Start(i) + Len(files[i]) <= Len(image)
                /\ \A b \in 1 .. Len(files[i]) : image[Start(i) + b] = files[i][b]
           /\ \A i \in 2 .. Len(files) : Start(i) > 0 /\ image[Start(i)] = Len(files[i])
           /\ Len(files) \in {1, 2, 3} /\ Start(1) = 0 /\ Len(files[1]) = endOfKernelBinary
           /\ \A i \in 1 .. Len(files) : DOMAIN files[i] = 1 .. Len(files[i])
<1> DEFINE N == Len(files)
<1>1. /\ Len(image) = IF N = 1 THEN endOfKernelBinary + 1 ELSE Start(N) + Len(files[N])
      /\ \A i \in 1 .. N : InImage(i, Len(files[i]))
      /\ CountInImage
      /\ \A i \in 2 .. N : SizeInImage(i)
  BY DEF ImageInv, IsPacked
<1>2. FilesAreBytes /\ Len(image) \in Nat /\ endOfKernelBinary \in Nat
  BY LenProperties DEF ImageInv, KernelIsBelow
<1>3. /\ N \in {1, 2, 3} /\ Start(1) = 0 /\ Len(files[1]) = endOfKernelBinary
      /\ \A i \in 1 .. N : Start(i) \in Nat /\ Len(files[i]) \in Nat
      /\ \A i \in 1 .. N : DOMAIN files[i] = 1 .. Len(files[i])
  BY <1>2, FilesInOrder
<1>4. N \in 1 .. N /\ 1 \in 1 .. N /\ (N = 1 \/ N >= 2)
  <2>1. N = 1 \/ N = 2 \/ N = 3
    BY <1>3
  <2> QED
    BY <2>1
<1>5. endOfKernelBinary < Len(image)
  <2>1. CASE N = 1
    <3>1. Len(image) = endOfKernelBinary + 1
      BY <1>1, <2>1
    <3> QED
      BY <1>2, <3>1
  <2>2. CASE N # 1
    <3>1. N >= 2
      BY <1>4, <2>2
    <3>2. Start(N) >= endOfKernelBinary + 2
      BY <1>2, <1>4, <3>1, FilesBefore
    <3>3. PICK s \in Nat, l \in Nat : s = Start(N) /\ l = Len(files[N])
      BY <1>3, <1>4
    <3>4. Len(image) = s + l
      BY <1>1, <2>2, <3>3
    <3>5. s >= endOfKernelBinary + 2
      BY <3>2, <3>3
    <3> QED
      BY <1>2, <3>4, <3>5
  <2> QED
    BY <2>1, <2>2
<1>6. ASSUME NEW i \in 1 .. N PROVE Start(i) + Len(files[i]) <= Len(image)
  <2>1. CASE N = 1
    <3>1. i = 1
      BY <2>1
    <3> QED
      BY <1>1, <1>2, <1>3, <2>1, <3>1
  <2>2. CASE N # 1
    <3>1. Start(N) \in Nat /\ Len(files[N]) \in Nat /\ Start(i) \in Nat /\ Len(files[i]) \in Nat
      BY <1>3, <1>4
    <3>2. CASE i = N
      BY <1>1, <2>2, <3>1, <3>2
    <3>3. CASE i # N
      <4>1. i \in 1 .. N - 1
        BY <1>3, <3>3
      <4>2. Start(i) + Len(files[i]) <= Start(N)
        BY <1>2, <1>4, <4>1, FilesBefore
      <4> QED
        BY <1>1, <2>2, <3>1, <4>2
    <3> QED
      BY <3>2, <3>3
  <2> QED
    BY <2>1, <2>2
<1>7. ASSUME NEW i \in 2 .. N PROVE Start(i) > 0 /\ image[Start(i)] = Len(files[i])
  <2>1. i \in 1 .. N /\ i >= 2
    BY <1>3
  <2>2. Start(i) >= endOfKernelBinary + 2 /\ Start(i) \in Nat
    BY <1>2, <1>3, <2>1, FilesBefore
  <2> QED
    BY <1>1, <1>2, <2>2 DEF SizeInImage
<1> QED
  BY <1>1, <1>2, <1>3, <1>5, <1>6, <1>7 DEF CountInImage, InImage

(* Where a binary of user land goes: after the image, the bss and the      *)
(* binary before it.                                                       *)
LEMMA Places ==
    ASSUME KernelIsBelow, FilesAreBytes, Fits, NEW i \in 2 .. Len(files), NEW b \in 1 .. Len(files[i])
    PROVE  /\ Packed!moduleAddresses[i - 1] + b - 1 \in Packed!Address
           /\ Packed!moduleAddresses[i - 1] + b - 1 >= sampleCodeModuleAddress
           /\ i = 2 => Packed!moduleAddresses[i - 1] + b - 1 < sampleDataModuleAddress
           /\ i = 3 => Packed!moduleAddresses[i - 1] + b - 1 >= sampleDataModuleAddress
           /\ Packed!moduleAddresses[i - 1] \in Nat
<1>1. Len(files) \in {1, 2, 3}
  BY DEF FilesAreBytes
<1>2. i \in 1 .. Len(files) /\ i # 1
  BY <1>1
<1>3. (i = 2 /\ Len(files) >= 2) \/ (i = 3 /\ Len(files) = 3)
  BY <1>1, <1>2, OneToThree
<1>4. PICK l \in 0 .. MaxSize : l = Len(files[i])
  BY <1>2 DEF FilesAreBytes
<1>5. b \in 1 .. l
  BY <1>4
<1>6. CASE i = 2 /\ Len(files) >= 2
  <2>1. sampleCodeModuleAddress + l <= sampleDataModuleAddress
    BY <1>1, <1>4, <1>6 DEF Fits
  <2>2. Packed!moduleAddresses[i - 1] = sampleCodeModuleAddress
    BY <1>6 DEF Packed!moduleAddresses
  <2>3. /\ sampleCodeModuleAddress + b - 1 \in 0 .. sampleDataModuleAddress + MaxSize
        /\ sampleCodeModuleAddress + b - 1 >= sampleCodeModuleAddress
        /\ sampleCodeModuleAddress + b - 1 < sampleDataModuleAddress
    BY <1>5, <2>1 DEF KernelIsBelow
  <2>4. i # 3 /\ sampleCodeModuleAddress \in Nat
    BY <1>6 DEF KernelIsBelow
  <2> QED
    BY <2>2, <2>3, <2>4 DEF Packed!Address
<1>7. CASE i = 3 /\ Len(files) = 3
  <2>2. Packed!moduleAddresses[i - 1] = sampleDataModuleAddress
    BY <1>7 DEF Packed!moduleAddresses
  <2>3. /\ sampleDataModuleAddress + b - 1 \in 0 .. sampleDataModuleAddress + MaxSize
        /\ sampleDataModuleAddress + b - 1 >= sampleDataModuleAddress
        /\ sampleDataModuleAddress + b - 1 >= sampleCodeModuleAddress
    BY <1>4, <1>5 DEF KernelIsBelow
  <2>4. i # 2 /\ sampleDataModuleAddress \in Nat
    BY <1>7 DEF KernelIsBelow
  <2> QED
    BY <2>2, <2>3, <2>4 DEF Packed!Address
<1> QED
  BY <1>3, <1>6, <1>7

(* What the kernel does changes neither the binaries nor the image.        *)
LEMMA KernelKeepsImage ==
    ASSUME ImageInv, UNCHANGED <<files, image>>,
           booting \notin {"write", "next"}, booting' \notin {"write", "next"}
    PROVE  /\ FilesAreBytes' /\ image' \in Seq(ImageCell) /\ Packing' /\ IsPacked'
           /\ Fits' = Fits /\ \A i : Start(i)' = Start(i)
<1>1. \A i : Start(i)' = Start(i)
  BY DEF Start
<1>2. FilesAreBytes' /\ image' \in Seq(ImageCell) /\ Packing' /\ Fits' = Fits
  BY DEF ImageInv, FilesAreBytes, Packing, Fits
<1>3. IsPacked'
  <2>1. \A i, n : InImage(i, n)' = InImage(i, n)
    BY <1>1 DEF InImage
  <2>2. \A i : SizeInImage(i)' = SizeInImage(i)
    BY <1>1 DEF SizeInImage
  <2>3. CountInImage' = CountInImage
    BY DEF CountInImage
  <2>4. Start(Len(files))' = Start(Len(files))
    BY DEF Start
  <2>5. \A i : InImage(i, Len(files[i]))' = InImage(i, Len(files[i]))
    BY <1>1 DEF InImage
  <2> QED
    BY <2>2, <2>3, <2>4, <2>5 DEF ImageInv, IsPacked
<1> QED
  BY <1>1, <1>2, <1>3

LEMMA BootKeeps == KernelIsBelow /\ ImageInv /\ Packed!Boot => ImageInv'
<1> SUFFICES ASSUME KernelIsBelow, ImageInv, Packed!Boot PROVE ImageInv'
  OBVIOUS
<1>1. /\ booting = "boot" /\ booting' = "start"
      /\ memory' = [a \in Packed!Address |-> IF a < Len(image) THEN image[a + 1] ELSE 0]
      /\ UNCHANGED <<files, image, file, written, moduleCount, loaded, module, moduleSize>>
  BY DEF Packed!Boot
<1>2. FilesAreBytes' /\ image' \in Seq(ImageCell) /\ Packing' /\ IsPacked' /\ Fits' = Fits
  BY <1>1, KernelKeepsImage
<1>3. Intact'
  <2> SUFFICES ASSUME Fits
               PROVE  /\ DOMAIN memory' = Packed!Address
                      /\ \A a \in 0 .. Len(image) - 1 : memory'[a] = image[a + 1]
    BY <1>1, <1>2 DEF Intact, Packed!Address
  <2>1. Len(image) \in Nat /\ Len(image) <= sampleCodeModuleAddress
    BY LenProperties DEF ImageInv, Fits
  <2>2. \A a \in 0 .. Len(image) - 1 : a \in Packed!Address /\ a < Len(image)
    BY <2>1 DEF KernelIsBelow, Packed!Address
  <2> QED
    BY <1>1, <2>2
<1>4. NothingLoaded' /\ Loading' /\ Copying' /\ ModulesAreLoaded'
  BY <1>1 DEF ImageInv, NothingLoaded, Loading, Copying, ModulesAreLoaded, Packed!ModulesAreLoaded
<1> QED
  BY <1>1, <1>2, <1>3, <1>4 DEF ImageInv

LEMMA LoadModulesKeeps == KernelIsBelow /\ ImageInv /\ Packed!loadModules => ImageInv'
<1> SUFFICES ASSUME KernelIsBelow, ImageInv, Packed!loadModules PROVE ImageInv'
  OBVIOUS
<1>1. /\ booting = "start" /\ booting' = "load"
      /\ moduleCount' = memory[endOfKernelBinary] /\ module' = endOfKernelBinary + 1
      /\ UNCHANGED <<files, image, memory, file, written, loaded, moduleSize>>
  BY DEF Packed!loadModules
<1>2. FilesAreBytes' /\ image' \in Seq(ImageCell) /\ Packing' /\ IsPacked' /\ Fits' = Fits
  BY <1>1, KernelKeepsImage
<1>3. Intact'
  BY <1>1, <1>2 DEF ImageInv, Intact, Packed!Address
<1>4. Loading'
  <2> SUFFICES ASSUME Fits
               PROVE  moduleCount' = Len(files) - 1 /\ loaded = 0 /\ Len(files) \in {1, 2, 3}
    <3>1. \A i \in 2 .. 0 + 1 : FALSE
      OBVIOUS
    <3>2. Len(files) \in {1, 2, 3} => 0 \in 0 .. Len(files) - 1
      OBVIOUS
    <3> QED
      BY <1>1, <1>2, <3>1, <3>2 DEF Loading
  <2>1. Len(image) \in Nat /\ endOfKernelBinary < Len(image) /\ Len(files) \in {1, 2, 3}
        /\ image[endOfKernelBinary + 1] = Len(files) - 1
    BY <1>1, ImageIsWhole
  <2>2. endOfKernelBinary \in 0 .. Len(image) - 1
    BY <2>1 DEF KernelIsBelow
  <2>3. memory[endOfKernelBinary] = Len(files) - 1
    BY <1>1, <2>1, <2>2 DEF ImageInv, Intact
  <2> QED
    BY <1>1, <2>1, <2>3 DEF ImageInv, NothingLoaded
<1>5. NothingLoaded' /\ Copying' /\ ModulesAreLoaded'
  BY <1>1 DEF NothingLoaded, Copying, ModulesAreLoaded, Packed!ModulesAreLoaded
<1> QED
  BY <1>1, <1>2, <1>3, <1>4, <1>5 DEF ImageInv

LEMMA LoadModuleKeeps == KernelIsBelow /\ ImageInv /\ Packed!loadModule => ImageInv'
<1> SUFFICES ASSUME KernelIsBelow, ImageInv, Packed!loadModule PROVE ImageInv'
  OBVIOUS
<1>1. /\ booting = "load" /\ loaded < moduleCount /\ booting' = "copy"
      /\ moduleSize' = memory[module] /\ module' = module + 1 /\ written' = 0
      /\ UNCHANGED <<files, image, memory, file, moduleCount, loaded>>
  BY DEF Packed!loadModule
<1>2. /\ FilesAreBytes' /\ image' \in Seq(ImageCell) /\ Packing' /\ IsPacked' /\ Fits' = Fits
      /\ \A i : Start(i)' = Start(i)
  BY <1>1, KernelKeepsImage
<1>3. Intact'
  BY <1>1, <1>2 DEF ImageInv, Intact, Packed!Address
<1>4. Loading'
  <2>1. \A i : Loaded(i)' = Loaded(i)
    BY <1>1 DEF Loaded, Packed!moduleAddresses
  <2> QED
    BY <1>1, <1>2, <2>1 DEF ImageInv, Loading
<1>5. Copying'
  <2> SUFFICES ASSUME Fits
               PROVE  /\ module + 1 = Start(loaded + 2) /\ memory[module] = Len(files[loaded + 2])
                      /\ Len(files[loaded + 2]) \in Nat
    <3>1. \A b \in 1 .. 0 : FALSE
      OBVIOUS
    <3>2. Start(loaded + 2)' = Start(loaded + 2)
      BY <1>1 DEF Start
    <3>3. Len(files[loaded + 2]) \in Nat => 0 \in 0 .. Len(files[loaded + 2])
      OBVIOUS
    <3> QED
      BY <1>1, <1>2, <3>1, <3>2, <3>3 DEF Copying
  <2>1. /\ moduleCount = Len(files) - 1 /\ loaded \in 0 .. moduleCount
        /\ module = IF loaded = 0 THEN endOfKernelBinary + 1
                    ELSE Start(loaded + 1) + Len(files[loaded + 1])
    BY <1>1 DEF ImageInv, Loading
  <2>2. Len(files) \in {1, 2, 3}
    BY DEF ImageInv, FilesAreBytes
  <2>3. loaded \in Nat /\ loaded + 1 \in 1 .. Len(files) /\ loaded + 2 \in 2 .. Len(files)
        /\ loaded + 2 \in 1 .. Len(files) /\ (loaded + 1) + 1 = loaded + 2 /\ loaded + 2 <= Len(files)
    BY <1>1, <2>1, <2>2
  <2>4. Start(loaded + 2) = Start(loaded + 1) + Len(files[loaded + 1]) + IF loaded + 1 = 1 THEN 2 ELSE 1
    <3>1. FilesAreBytes
      BY DEF ImageInv
    <3>2. PICK i \in 1 .. Len(files) : i = loaded + 1
      BY <2>3
    <3>3. i + 1 = loaded + 2 /\ i + 1 <= Len(files)
      BY <2>3, <3>2
    <3>4. Start(i + 1) = Start(i) + Len(files[i]) + IF i = 1 THEN 2 ELSE 1
      BY <3>1, <3>3, FilesInOrder
    <3> QED
      BY <3>2, <3>3, <3>4
  <2>5. /\ Start(1) = 0 /\ Len(files[1]) = endOfKernelBinary
        /\ Start(loaded + 1) \in Nat /\ Len(files[loaded + 1]) \in Nat
        /\ Start(loaded + 2) \in Nat /\ Len(files[loaded + 2]) \in Nat
        /\ Start(loaded + 2) + Len(files[loaded + 2]) <= Len(image) /\ Len(image) \in Nat
        /\ Start(loaded + 2) > 0 /\ image[Start(loaded + 2)] = Len(files[loaded + 2])
    BY <1>1, <2>3, ImageIsWhole
  <2>6. module + 1 = Start(loaded + 2)
    <3>1. CASE loaded = 0
      <4>1. Start(loaded + 2) = 0 + endOfKernelBinary + 2
        BY <2>4, <2>5, <3>1
      <4>2. module = endOfKernelBinary + 1 /\ endOfKernelBinary \in Nat
        BY <2>1, <3>1 DEF KernelIsBelow
      <4> QED
        BY <4>1, <4>2
    <3>2. CASE loaded # 0
      <4>1. loaded + 1 # 1
        BY <2>3, <3>2
      <4> QED
        BY <2>1, <2>4, <2>5, <3>2, <4>1
    <3> QED
      BY <3>1, <3>2
  <2>7. module \in 0 .. Len(image) - 1
    <3>1. module = Start(loaded + 2) - 1
      <4>1. module \in Int
        BY <2>1, <2>5 DEF KernelIsBelow
      <4> QED
        BY <2>6, <4>1
    <3> QED
      BY <2>5, <3>1
  <2>8. memory[module] = image[module + 1]
    BY <1>1, <2>7 DEF ImageInv, Intact
  <2> QED
    BY <2>5, <2>6, <2>8
<1>6. NothingLoaded' /\ ModulesAreLoaded'
  BY <1>1 DEF NothingLoaded, ModulesAreLoaded, Packed!ModulesAreLoaded
<1> QED
  BY <1>1, <1>2, <1>3, <1>4, <1>5, <1>6 DEF ImageInv

LEMMA MemcpyKeeps == KernelIsBelow /\ ImageInv /\ Packed!memcpy => ImageInv'
<1> SUFFICES ASSUME KernelIsBelow, ImageInv, Packed!memcpy PROVE ImageInv'
  OBVIOUS
<1> DEFINE i == loaded + 2
           to == Packed!moduleAddresses[loaded + 1] + written
<1>1. /\ booting = "copy" /\ booting' = "copy" /\ written # moduleSize
      /\ memory' = [memory EXCEPT ![to] = memory[module + written]]
      /\ written' = written + 1
      /\ UNCHANGED <<files, image, file, moduleCount, loaded, module, moduleSize>>
  BY DEF Packed!memcpy, Packed!Copied
<1>2. /\ FilesAreBytes' /\ image' \in Seq(ImageCell) /\ Packing' /\ IsPacked' /\ Fits' = Fits
      /\ \A j : Start(j)' = Start(j)
  BY <1>1, KernelKeepsImage
<1>3. Intact' /\ Loading' /\ Copying'
  <2> SUFFICES ASSUME Fits PROVE Intact' /\ Loading' /\ Copying'
    BY <1>2 DEF Intact, Loading, Copying
  <2>1. /\ DOMAIN memory = Packed!Address
        /\ \A a \in 0 .. Len(image) - 1 : memory[a] = image[a + 1]
        /\ moduleCount = Len(files) - 1 /\ loaded \in 0 .. moduleCount
        /\ \A j \in 2 .. loaded + 1 : Loaded(j)
        /\ loaded < moduleCount
        /\ module = Start(i) /\ moduleSize = Len(files[i])
        /\ written \in 0 .. moduleSize
        /\ \A b \in 1 .. written :
             memory[Packed!moduleAddresses[loaded + 1] + b - 1] = files[i][b]
    BY <1>1 DEF ImageInv, Intact, Loading, Copying
  <2>2. FilesAreBytes /\ Len(files) \in {1, 2, 3}
    BY DEF ImageInv, FilesAreBytes
  <2>3. i \in 2 .. Len(files) /\ i \in 1 .. Len(files) /\ loaded + 1 = i - 1
    BY <2>1, <2>2
  <2>4. PICK l \in Nat : l = Len(files[i])
    BY <1>1, <2>3, ImageIsWhole
  <2>5. written + 1 \in 1 .. l /\ written \in Nat /\ written \in 0 .. l
    BY <1>1, <2>1, <2>4
  <2>6. PICK place \in Nat : place = Packed!moduleAddresses[i - 1]
    BY <2>2, <2>3, <2>4, <2>5, Places
  <2>7. /\ to = place + written /\ to = place + (written + 1) - 1
        /\ to \in Packed!Address /\ to >= sampleCodeModuleAddress
        /\ i = 3 => to >= sampleDataModuleAddress
    <3>1. to = place + written
      BY <2>3, <2>6
    <3>2. place + written = place + (written + 1) - 1
      BY <2>5
    <3>3. /\ place + (written + 1) - 1 \in Packed!Address
          /\ place + (written + 1) - 1 >= sampleCodeModuleAddress
          /\ i = 3 => place + (written + 1) - 1 >= sampleDataModuleAddress
      BY <2>2, <2>3, <2>4, <2>5, <2>6, Places
    <3> HIDE DEF to
    <3> QED
      BY <3>1, <3>2, <3>3
  <2> HIDE DEF to
  <2>8. memory[module + written] = files[i][written + 1]
    <3>1. /\ Start(i) \in Nat /\ Start(i) + l <= Len(image) /\ Len(image) \in Nat
          /\ \A b \in 1 .. l : image[Start(i) + b] = files[i][b]
      BY <1>1, <2>3, <2>4, ImageIsWhole
    <3>2. Start(i) + written \in 0 .. Len(image) - 1 /\ (Start(i) + written) + 1 = Start(i) + (written + 1)
      BY <2>5, <3>1
    <3> QED
      BY <2>1, <2>5, <3>1, <3>2
  <2>9. DOMAIN memory' = Packed!Address
    BY <1>1, <2>1
  <2>10. memory'[to] = files[i][written + 1] /\ \A a \in Packed!Address : a # to => memory'[a] = memory[a]
    BY <1>1, <2>1, <2>7, <2>8
  <2>11. \A a \in 0 .. Len(image) - 1 : memory'[a] = image[a + 1]
    <3> TAKE a \in 0 .. Len(image) - 1
    <3>1. Len(image) \in Nat /\ Len(image) <= sampleCodeModuleAddress
      BY LenProperties DEF ImageInv, Fits
    <3>2. a # to /\ a \in Packed!Address
      BY <2>7, <3>1 DEF KernelIsBelow, Packed!Address
    <3> QED
      BY <2>1, <2>10, <3>2
  <2>12. \A j \in 2 .. loaded + 1 : Loaded(j)'
    <3> TAKE j \in 2 .. loaded + 1
    <3>1. j = 2 /\ i = 3 /\ j \in 2 .. Len(files)
      <4>1. loaded \in Nat /\ loaded < 2
        <5>1. PICK n \in {1, 2, 3} : n = Len(files)
          BY <2>2
        <5>2. loaded \in 0 .. n - 1 /\ loaded < n - 1
          BY <2>1, <5>1
        <5> QED
          BY <5>2
      <4>2. loaded + 1 >= 2
        BY <4>1
      <4>3. loaded = 1
        BY <4>1, <4>2
      <4> QED
        BY <2>3, <4>3
    <3>2. ASSUME NEW b \in 1 .. Len(files[j])
          PROVE  memory'[Packed!moduleAddresses[j - 1] + b - 1] = files[j][b]
      <4> DEFINE at == Packed!moduleAddresses[j - 1] + b - 1
      <4>1. at \in Packed!Address /\ at < sampleDataModuleAddress
        BY <2>2, <3>1, Places
      <4>2. at # to
        <5> HIDE DEF at
        <5>1. at \in Int /\ to \in Int
          BY <2>7, <4>1 DEF Packed!Address
        <5> QED
          BY <2>7, <3>1, <4>1, <5>1 DEF KernelIsBelow
      <4>3. memory[at] = files[j][b]
        BY <2>1 DEF Loaded
      <4> QED
        BY <2>10, <4>1, <4>2, <4>3
    <3> QED
      BY <1>1, <3>2 DEF Loaded, Packed!moduleAddresses
  <2>13. \A b \in 1 .. written + 1 : memory'[place + b - 1] = files[i][b]
    <3> TAKE b \in 1 .. written + 1
    <3>1. CASE b = written + 1
      BY <2>7, <2>10, <3>1
    <3>2. CASE b # written + 1
      <4>1. b \in 1 .. written /\ b \in 1 .. l /\ place + b - 1 # place + written
        BY <2>5, <3>2
      <4>2. place + b - 1 \in Packed!Address
        BY <2>2, <2>3, <2>4, <2>6, <4>1, Places
      <4>3. memory[place + b - 1] = files[i][b]
        BY <2>1, <2>3, <2>6, <4>1
      <4> QED
        BY <2>7, <2>10, <4>1, <4>2, <4>3
    <3> QED
      BY <3>1, <3>2
  <2>14. Intact'
    BY <1>1, <2>9, <2>11 DEF Intact, Packed!Address
  <2>15. Loading'
    BY <1>1, <2>1, <2>12 DEF Loading
  <2>16. Copying'
    <3>1. Start(i)' = Start(i) /\ place = Packed!moduleAddresses[loaded + 1]
      BY <1>1, <2>3, <2>6 DEF Start
    <3>2. written + 1 \in 0 .. l
      BY <2>4, <2>5
    <3> QED
      BY <1>1, <2>1, <2>4, <2>13, <3>1, <3>2 DEF Copying, Packed!moduleAddresses
  <2> QED
    BY <2>14, <2>15, <2>16
<1>4. NothingLoaded' /\ ModulesAreLoaded'
  BY <1>1 DEF NothingLoaded, ModulesAreLoaded, Packed!ModulesAreLoaded
<1> QED
  BY <1>1, <1>2, <1>3, <1>4 DEF ImageInv

LEMMA ModuleLoadedKeeps == KernelIsBelow /\ ImageInv /\ Packed!ModuleLoaded => ImageInv'
<1> SUFFICES ASSUME KernelIsBelow, ImageInv, Packed!ModuleLoaded PROVE ImageInv'
  OBVIOUS
<1>1. /\ booting = "copy" /\ booting' = "load" /\ written = moduleSize
      /\ module' = module + moduleSize /\ loaded' = loaded + 1
      /\ UNCHANGED <<files, image, memory, file, written, moduleCount, moduleSize>>
  BY DEF Packed!ModuleLoaded, Packed!Copied
<1>2. /\ FilesAreBytes' /\ image' \in Seq(ImageCell) /\ Packing' /\ IsPacked' /\ Fits' = Fits
      /\ \A j : Start(j)' = Start(j)
  BY <1>1, KernelKeepsImage
<1>3. Intact'
  BY <1>1, <1>2 DEF ImageInv, Intact, Packed!Address
<1>4. Loading'
  <2> SUFFICES ASSUME Fits PROVE Loading'
    BY <1>2 DEF Loading
  <2>1. /\ moduleCount = Len(files) - 1 /\ loaded \in 0 .. moduleCount
        /\ \A j \in 2 .. loaded + 1 : Loaded(j)
        /\ loaded < moduleCount
        /\ module = Start(loaded + 2) /\ moduleSize = Len(files[loaded + 2])
        /\ \A b \in 1 .. written :
             memory[Packed!moduleAddresses[loaded + 1] + b - 1] = files[loaded + 2][b]
    BY <1>1 DEF ImageInv, Loading, Copying
  <2>2. Len(files) \in {1, 2, 3}
    BY DEF ImageInv, FilesAreBytes
  <2>3. PICK next \in 0 .. moduleCount : next = loaded + 1
    BY <2>1, <2>2
  <2>4. next # 0 /\ loaded + 2 = next + 1 /\ (next + 1) - 1 = loaded + 1
    BY <2>1, <2>2, <2>3
  <2>5. \A j \in 2 .. next + 1 : Loaded(j)'
    <3> TAKE j \in 2 .. next + 1
    <3>1. j \in 2 .. loaded + 1 \/ j = next + 1
      BY <2>1, <2>2, <2>3
    <3>2. Loaded(j)
      <4>1. Loaded(next + 1)
        BY <1>1, <2>1, <2>4 DEF Loaded
      <4> QED
        BY <2>1, <3>1, <4>1
    <3> QED
      BY <1>1, <3>2 DEF Loaded, Packed!moduleAddresses
  <2>6. module' = Start(next + 1) + Len(files[next + 1])
    BY <1>1, <2>1, <2>4
  <2>7. Start(next + 1)' = Start(next + 1)
    BY <1>1 DEF Start
  <2>8. loaded' = next
    BY <1>1, <2>3
  <2> QED
    BY <1>1, <1>2, <2>1, <2>3, <2>4, <2>5, <2>6, <2>7, <2>8 DEF Loading
<1>5. NothingLoaded' /\ Copying' /\ ModulesAreLoaded'
  BY <1>1 DEF NothingLoaded, Copying, ModulesAreLoaded, Packed!ModulesAreLoaded
<1> QED
  BY <1>1, <1>2, <1>3, <1>4, <1>5 DEF ImageInv

LEMMA ClearKeeps == KernelIsBelow /\ ImageInv /\ Packed!clearBSS => ImageInv'
<1> SUFFICES ASSUME KernelIsBelow, ImageInv, Packed!clearBSS PROVE ImageInv'
  OBVIOUS
<1>1. /\ booting = "load" /\ loaded = moduleCount /\ booting' = "main"
      /\ memory' = [a \in Packed!Address |-> IF a \in bss .. endOfKernel - 1 THEN 0 ELSE memory[a]]
      /\ UNCHANGED <<files, image, file, written, moduleCount, loaded, module, moduleSize>>
  BY DEF Packed!clearBSS
<1>2. /\ FilesAreBytes' /\ image' \in Seq(ImageCell) /\ Packing' /\ IsPacked' /\ Fits' = Fits
      /\ \A j : Start(j)' = Start(j)
  BY <1>1, KernelKeepsImage
<1>3. ModulesAreLoaded'
  <2> SUFFICES ASSUME Fits
               PROVE  /\ \A b \in DOMAIN files[1] : memory'[0 + b - 1] = files[1][b]
                      /\ \A i \in 2 .. Len(files) : \A b \in DOMAIN files[i] :
                           memory'[Packed!moduleAddresses[i - 1] + b - 1] = files[i][b]
    BY <1>1 DEF ModulesAreLoaded, Packed!ModulesAreLoaded, Packed!At, Fits, Packed!moduleAddresses
  <2>1. /\ DOMAIN memory = Packed!Address
        /\ \A a \in 0 .. Len(image) - 1 : memory[a] = image[a + 1]
        /\ moduleCount = Len(files) - 1
        /\ \A j \in 2 .. loaded + 1 : Loaded(j)
    BY <1>1 DEF ImageInv, Intact, Loading
  <2>2. /\ Len(image) \in Nat /\ endOfKernelBinary < Len(image)
        /\ Len(files) \in {1, 2, 3} /\ Start(1) = 0 /\ Len(files[1]) = endOfKernelBinary
        /\ \A i \in 1 .. Len(files) : DOMAIN files[i] = 1 .. Len(files[i])
        /\ \A i \in 1 .. Len(files) :
             \A b \in 1 .. Len(files[i]) : image[Start(i) + b] = files[i][b]
    BY <1>1, ImageIsWhole
  <2>3. ASSUME NEW b \in DOMAIN files[1] PROVE memory'[0 + b - 1] = files[1][b]
    <3>1. 1 \in 1 .. Len(files)
      BY <2>2
    <3>2. b \in 1 .. endOfKernelBinary
      BY <2>2, <3>1
    <3>3. /\ 0 + b - 1 \in 0 .. Len(image) - 1 /\ (0 + b - 1) + 1 = b /\ 0 + b = b
          /\ 0 + b - 1 \notin bss .. endOfKernel - 1
      BY <2>2, <3>2 DEF KernelIsBelow
    <3>4. 0 + b - 1 \in Packed!Address
      <4>1. Len(image) <= sampleCodeModuleAddress
        BY DEF Fits
      <4> QED
        BY <2>2, <3>3, <4>1 DEF KernelIsBelow, Packed!Address
    <3>5. memory[0 + b - 1] = image[b]
      BY <2>1, <3>3
    <3>6. image[b] = files[1][b]
      BY <2>2, <3>1, <3>2, <3>3
    <3> QED
      BY <1>1, <3>3, <3>4, <3>5, <3>6
  <2>4. ASSUME NEW i \in 2 .. Len(files), NEW b \in DOMAIN files[i]
        PROVE  memory'[Packed!moduleAddresses[i - 1] + b - 1] = files[i][b]
    <3> DEFINE at == Packed!moduleAddresses[i - 1] + b - 1
    <3>1. i \in 1 .. Len(files) /\ i \in 2 .. loaded + 1
      BY <1>1, <2>1, <2>2
    <3>2. b \in 1 .. Len(files[i])
      BY <2>2, <3>1
    <3>3. at \in Packed!Address /\ at >= sampleCodeModuleAddress
      <4>1. FilesAreBytes
        BY DEF ImageInv
      <4> QED
        BY <3>2, <4>1, Places
    <3>4. memory[at] = files[i][b]
      BY <2>1, <3>1, <3>2 DEF Loaded
    <3> HIDE DEF at
    <3>5. at \notin bss .. endOfKernel - 1
      BY <3>3 DEF KernelIsBelow, Packed!Address
    <3>6. memory'[at] = files[i][b]
      BY <1>1, <3>3, <3>4, <3>5
    <3> QED
      BY <3>6 DEF at
  <2> QED
    BY <2>3, <2>4
<1>4. NothingLoaded' /\ Intact' /\ Loading' /\ Copying'
  BY <1>1 DEF NothingLoaded, Intact, Loading, Copying
<1> QED
  BY <1>1, <1>2, <1>3, <1>4 DEF ImageInv

LEMMA ImageStarts == KernelIsBelow /\ Packed!Init => ImageInv
<1> SUFFICES ASSUME KernelIsBelow, Packed!Init PROVE ImageInv
  OBVIOUS
<1>1. /\ image = <<>> /\ booting = "write" /\ file = 1 /\ written = 0 /\ loaded = 0
      /\ \E first \in Packed!Binary(endOfKernelBinary), modules \in Packed!Modules :
           files = <<first>> \o modules
  BY DEF Packed!Init
<1>2. PICK first \in Packed!Binary(endOfKernelBinary), modules \in Packed!Modules :
        files = <<first>> \o modules
  BY <1>1
<1> DEFINE Small == UNION {Packed!Binary(size) : size \in 0 .. MaxSize}
<1>3. PICK n \in 0 .. 2 : modules \in [1 .. n -> Small]
  <2>1. Len(Packed!moduleAddresses) = 2
    BY DEF Packed!moduleAddresses
  <2> QED
    BY <1>2, <2>1 DEF Packed!Modules
<1>4. ASSUME NEW size \in Nat, NEW s \in Packed!Binary(size)
      PROVE  s \in Seq(Cell) /\ Len(s) = size
  BY FunctionIsSeq DEF Packed!Binary
<1>5. first \in Seq(Cell) /\ Len(first) = endOfKernelBinary
  BY <1>2, <1>4 DEF KernelIsBelow
<1>6. ASSUME NEW s \in Small PROVE s \in Seq(Cell) /\ Len(s) \in 0 .. MaxSize
  <2>1. PICK size \in 0 .. MaxSize : s \in Packed!Binary(size)
    OBVIOUS
  <2>2. size \in Nat
    BY DEF KernelIsBelow
  <2> QED
    BY <1>4, <2>1, <2>2
<1> HIDE DEF Small
<1>7. modules \in Seq(Seq(Cell)) /\ Len(modules) = n /\ \A k \in 1 .. n : modules[k] \in Small
  <2>1. modules \in [1 .. n -> Seq(Cell)]
    BY <1>3, <1>6
  <2>2. n \in Nat
    OBVIOUS
  <2> QED
    BY <1>3, <2>1, <2>2, FunctionIsSeq
<1>8. /\ files \in Seq(Seq(Cell)) /\ Len(files) = 1 + n
      /\ \A i \in 1 .. 1 + n : files[i] = IF i = 1 THEN first ELSE modules[i - 1]
  <2> DEFINE one == <<first>>
  <2>1. one \in Seq(Seq(Cell)) /\ Len(one) = 1 /\ one[1] = first
    BY <1>5, OneOf
  <2> HIDE DEF one
  <2>2. Concatenation(one \o modules, one, modules, Seq(Cell))
    BY <1>7, <2>1, Concatenated
  <2>3. files = one \o modules
    BY <1>2 DEF one
  <2>4. \A i \in 1 .. 1 + n : i <= 1 <=> i = 1
    OBVIOUS
  <2> QED
    BY <1>7, <2>1, <2>2, <2>3, <2>4 DEF Concatenation
<1>9. FilesAreBytes
  <2>1. Len(files) \in 1 .. 3 /\ DOMAIN files = 1 .. Len(files)
    BY <1>8, LenProperties
  <2>2. ASSUME NEW i \in 1 .. Len(files)
        PROVE  /\ files[i] \in Seq(Cell)
               /\ Len(files[i]) \in 0 .. (IF i = 1 THEN endOfKernelBinary ELSE MaxSize)
    <3>1. CASE i = 1
      BY <1>5, <1>8, <3>1 DEF KernelIsBelow
    <3>2. CASE i # 1
      <4>1. i - 1 \in 1 .. n /\ i \in 1 .. 1 + n
        BY <1>8, <3>2
      <4> QED
        BY <1>6, <1>7, <1>8, <3>2, <4>1
    <3> QED
      BY <3>1, <3>2
  <2>3. Len(files[1]) = endOfKernelBinary
    <3>1. 1 \in 1 .. 1 + n
      OBVIOUS
    <3> QED
      BY <1>5, <1>8, <3>1
  <2> QED
    BY <2>1, <2>2, <2>3 DEF FilesAreBytes
<1>10. image \in Seq(ImageCell) /\ Len(image) = 0
  BY <1>1, EmptySeq
<1>11. Packing
  <2>1. 1 \in 1 .. Len(files) /\ 0 \in 0 .. Len(files[1]) /\ ~(1 >= 2)
    BY <1>9 DEF FilesAreBytes, KernelIsBelow
  <2>2. Len(image) = Start(1) + 0
    BY <1>10 DEF Start
  <2>3. InImage(1, 0)
    BY DEF InImage
  <2>4. (\A i \in 1 .. 1 - 1 : FALSE) /\ (\A i \in 2 .. 1 : FALSE)
    OBVIOUS
  <2> QED
    BY <1>1, <2>1, <2>2, <2>3, <2>4 DEF Packing
<1>12. IsPacked /\ NothingLoaded /\ Intact /\ Loading /\ Copying /\ ModulesAreLoaded
  BY <1>1 DEF IsPacked, NothingLoaded, Intact, Loading, Copying, ModulesAreLoaded, Packed!ModulesAreLoaded
<1> QED
  BY <1>1, <1>9, <1>10, <1>11, <1>12 DEF ImageInv

LEMMA ImageStutters == ImageInv /\ UNCHANGED Packed!vars => ImageInv'
<1> SUFFICES ASSUME ImageInv, UNCHANGED Packed!vars PROVE ImageInv'
  OBVIOUS
<1>1. UNCHANGED <<files, image, memory, booting, file, written, moduleCount, loaded, module, moduleSize>>
  BY DEF Packed!vars
<1>2. UNCHANGED <<FilesAreBytes, Fits, CountInImage>> /\ \A i : Start(i)' = Start(i)
  BY <1>1 DEF FilesAreBytes, Fits, CountInImage, Start
<1>3. Packing'
  <2>1. \A i : InImage(i, Len(files[i]))' = InImage(i, Len(files[i]))
    BY <1>1, <1>2 DEF InImage
  <2>2. InImage(file, written)' = InImage(file, written) /\ Start(file)' = Start(file)
    BY <1>1 DEF InImage, Start
  <2>3. \A i : SizeInImage(i)' = SizeInImage(i)
    BY <1>1, <1>2 DEF SizeInImage
  <2> QED
    BY <1>1, <1>2, <2>1, <2>2, <2>3 DEF ImageInv, Packing
<1>4. IsPacked'
  <2>1. \A i : InImage(i, Len(files[i]))' = InImage(i, Len(files[i]))
    BY <1>1, <1>2 DEF InImage
  <2>2. \A i : SizeInImage(i)' = SizeInImage(i)
    BY <1>1, <1>2 DEF SizeInImage
  <2>3. Start(Len(files))' = Start(Len(files))
    BY <1>1 DEF Start
  <2> QED
    BY <1>1, <1>2, <2>1, <2>2, <2>3 DEF ImageInv, IsPacked
<1>5. Intact' /\ NothingLoaded'
  BY <1>1, <1>2 DEF ImageInv, Intact, NothingLoaded, Packed!Address
<1>6. Loading'
  <2>1. \A i : Loaded(i)' = Loaded(i)
    BY <1>1 DEF Loaded, Packed!moduleAddresses
  <2>2. Start(loaded + 1)' = Start(loaded + 1)
    BY <1>1 DEF Start
  <2> QED
    BY <1>1, <1>2, <2>1, <2>2 DEF ImageInv, Loading
<1>7. Copying'
  <2>1. Start(loaded + 2)' = Start(loaded + 2)
    BY <1>1 DEF Start
  <2> QED
    BY <1>1, <1>2, <2>1 DEF ImageInv, Copying, Packed!moduleAddresses
<1>8. ModulesAreLoaded'
  BY <1>1 DEF ImageInv, ModulesAreLoaded, Packed!ModulesAreLoaded, Packed!At, Packed!moduleAddresses
<1> QED
  BY <1>1, <1>2, <1>3, <1>4, <1>5, <1>6, <1>7, <1>8 DEF ImageInv

LEMMA ImageInvariant == KernelIsBelow => (Packed!Spec => []ImageInv)
<1> SUFFICES ASSUME KernelIsBelow PROVE Packed!Spec => []ImageInv
  OBVIOUS
<1>1. Packed!Init => ImageInv
  BY ImageStarts
<1>2. ImageInv /\ [Packed!Next]_(Packed!vars) => ImageInv'
  <2> SUFFICES ASSUME ImageInv, [Packed!Next]_(Packed!vars) PROVE ImageInv'
    OBVIOUS
  <2>1. CASE Packed!write_file
    BY <2>1, WriteKeeps
  <2>2. CASE Packed!buildImage
    BY <2>2, BuildKeeps
  <2>3. CASE Packed!Boot
    BY <2>3, BootKeeps
  <2>4. CASE Packed!loadModules
    BY <2>4, LoadModulesKeeps
  <2>5. CASE Packed!loadModule
    BY <2>5, LoadModuleKeeps
  <2>6. CASE Packed!memcpy
    BY <2>6, MemcpyKeeps
  <2>7. CASE Packed!ModuleLoaded
    BY <2>7, ModuleLoadedKeeps
  <2>8. CASE Packed!clearBSS
    BY <2>8, ClearKeeps
  <2>9. CASE UNCHANGED Packed!vars
    BY <2>9, ImageStutters
  <2> QED
    BY <2>1, <2>2, <2>3, <2>4, <2>5, <2>6, <2>7, <2>8, <2>9
    DEF Packed!Next, Packed!initializeKernelBinary
<1> QED
  BY <1>1, <1>2, PTL DEF Packed!Spec

(* The binaries of user land are at their addresses when main begins, of   *)
(* any size and content, however long the block of the packer               *)
(* (modulePacker's main.c:52-119, moduleLoader.c:9-43, kernel.c:44-92).    *)
THEOREM TheModulesAreLoaded == KernelIsBelow /\ Packed!Spec => []ModulesAreLoaded
<1> SUFFICES ASSUME KernelIsBelow PROVE Packed!Spec => []ModulesAreLoaded
  OBVIOUS
<1>1. ImageInv => ModulesAreLoaded
  BY DEF ImageInv
<1>2. Packed!Spec => []ImageInv
  BY ImageInvariant
<1> QED
  BY <1>1, <1>2, PTL
=============================================================================
