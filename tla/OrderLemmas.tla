---------------------------- MODULE OrderLemmas ----------------------------
(***************************************************************************)
(* Facts about numbers and sequences that the proofs of several components *)
(* need.  A set of numbers has a smallest member, which follows from the   *)
(* well-foundedness of inclusion between finite sets; an induction is an   *)
(* application of it to the set of counterexamples.  Also what the words   *)
(* of a line are (Arguments), character after character and word after     *)
(* word.                                                                   *)
(***************************************************************************)
EXTENDS Integers, Sequences, Arguments, SequenceTheorems, FiniteSetTheorems, WellFoundedInduction,
        TLAPS

(* A set of natural numbers has a smallest member: the first waiter that   *)
(* is not marked (kernelMutex.c:136-146) is such a one.                    *)
LEMMA SmallestOf ==
    ASSUME NEW T \in SUBSET Nat, T # {}
    PROVE  \E m \in T : \A n \in T : m <= n
<1> DEFINE Below == {0 .. n : n \in T}
<1>1. Below \subseteq FiniteSubsetsOf(Nat) /\ Below # {}
  <2>1. ASSUME NEW n \in T
        PROVE  0 .. n \in FiniteSubsetsOf(Nat)
    <3>1. n \in Int /\ 0 .. n \in SUBSET Nat
      OBVIOUS
    <3>2. IsFiniteSet(0 .. n)
      BY <3>1, FS_Interval
    <3> QED
      BY <3>1, <3>2 DEF FiniteSubsetsOf
  <2> QED
    BY <2>1
<1>2. PICK s \in Below : \A t \in Below : ~(<<t, s>> \in StrictSubsetOrdering(Nat))
  BY <1>1, FS_StrictSubsetOrderingWellFounded, WFMin
<1>3. PICK m \in T : s = 0 .. m
  BY <1>2
<1>4. ASSUME NEW n \in T, n < m PROVE FALSE
  <2>1. 0 .. n \subseteq 0 .. m /\ 0 .. n # 0 .. m
    BY <1>4
  <2>2. <<0 .. n, 0 .. m>> \in StrictSubsetOrdering(Nat)
    BY <2>1 DEF StrictSubsetOrdering
  <2> QED
    BY <1>2, <1>3, <2>2
<1> QED
  BY <1>4

(* What remains of a sequence after its first n elements: the arrays of    *)
(* the allocator from their index on, a queue after its head is served.    *)
LEMMA DropFirst ==
    ASSUME NEW S, NEW q \in Seq(S), NEW n \in Nat, n <= Len(q) + 1,
           NEW d, d = SubSeq(q, n + 1, Len(q))
    PROVE  /\ d \in Seq(S)
           /\ DOMAIN d = 1 .. Len(q) - n
           /\ n <= Len(q) => Len(d) = Len(q) - n
           /\ n >= Len(q) => d = <<>>
           /\ \A i \in DOMAIN d : n + i \in DOMAIN q /\ d[i] = q[n + i]
           /\ \A i \in DOMAIN q : i > n => i - n \in DOMAIN d /\ d[i - n] = q[i]
<1>1. Len(q) \in Nat /\ DOMAIN q = 1 .. Len(q)
  BY LenProperties
<1>2. /\ d \in Seq(S)
      /\ Len(d) = IF n + 1 <= Len(q) THEN Len(q) - (n + 1) + 1 ELSE 0
      /\ \A i \in 1 .. Len(q) - (n + 1) + 1 : d[i] = q[(n + 1) + i - 1]
  <2>1. \A i \in n + 1 .. Len(q) : q[i] \in S
    BY <1>1, ElementOfSeq
  <2>2. n + 1 \in Int /\ Len(q) \in Int
    BY <1>1
  <2> QED
    BY <2>1, <2>2, SubSeqProperties
<1>3. DOMAIN d = 1 .. Len(d)
  BY <1>2, LenProperties
<1> DEFINE l == Len(q)
           m == Len(d)
<1>5. (n <= l => m = l - n) /\ (n >= l => m = 0)
  <2>1. l \in Nat /\ m = IF n + 1 <= l THEN l - (n + 1) + 1 ELSE 0
    BY <1>1, <1>2
  <2> HIDE DEF l, m
  <2> QED
    BY <2>1
<1>4. DOMAIN d = 1 .. Len(q) - n
  <2>1. l \in Nat
    BY <1>1
  <2> HIDE DEF l, m
  <2>2. CASE n <= l
    BY <1>3, <1>5, <2>2 DEF l, m
  <2>3. CASE n > l
    <3>1. 1 .. l - n = {} /\ m = 0 /\ 1 .. m = {}
      BY <1>5, <2>1, <2>3
    <3> QED
      BY <1>3, <3>1 DEF l, m
  <2> QED
    BY <2>1, <2>2, <2>3
<1>6. n >= Len(q) => d = <<>>
  <2>1. d # <<>> => Len(d) \in Nat \ {0}
    BY <1>2, EmptySeq
  <2> QED
    BY <1>5, <2>1
<1>7. ASSUME NEW i \in DOMAIN d
      PROVE  n + i \in DOMAIN q /\ d[i] = q[n + i]
  <2>1. i \in 1 .. Len(q) - (n + 1) + 1 /\ n + i \in 1 .. Len(q) /\ (n + 1) + i - 1 = n + i
    BY <1>1, <1>4
  <2> QED
    BY <1>1, <1>2, <2>1
<1>8. ASSUME NEW i \in DOMAIN q, i > n
      PROVE  i - n \in DOMAIN d /\ d[i - n] = q[i]
  <2>1. i - n \in DOMAIN d /\ n + (i - n) = i
    BY <1>1, <1>4, <1>8
  <2> QED
    BY <1>7, <2>1
<1> QED
  BY <1>2, <1>4, <1>5, <1>6, <1>7, <1>8

(* The first elements of a sequence: the name at the start of a line.      *)
LEMMA TakeFirst ==
    ASSUME NEW S, NEW q \in Seq(S), NEW l \in Nat, l <= Len(q), NEW d, d = SubSeq(q, 1, l)
    PROVE  d \in Seq(S) /\ Len(d) = l /\ \A i \in 1 .. l : d[i] = q[i]
<1>1. l - 1 + 1 = l /\ (IF 1 <= l THEN l ELSE 0) = l /\ \A i \in 1 .. l : 1 + i - 1 = i
  OBVIOUS
<1>2. \A i \in 1 .. l : q[i] \in S
  <2>1. Len(q) \in Nat
    BY LenProperties
  <2>2. \A i \in 1 .. l : i \in 1 .. Len(q)
    BY <2>1
  <2> QED
    BY <2>2, ElementOfSeq
<1>3. /\ d \in Seq(S) /\ Len(d) = IF 1 <= l THEN l - 1 + 1 ELSE 0
      /\ \A i \in 1 .. l - 1 + 1 : d[i] = q[1 + i - 1]
  <2>1. 1 \in Int /\ l \in Int
    OBVIOUS
  <2> QED
    BY <1>2, <2>1, SubSeqProperties
<1> QED
  BY <1>1, <1>3

(* What a sequence is with one element more at its end.                    *)
LEMMA Appended ==
    ASSUME NEW S, NEW q \in Seq(S), NEW e \in S, NEW a, a = Append(q, e)
    PROVE  /\ a \in Seq(S)
           /\ DOMAIN q = 1 .. Len(q) /\ DOMAIN a = 1 .. Len(q) + 1 /\ Len(q) \in Nat
           /\ \A i \in DOMAIN q : a[i] = q[i]
           /\ a[Len(q) + 1] = e
<1>1. Len(q) \in Nat /\ DOMAIN q = 1 .. Len(q)
  BY LenProperties
<1>2. /\ a \in Seq(S) /\ Len(a) = Len(q) + 1
      /\ \A i \in 1 .. Len(q) : a[i] = q[i]
      /\ a[Len(q) + 1] = e
  BY AppendProperties
<1>3. DOMAIN a = 1 .. Len(a)
  BY <1>2, LenProperties
<1> QED
  BY <1>1, <1>2, <1>3

(* A sum of an index and no more than a whole turn wraps around once: the  *)
(* key buffer (keyboardDriver.c), the table of the philosophers (philo.c). *)
LEMMA WrapsOnce ==
    ASSUME NEW n \in Nat \ {0}, NEW x \in 0 .. 2 * n - 1
    PROVE  x % n = IF x < n THEN x ELSE x - n
OBVIOUS

(* So many whole items divide into so many (producerConsumer.c).           *)
LEMMA WholeItems ==
    ASSUME NEW n \in Nat \ {0}, NEW k \in Nat
    PROVE  (n * k) % n = 0 /\ (n * k) \div n = k
<1>1. (n * k) % n = 0
  OBVIOUS
<1>2. (n * k) \div n = k
  OBVIOUS
<1> QED
  BY <1>1, <1>2

(* A sequence is what its members are.                                     *)
LEMMA FunctionIsSeq ==
    ASSUME NEW S, NEW n \in Nat, NEW s \in [1 .. n -> S]
    PROVE  s \in Seq(S) /\ Len(s) = n /\ DOMAIN s = 1 .. n
<1>1. s \in Seq(S)
  BY SeqDef
<1>2. DOMAIN s = 1 .. n
  OBVIOUS
<1> QED
  BY <1>1, <1>2, LenProperties

(* u is one list after the other: the stubs save registers one group after *)
(* another, and ipcs prints one table after another.                       *)
Concatenation(u, s, t, S) ==
    /\ u \in Seq(S) /\ Len(u) = Len(s) + Len(t)
    /\ \A i \in 1 .. Len(s) + Len(t) : u[i] = IF i <= Len(s) THEN s[i] ELSE t[i - Len(s)]

LEMMA Concatenated ==
    ASSUME NEW S, NEW s \in Seq(S), NEW t \in Seq(S)
    PROVE  Concatenation(s \o t, s, t, S)
  BY ConcatProperties DEF Concatenation

-----------------------------------------------------------------------------
(* The words of a line. *)

(* What holds of 0, and of each number after one that it holds of.         *)
LEMMA StepByStep ==
    ASSUME NEW N \in Nat, NEW T, 0 \in T, \A n \in 1 .. N : n - 1 \in T => n \in T
    PROVE  \A n \in 0 .. N : n \in T
<1> DEFINE U == {n \in 0 .. N : n \notin T}
<1>1. ASSUME U # {} PROVE FALSE
  <2>1. U \in SUBSET Nat
    OBVIOUS
  <2>2. PICK m \in U : \A n \in U : m <= n
    BY <1>1, <2>1, SmallestOf
  <2>3. m \in 1 .. N
    OBVIOUS
  <2>4. m - 1 \in 0 .. N /\ ~(m <= m - 1)
    BY <2>3
  <2> QED
    BY <2>2, <2>3, <2>4
<1> QED
  BY <1>1

(* A function whose values come each from the one before.                  *)
LEMMA Iterated ==
    ASSUME NEW A, NEW a \in A, NEW N \in Nat, NEW F \in [1 .. N -> [A -> A]]
    PROVE  \E g \in [0 .. N -> A] : g[0] = a /\ \A n \in 1 .. N : g[n] = F[n][g[n - 1]]
<1> DEFINE Iterates(g, n) == g[0] = a /\ \A i \in 1 .. n : g[i] = F[i][g[i - 1]]
           T == {n \in 0 .. N : \E g \in [0 .. n -> A] : Iterates(g, n)}
<1>1. 0 \in T
  <2>1. PICK g : g = [i \in 0 .. 0 |-> a]
    OBVIOUS
  <2>2. g \in [0 .. 0 -> A] /\ g[0] = a /\ 1 .. 0 = {}
    BY <2>1
  <2> QED
    BY <2>2
<1>2. ASSUME NEW m \in 1 .. N, m - 1 \in T PROVE m \in T
  <2>1. PICK g \in [0 .. m - 1 -> A] : Iterates(g, m - 1)
    BY <1>2
  <2>2. PICK e \in A : e = F[m][g[m - 1]]
    <3>1. m - 1 \in 0 .. m - 1
      OBVIOUS
    <3>2. g[m - 1] \in A /\ F[m] \in [A -> A]
      BY <3>1
    <3> QED
      BY <3>2
  <2>3. PICK f : f = [i \in 0 .. m |-> IF i < m THEN g[i] ELSE e]
    OBVIOUS
  <2>4. f \in [0 .. m -> A]
    <3> SUFFICES ASSUME NEW i \in 0 .. m PROVE (IF i < m THEN g[i] ELSE e) \in A
      BY <2>3
    <3>1. i < m => i \in 0 .. m - 1
      OBVIOUS
    <3> QED
      BY <3>1
  <2>5. f[m] = e /\ \A i \in 0 .. m - 1 : f[i] = g[i]
    <3>1. m \in 0 .. m /\ ~(m < m) /\ \A i \in 0 .. m - 1 : i \in 0 .. m /\ i < m
      OBVIOUS
    <3> QED
      BY <2>3, <3>1
  <2>6. f[0] = a
    <3>1. 0 \in 0 .. m - 1
      OBVIOUS
    <3> QED
      BY <2>1, <2>5, <3>1
  <2>7. ASSUME NEW n \in 1 .. m PROVE f[n] = F[n][f[n - 1]]
    <3>1. n - 1 \in 0 .. m - 1
      OBVIOUS
    <3>2. CASE n = m
      BY <2>2, <2>5, <3>1, <3>2
    <3>3. CASE n # m
      <4>1. n \in 1 .. m - 1 /\ n \in 0 .. m - 1
        BY <3>3
      <4> QED
        BY <2>1, <2>5, <3>1, <4>1
    <3> QED
      BY <3>2, <3>3
  <2> QED
    BY <2>4, <2>6, <2>7
<1>3. N \in T
  <2> HIDE DEF T
  <2>1. N \in 0 .. N
    OBVIOUS
  <2> QED
    BY <1>1, <1>2, <2>1, StepByStep
<1> QED
  BY <1>3

(* The last of words with a character more.                                *)
LEMMA ExtendedIs ==
    ASSUME NEW C, NEW u \in Seq(Seq(C)), NEW r \in Seq(C), NEW c \in C
    PROVE  /\ u \o <<r>> \in Seq(Seq(C)) /\ u \o <<r>> # <<>>
           /\ Extended(u \o <<r>>, c) = u \o <<Append(r, c)>>
<1> DEFINE S == Seq(C)
<1>1. PICK e : e = Append(r, c)
  OBVIOUS
<1>2. e \in S
  BY <1>1, AppendProperties
<1>3. PICK n \in Nat : n = Len(u)
  BY LenProperties
<1>4. PICK w, x : w = u \o <<r>> /\ x = u \o <<e>>
  OBVIOUS
<1>12. u \in Seq(S) /\ r \in S
  OBVIOUS
<1>5. /\ <<r>> \in Seq(S) /\ Len(<<r>>) = 1 /\ <<r>>[1] = r
      /\ <<e>> \in Seq(S) /\ Len(<<e>>) = 1 /\ <<e>>[1] = e
  BY <1>2
<1>6. /\ w \in Seq(S) /\ Len(w) = n + 1
      /\ \A i \in 1 .. n + 1 : w[i] = IF i <= n THEN u[i] ELSE <<r>>[i - n]
  <2> HIDE DEF S
  <2> QED
    BY <1>3, <1>4, <1>5, <1>12, ConcatProperties
<1>7. /\ x \in Seq(S) /\ Len(x) = n + 1
      /\ \A i \in 1 .. n + 1 : x[i] = IF i <= n THEN u[i] ELSE <<e>>[i - n]
  <2> HIDE DEF S
  <2> QED
    BY <1>3, <1>4, <1>5, <1>12, ConcatProperties
<1>8. w[n + 1] = r /\ x[n + 1] = e
  <2>1. n + 1 \in 1 .. n + 1 /\ ~(n + 1 <= n) /\ n + 1 - n = 1
    OBVIOUS
  <2> QED
    BY <1>5, <1>6, <1>7, <2>1
<1>9. Extended(w, c) = [w EXCEPT ![n + 1] = e]
  BY <1>1, <1>6, <1>8 DEF Extended
<1>10. [w EXCEPT ![n + 1] = e] = x
  <2> HIDE DEF S
  <2>1. n + 1 \in 1 .. Len(w)
    BY <1>6
  <2>2. PICK y : y = [w EXCEPT ![n + 1] = e]
    OBVIOUS
  <2>3. /\ y \in Seq(S) /\ Len(y) = n + 1
        /\ \A j \in 1 .. n + 1 : y[j] = IF j = n + 1 THEN e ELSE w[j]
    <3>1. e \in S
      BY <1>2 DEF S
    <3> QED
      BY <1>6, <2>1, <2>2, <3>1, ExceptSeq
  <2>4. ASSUME NEW j \in 1 .. n + 1 PROVE y[j] = x[j]
    <3>1. CASE j = n + 1
      BY <1>8, <2>3, <3>1
    <3>2. CASE j # n + 1
      <4>1. j <= n
        BY <3>2
      <4> QED
        BY <1>6, <1>7, <2>3, <3>2, <4>1
    <3> QED
      BY <3>1, <3>2
  <2> QED
    BY <1>7, <2>2, <2>3, <2>4, SeqEqual
<1>11. w # <<>>
  <2>1. Len(<<>>) = 0
    OBVIOUS
  <2> QED
    BY <1>6, <2>1
<1> QED
  BY <1>1, <1>4, <1>6, <1>9, <1>10, <1>11

(* s is u and one element more, as what is not empty is.                   *)
EndsIn(s, u, e) ==
    /\ s = u \o <<e>> /\ s = Append(u, e) /\ Len(s) = Len(u) + 1 /\ Len(u) \in Nat
    /\ s[Len(s)] = e /\ SubSeq(s, 1, Len(s) - 1) = u
    /\ \A i \in 1 .. Len(u) : s[i] = u[i]

(* A list that is not empty has a last element.                            *)
LEMMA LastOff ==
    ASSUME NEW S, NEW s \in Seq(S), s # <<>>
    PROVE  \E u \in Seq(S), e \in S : EndsIn(s, u, e)
<1>1. PICK u \in Seq(S), e \in S : s = Append(u, e)
  BY SequenceEmptyOrAppend
<1>2. s = u \o <<e>>
  BY <1>1, AppendIsConcat
<1>3. PICK n \in Nat : n = Len(u)
  BY LenProperties
<1>4. /\ Len(s) = n + 1 /\ s[n + 1] = e
      /\ \A i \in 1 .. n : s[i] = u[i]
  BY <1>1, <1>3, AppendProperties
<1>5. SubSeq(s, 1, n) = u
  <2>1. \A i \in 1 .. n : s[i] \in S
    BY <1>3, <1>4, ElementOfSeq
  <2>2. PICK v : v = SubSeq(s, 1, n)
    OBVIOUS
  <2>3. 1 \in Int /\ n \in Int /\ n - 1 + 1 = n /\ (IF 1 <= n THEN n ELSE 0) = n
    OBVIOUS
  <2>4. /\ v \in Seq(S) /\ Len(v) = n
        /\ \A i \in 1 .. n : v[i] = s[1 + i - 1]
    BY <2>1, <2>2, <2>3, SubSeqProperties
  <2>5. \A i \in 1 .. n : v[i] = u[i]
    <3> TAKE i \in 1 .. n
    <3>1. 1 + i - 1 = i
      OBVIOUS
    <3> QED
      BY <1>4, <2>4, <3>1
  <2> QED
    BY <1>3, <2>2, <2>4, <2>5, SeqEqual
<1>6. Len(s) - 1 = n
  BY <1>4
<1> QED
  BY <1>1, <1>2, <1>3, <1>4, <1>5, <1>6 DEF EndsIn
-----------------------------------------------------------------------------
(* The words of a line. *)

(* One element makes a sequence.                                           *)
LEMMA OneOf ==
    ASSUME NEW S, NEW x \in S
    PROVE  <<x>> \in Seq(S) /\ Len(<<x>>) = 1 /\ <<x>>[1] = x
OBVIOUS

(* The pieces of a line of characters.                                     *)
SomePieces(C) == Seq(Seq(C)) \ {<<>>}

(* A step of the loop of build_arguments leaves pieces of a line.          *)
LEMMA PiecesSteps ==
    ASSUME NEW C, NEW x \in SomePieces(C), NEW c \in C
    PROVE  Append(x, <<>>) \in SomePieces(C) /\ Extended(x, c) \in SomePieces(C)
<1>1. PICK S : S = Seq(C)
  OBVIOUS
<1>2. x \in Seq(S) /\ x # <<>> /\ <<>> \in S
  BY <1>1, EmptySeq DEF SomePieces
<1>3. PICK u \in Seq(S), r \in S : x = u \o <<r>>
  <2>1. PICK u \in Seq(S), r \in S : x = Append(u, r)
    BY <1>2, SequenceEmptyOrAppend
  <2>2. x = u \o <<r>>
    BY <2>1, AppendIsConcat
  <2> QED
    BY <2>2
<1>4. Append(x, <<>>) \in Seq(S) /\ Append(x, <<>>) # <<>>
  BY <1>2, AppendProperties
<1>5. Append(r, c) \in S
  BY <1>1, <1>3, AppendProperties
<1>6. Extended(x, c) = u \o <<Append(r, c)>>
  BY <1>1, <1>3, ExtendedIs
<1>7. u \o <<Append(r, c)>> \in Seq(Seq(C)) /\ u \o <<Append(r, c)>> # <<>>
  BY <1>1, <1>3, <1>5, ExtendedIs
<1> QED
  BY <1>1, <1>4, <1>6, <1>7 DEF SomePieces

(* The loop starts with one empty piece.                                   *)
LEMMA NoPieces ==
    ASSUME NEW C
    PROVE  <<<<>>>> \in SomePieces(C)
<1>1. PICK S : S = Seq(C)
  OBVIOUS
<1>2. <<>> \in S
  BY <1>1, EmptySeq
<1>3. <<<<>>>> \in Seq(S) /\ Len(<<<<>>>>) = 1
  BY <1>2, OneOf
<1>4. Len(<<>>) = 0
  OBVIOUS
<1> QED
  BY <1>1, <1>3, <1>4 DEF SomePieces

(* The loop of build_arguments, as a function.                             *)
IsSplit(g, s) ==
    g = [j \in 0 .. Len(s) |->
            IF j = 0 THEN <<<<>>>>
            ELSE IF s[j] = Space THEN Append(g[j - 1], <<>>)
            ELSE Extended(g[j - 1], s[j])]

(* The loop has a run for every line.                                      *)
LEMMA SplitExists ==
    ASSUME NEW C, NEW s \in Seq(C)
    PROVE  \E g : IsSplit(g, s)
<1> DEFINE Step(j, x) == IF s[j] = Space THEN Append(x, <<>>) ELSE Extended(x, s[j])
<1>1. PICK N \in Nat : N = Len(s)
  BY LenProperties
<1>2. PICK A : A = SomePieces(C)
  OBVIOUS
<1>3. ASSUME NEW j \in 1 .. N, NEW x \in A PROVE Step(j, x) \in A
  <2>1. s[j] \in C
    BY <1>1, ElementOfSeq
  <2> QED
    BY <1>2, <2>1, PiecesSteps
<1>4. PICK e \in A : e = <<<<>>>>
  BY <1>2, NoPieces
<1>5. PICK F : F = [j \in 1 .. N |-> [x \in A |-> Step(j, x)]]
  OBVIOUS
<1>6. F \in [1 .. N -> [A -> A]]
  <2> HIDE DEF Step
  <2>1. ASSUME NEW j \in 1 .. N PROVE [x \in A |-> Step(j, x)] \in [A -> A]
    BY <1>3
  <2> QED
    BY <1>5, <2>1
<1>7. PICK g \in [0 .. N -> A] : g[0] = e /\ \A n \in 1 .. N : g[n] = F[n][g[n - 1]]
  BY <1>6, Iterated
<1>8. ASSUME NEW j \in 1 .. N PROVE g[j] = Step(j, g[j - 1])
  <2>1. g[j] = F[j][g[j - 1]]
    BY <1>7
  <2>2. g[j - 1] \in A
    <3>1. j - 1 \in 0 .. N
      OBVIOUS
    <3> QED
      BY <1>7, <3>1
  <2>3. F[j] = [x \in A |-> Step(j, x)]
    <3> HIDE DEF Step
    <3> QED
      BY <1>5
  <2> HIDE DEF Step
  <2> QED
    BY <2>1, <2>2, <2>3
<1>9. g = [j \in 0 .. N |-> IF j = 0 THEN <<<<>>>> ELSE Step(j, g[j - 1])]
  <2> HIDE DEF Step
  <2>1. ASSUME NEW j \in 0 .. N PROVE g[j] = IF j = 0 THEN <<<<>>>> ELSE Step(j, g[j - 1])
    <3>1. j # 0 => j \in 1 .. N
      OBVIOUS
    <3> QED
      BY <1>4, <1>7, <1>8, <3>1
  <2> QED
    BY <1>7, <2>1
<1> QED
  BY <1>1, <1>9 DEF IsSplit

(* The pieces after each character.                                        *)
SplitLoop(g, s, C) ==
    /\ \A j \in 0 .. Len(s) : g[j] \in SomePieces(C)
    /\ g[0] = <<<<>>>>
    /\ \A j \in 1 .. Len(s) :
         g[j] = IF s[j] = Space THEN Append(g[j - 1], <<>>) ELSE Extended(g[j - 1], s[j])
    /\ Split(s) = g[Len(s)]

(* Split is the end of the run of its loop.                                *)
LEMMA SplitIs ==
    ASSUME NEW C, NEW s \in Seq(C)
    PROVE  \E g : SplitLoop(g, s, C)
<1>1. PICK g : g = CHOOSE g1 : IsSplit(g1, s)
  OBVIOUS
<1>2. IsSplit(g, s)
  <2>1. \E g1 : IsSplit(g1, s)
    BY SplitExists
  <2> QED
    BY <1>1, <2>1, Zenon
<1>3. Split(s) = g[Len(s)]
  BY <1>1 DEF Split, IsSplit
<1>4. PICK N \in Nat : N = Len(s)
  BY LenProperties
<1>5. g[0] = <<<<>>>>
  <2>1. 0 \in 0 .. N
    OBVIOUS
  <2> QED
    BY <1>2, <1>4, <2>1 DEF IsSplit
<1>6. ASSUME NEW j \in 1 .. N
      PROVE  g[j] = IF s[j] = Space THEN Append(g[j - 1], <<>>) ELSE Extended(g[j - 1], s[j])
  <2>1. j \in 0 .. N /\ j # 0
    OBVIOUS
  <2> QED
    BY <1>2, <1>4, <2>1 DEF IsSplit
<1> DEFINE T == {j \in 0 .. N : g[j] \in SomePieces(C)}
<1>7. 0 \in T
  BY <1>5, NoPieces
<1>8. ASSUME NEW j \in 1 .. N, j - 1 \in T PROVE j \in T
  <2>1. s[j] \in C /\ g[j - 1] \in SomePieces(C)
    BY <1>4, <1>8, ElementOfSeq
  <2>2. g[j] \in SomePieces(C)
    BY <1>6, <2>1, PiecesSteps
  <2> QED
    BY <2>2
<1>9. \A j \in 0 .. N : j \in T
  <2> HIDE DEF T
  <2> QED
    BY <1>7, <1>8, StepByStep
<1> QED
  BY <1>3, <1>4, <1>5, <1>6, <1>9 DEF SplitLoop

(* A character more: a space starts a piece, another extends the last.     *)
LEMMA SplitSteps ==
    ASSUME NEW C, NEW s \in Seq(C), NEW c \in C
    PROVE  /\ Split(s) \in SomePieces(C)
           /\ Split(Append(s, c)) = IF c = Space THEN Append(Split(s), <<>>)
                                    ELSE Extended(Split(s), c)
<1>1. PICK N \in Nat : N = Len(s)
  BY LenProperties
<1>2. PICK t : t = Append(s, c)
  OBVIOUS
<1>3. t \in Seq(C) /\ Len(t) = N + 1 /\ t[N + 1] = c /\ \A j \in 1 .. N : t[j] = s[j]
  BY <1>1, <1>2, AppendProperties
<1>4. PICK g : SplitLoop(g, s, C)
  BY SplitIs
<1>5. PICK h : SplitLoop(h, t, C)
  BY <1>3, SplitIs
<1> DEFINE T == {j \in 0 .. N : g[j] = h[j]}
<1>6. 0 \in T
  <2>1. 0 \in 0 .. N
    OBVIOUS
  <2>2. g[0] = h[0]
    BY <1>4, <1>5, Zenon DEF SplitLoop
  <2> QED
    BY <2>1, <2>2
<1>7. ASSUME NEW j \in 1 .. N, j - 1 \in T PROVE j \in T
  <2>1. j \in 1 .. N + 1 /\ t[j] = s[j] /\ g[j - 1] = h[j - 1]
    BY <1>3, <1>7
  <2>2. g[j] = IF s[j] = Space THEN Append(g[j - 1], <<>>) ELSE Extended(g[j - 1], s[j])
    BY <1>1, <1>4 DEF SplitLoop
  <2>3. h[j] = IF t[j] = Space THEN Append(h[j - 1], <<>>) ELSE Extended(h[j - 1], t[j])
    BY <1>3, <1>5, <2>1 DEF SplitLoop
  <2>4. g[j] = h[j]
    BY <2>1, <2>2, <2>3, Zenon
  <2> QED
    BY <2>4
<1>8. g[N] = h[N]
  <2>1. \A j \in 0 .. N : j \in T
    <3> HIDE DEF T
    <3> QED
      BY <1>6, <1>7, StepByStep
  <2> QED
    BY <2>1
<1>9. Split(s) = g[N] /\ g[N] \in SomePieces(C)
  <2>1. N \in 0 .. N
    OBVIOUS
  <2> QED
    BY <1>1, <1>4, <2>1 DEF SplitLoop
<1>10. Split(t) = h[N + 1]
  BY <1>3, <1>5 DEF SplitLoop
<1>11. h[N + 1] = IF c = Space THEN Append(h[N], <<>>) ELSE Extended(h[N], c)
  <2>1. PICK k \in 1 .. N + 1 : k = N + 1 /\ k - 1 = N
    OBVIOUS
  <2>2. h[k] = IF t[k] = Space THEN Append(h[k - 1], <<>>) ELSE Extended(h[k - 1], t[k])
    BY <1>3, <1>5 DEF SplitLoop
  <2>3. t[k] = c
    BY <1>3, <2>1
  <2> QED
    BY <2>1, <2>2, <2>3, Zenon
<1> QED
  BY <1>2, <1>8, <1>9, <1>10, <1>11

(* An empty line is one empty piece.                                       *)
LEMMA SplitEmpty ==
    Split(<<>>) = <<<<>>>>
<1>1. PICK C : C = {}
  OBVIOUS
<1>2. <<>> \in Seq(C) /\ Len(<<>>) = 0
  BY EmptySeq
<1>3. PICK g : SplitLoop(g, <<>>, C)
  BY <1>2, SplitIs
<1> QED
  BY <1>2, <1>3 DEF SplitLoop

(* With no piece there is none to go on.                                   *)
LEMMA ExtendedNothing ==
    ASSUME NEW c
    PROVE  Extended(<<>>, c) = <<>>
<1>1. Len(<<>>) = 0 /\ DOMAIN <<>> = {}
  OBVIOUS
<1>2. PICK f : f = Extended(<<>>, c)
  OBVIOUS
<1>3. f = [<<>> EXCEPT ![0] = Append(<<>>[0], c)]
  BY <1>1, <1>2 DEF Extended
<1> QED
  BY <1>1, <1>2, <1>3

(* The words of a line, character after character.                         *)
IsWords(g, t) ==
    g = [j \in 0 .. Len(t) |->
            IF j = 0 THEN <<>>
            ELSE IF t[j] = Space THEN g[j - 1]
            ELSE IF j = 1 \/ t[j - 1] = Space THEN Append(g[j - 1], <<t[j]>>)
            ELSE Extended(g[j - 1], t[j])]

(* A word starts with a character, and goes on.                            *)
LEMMA WordOfOne ==
    ASSUME NEW C, NEW x \in Seq(Seq(C)), NEW c \in C
    PROVE  /\ Append(x, <<c>>) \in SomePieces(C)
           /\ Extended(x, c) \in Seq(Seq(C))
           /\ x # <<>> => Extended(x, c) # <<>>
<1>1. PICK S : S = Seq(C)
  OBVIOUS
<1>2. PICK w \in S : w = <<c>>
  BY <1>1, OneOf
<1>3. Append(x, w) \in Seq(S) /\ Append(x, w) # <<>>
  <2>1. x \in Seq(S)
    BY <1>1
  <2> HIDE <1>1
  <2> QED
    BY <2>1, AppendProperties
<1>4. CASE x = <<>>
  BY <1>1, <1>2, <1>3, <1>4, ExtendedNothing DEF SomePieces
<1>5. CASE x # <<>>
  <2>1. Extended(x, c) \in SomePieces(C)
    BY <1>5, PiecesSteps DEF SomePieces
  <2> QED
    BY <1>1, <1>2, <1>3, <2>1 DEF SomePieces
<1> QED
  BY <1>4, <1>5

(* The words of every line can be read off it.                             *)
LEMMA WordsExist ==
    ASSUME NEW C, NEW t \in Seq(C)
    PROVE  \E g : IsWords(g, t)
<1> DEFINE Step(j, x) == IF t[j] = Space THEN x
                         ELSE IF j = 1 \/ t[j - 1] = Space THEN Append(x, <<t[j]>>)
                         ELSE Extended(x, t[j])
<1>1. PICK N \in Nat : N = Len(t)
  BY LenProperties
<1>2. PICK A : A = Seq(Seq(C))
  OBVIOUS
<1>3. ASSUME NEW j \in 1 .. N, NEW x \in A PROVE Step(j, x) \in A
  <2>1. t[j] \in C
    BY <1>1, ElementOfSeq
  <2> QED
    BY <1>2, <2>1, WordOfOne DEF SomePieces
<1>4. PICK e \in A : e = <<>>
  BY <1>2, EmptySeq
<1>5. PICK F : F = [j \in 1 .. N |-> [x \in A |-> Step(j, x)]]
  OBVIOUS
<1>6. F \in [1 .. N -> [A -> A]]
  <2> HIDE DEF Step
  <2>1. ASSUME NEW j \in 1 .. N PROVE [x \in A |-> Step(j, x)] \in [A -> A]
    BY <1>3
  <2> QED
    BY <1>5, <2>1
<1>7. PICK g \in [0 .. N -> A] : g[0] = e /\ \A n \in 1 .. N : g[n] = F[n][g[n - 1]]
  BY <1>6, Iterated
<1>8. ASSUME NEW j \in 1 .. N PROVE g[j] = Step(j, g[j - 1])
  <2>1. g[j] = F[j][g[j - 1]]
    BY <1>7
  <2>2. g[j - 1] \in A
    <3>1. j - 1 \in 0 .. N
      OBVIOUS
    <3> QED
      BY <1>7, <3>1
  <2>3. F[j] = [x \in A |-> Step(j, x)]
    <3> HIDE DEF Step
    <3> QED
      BY <1>5
  <2> HIDE DEF Step
  <2> QED
    BY <2>1, <2>2, <2>3
<1>9. g = [j \in 0 .. N |-> IF j = 0 THEN <<>> ELSE Step(j, g[j - 1])]
  <2> HIDE DEF Step
  <2>1. ASSUME NEW j \in 0 .. N PROVE g[j] = IF j = 0 THEN <<>> ELSE Step(j, g[j - 1])
    <3>1. j # 0 => j \in 1 .. N
      OBVIOUS
    <3> QED
      BY <1>4, <1>7, <1>8, <3>1
  <2> QED
    BY <1>7, <2>1
<1> QED
  BY <1>1, <1>9 DEF IsWords

(* What is read off a line.                                                *)
WordsLoop(g, t, C) ==
    /\ \A j \in 0 .. Len(t) : g[j] \in Seq(Seq(C))
    /\ g[0] = <<>>
    /\ \A j \in 1 .. Len(t) :
         /\ g[j] = IF t[j] = Space THEN g[j - 1]
                   ELSE IF j = 1 \/ t[j - 1] = Space THEN Append(g[j - 1], <<t[j]>>)
                   ELSE Extended(g[j - 1], t[j])
         /\ t[j] # Space => g[j] # <<>>
    /\ Words(t) = g[Len(t)]

(* Words is what has been read at the end of the line.                     *)
LEMMA WordsAre ==
    ASSUME NEW C, NEW t \in Seq(C)
    PROVE  \E g : WordsLoop(g, t, C)
<1>1. PICK g : g = CHOOSE g1 : IsWords(g1, t)
  OBVIOUS
<1>2. IsWords(g, t)
  <2>1. \E g1 : IsWords(g1, t)
    BY WordsExist
  <2> QED
    BY <1>1, <2>1, Zenon
<1>3. Words(t) = g[Len(t)]
  BY <1>1 DEF Words, IsWords
<1>4. PICK N \in Nat : N = Len(t)
  BY LenProperties
<1>5. g[0] = <<>>
  <2>1. 0 \in 0 .. N
    OBVIOUS
  <2> QED
    BY <1>2, <1>4, <2>1 DEF IsWords
<1>6. ASSUME NEW j \in 1 .. N
      PROVE  g[j] = IF t[j] = Space THEN g[j - 1]
                    ELSE IF j = 1 \/ t[j - 1] = Space THEN Append(g[j - 1], <<t[j]>>)
                    ELSE Extended(g[j - 1], t[j])
  <2>1. j \in 0 .. N /\ j # 0
    OBVIOUS
  <2> QED
    BY <1>2, <1>4, <2>1 DEF IsWords
<1> DEFINE OK(j) == g[j] \in Seq(Seq(C)) /\ (j > 0 /\ t[j] # Space => g[j] # <<>>)
           T == {j \in 0 .. N : OK(j)}
<1>7. OK(0)
  <2>1. <<>> \in Seq(Seq(C))
    <3>1. PICK S : S = Seq(C)
      OBVIOUS
    <3> QED
      BY <3>1, EmptySeq
  <2> QED
    BY <1>5, <2>1
<1>8. ASSUME NEW j \in 1 .. N, OK(j - 1) PROVE OK(j)
  <2>1. g[j - 1] \in Seq(Seq(C)) /\ (j - 1 > 0 /\ t[j - 1] # Space => g[j - 1] # <<>>)
    BY <1>8
  <2>2. t[j] \in C
    BY <1>4, ElementOfSeq
  <2>3. CASE t[j] = Space
    <3>1. g[j] = g[j - 1]
      BY <1>6, <2>3
    <3> QED
      BY <2>1, <2>3, <3>1
  <2>4. CASE t[j] # Space /\ (j = 1 \/ t[j - 1] = Space)
    <3>1. g[j] = Append(g[j - 1], <<t[j]>>)
      BY <1>6, <2>4
    <3>2. Append(g[j - 1], <<t[j]>>) \in SomePieces(C)
      BY <2>1, <2>2, WordOfOne
    <3>3. g[j] \in Seq(Seq(C)) /\ g[j] # <<>>
      BY <3>1, <3>2 DEF SomePieces
    <3> QED
      BY <3>3
  <2>5. CASE t[j] # Space /\ ~(j = 1 \/ t[j - 1] = Space)
    <3>1. g[j] = Extended(g[j - 1], t[j])
      BY <1>6, <2>5
    <3>2. g[j - 1] # <<>>
      <4>1. j - 1 > 0
        <5>1. j # 1
          BY <2>5
        <5> QED
          BY <5>1
      <4> QED
        BY <2>1, <2>5, <4>1
    <3>3. g[j] \in Seq(Seq(C)) /\ g[j] # <<>>
      BY <2>1, <2>2, <3>1, <3>2, WordOfOne
    <3> QED
      BY <3>3
  <2> QED
    BY <2>3, <2>4, <2>5
<1>9. \A j \in 0 .. N : OK(j)
  <2> HIDE DEF OK
  <2>1. 0 \in T
    BY <1>7
  <2>2. ASSUME NEW j \in 1 .. N, j - 1 \in T PROVE j \in T
    BY <1>8, <2>2
  <2>3. \A j \in 0 .. N : j \in T
    <3> HIDE DEF T
    <3> QED
      BY <2>1, <2>2, StepByStep
  <2> QED
    BY <2>3
<1>10. \A j \in 1 .. N : t[j] # Space => g[j] # <<>>
  <2> TAKE j \in 1 .. N
  <2>1. j \in 0 .. N /\ j > 0
    OBVIOUS
  <2> QED
    BY <1>9, <2>1
<1>11. \A j \in 0 .. N : g[j] \in Seq(Seq(C))
  BY <1>9
<1> QED
  BY <1>3, <1>4, <1>5, <1>6, <1>10, <1>11 DEF WordsLoop

(* A character more: a space changes nothing, another starts a word at the *)
(* start and after a space, and goes on with the last elsewhere.           *)
LEMMA WordsSteps ==
    ASSUME NEW C, NEW s \in Seq(C), NEW c \in C
    PROVE  /\ Words(s) \in Seq(Seq(C))
           /\ s # <<>> /\ s[Len(s)] # Space => Words(s) # <<>>
           /\ c = Space => Words(Append(s, c)) = Words(s)
           /\ c # Space /\ (s = <<>> \/ s[Len(s)] = Space) =>
                Words(Append(s, c)) = Append(Words(s), <<c>>)
           /\ c # Space /\ s # <<>> /\ s[Len(s)] # Space =>
                Words(Append(s, c)) = Extended(Words(s), c)
<1>1. PICK N \in Nat : N = Len(s)
  BY LenProperties
<1>2. PICK t : t = Append(s, c)
  OBVIOUS
<1>3. t \in Seq(C) /\ Len(t) = N + 1 /\ t[N + 1] = c /\ \A j \in 1 .. N : t[j] = s[j]
  BY <1>1, <1>2, AppendProperties
<1>4. PICK g : WordsLoop(g, s, C)
  BY WordsAre
<1>5. PICK h : WordsLoop(h, t, C)
  BY <1>3, WordsAre
<1> DEFINE T == {j \in 0 .. N : g[j] = h[j]}
<1>6. 0 \in T
  <2>1. 0 \in 0 .. N
    OBVIOUS
  <2>2. g[0] = h[0]
    BY <1>4, <1>5, Zenon DEF WordsLoop
  <2> QED
    BY <2>1, <2>2
<1>7. ASSUME NEW j \in 1 .. N, j - 1 \in T PROVE j \in T
  <2>1. j \in 1 .. N + 1 /\ t[j] = s[j] /\ g[j - 1] = h[j - 1]
    BY <1>3, <1>7
  <2>2. j # 1 => t[j - 1] = s[j - 1]
    <3>1. j # 1 => j - 1 \in 1 .. N
      OBVIOUS
    <3> QED
      BY <1>3, <3>1
  <2>3. g[j] = IF s[j] = Space THEN g[j - 1]
               ELSE IF j = 1 \/ s[j - 1] = Space THEN Append(g[j - 1], <<s[j]>>)
               ELSE Extended(g[j - 1], s[j])
    BY <1>1, <1>4 DEF WordsLoop
  <2>4. h[j] = IF t[j] = Space THEN h[j - 1]
               ELSE IF j = 1 \/ t[j - 1] = Space THEN Append(h[j - 1], <<t[j]>>)
               ELSE Extended(h[j - 1], t[j])
    BY <1>3, <1>5, <2>1 DEF WordsLoop
  <2>5. g[j] = h[j]
    BY <2>1, <2>2, <2>3, <2>4, Zenon
  <2> QED
    BY <2>5
<1>8. g[N] = h[N]
  <2>1. \A j \in 0 .. N : j \in T
    <3> HIDE DEF T
    <3> QED
      BY <1>6, <1>7, StepByStep
  <2>2. N \in 0 .. N
    OBVIOUS
  <2> QED
    BY <2>1, <2>2
<1>9. Words(s) = g[N] /\ g[N] \in Seq(Seq(C))
  <2>1. N \in 0 .. N
    OBVIOUS
  <2> QED
    BY <1>1, <1>4, <2>1 DEF WordsLoop
<1>10. s # <<>> /\ s[N] # Space => Words(s) # <<>>
  <2>1. s # <<>> => N \in 1 .. N
    BY <1>1, EmptySeq
  <2> QED
    BY <1>1, <1>4, <1>9, <2>1 DEF WordsLoop
<1>11. Words(t) = h[N + 1]
  BY <1>3, <1>5 DEF WordsLoop
<1>12. PICK k \in 1 .. N + 1 : k = N + 1 /\ k - 1 = N
  OBVIOUS
<1>13. h[k] = IF t[k] = Space THEN h[k - 1]
              ELSE IF k = 1 \/ t[k - 1] = Space THEN Append(h[k - 1], <<t[k]>>)
              ELSE Extended(h[k - 1], t[k])
  BY <1>3, <1>5 DEF WordsLoop
<1>14. t[k] = c /\ (k = 1 <=> s = <<>>) /\ (k # 1 => t[k - 1] = s[N])
  <2>1. s = <<>> <=> N = 0
    BY <1>1, EmptySeq
  <2>2. N # 0 => N \in 1 .. N
    OBVIOUS
  <2> QED
    BY <1>3, <1>12, <2>1, <2>2
<1>15. Words(t) = IF c = Space THEN Words(s)
                  ELSE IF s = <<>> \/ s[N] = Space THEN Append(Words(s), <<c>>)
                  ELSE Extended(Words(s), c)
  <2>1. h[k] = Words(t) /\ h[k - 1] = Words(s)
    BY <1>8, <1>9, <1>11, <1>12
  <2> QED
    BY <1>13, <1>14, <2>1, Zenon
<1>16. PICK x, y, z, w : x = Words(s) /\ y = Words(t) /\ z = Append(x, <<c>>) /\ w = Extended(x, c)
  OBVIOUS
<1>17. y = IF c = Space THEN x ELSE IF s = <<>> \/ s[N] = Space THEN z ELSE w
  BY <1>15, <1>16
<1> QED
  BY <1>1, <1>2, <1>9, <1>10, <1>16, <1>17

(* An empty line has no words.                                             *)
LEMMA WordsEmpty ==
    Words(<<>>) = <<>>
<1>1. PICK C : C = {}
  OBVIOUS
<1>2. <<>> \in Seq(C) /\ Len(<<>>) = 0
  BY EmptySeq
<1>3. PICK g : WordsLoop(g, <<>>, C)
  BY <1>2, WordsAre
<1> QED
  BY <1>2, <1>3 DEF WordsLoop

(* To append to a list is to append to its end.                            *)
LEMMA ConcatAppend ==
    ASSUME NEW S, NEW a \in Seq(S), NEW b \in Seq(S), NEW e \in S
    PROVE  a \o Append(b, e) = Append(a \o b, e)
BY AppendIsConcat, ConcatAssociative, ConcatProperties

(* The last piece of some.                                                 *)
LEMMA LastPiece ==
    ASSUME NEW C, NEW x \in SomePieces(C)
    PROVE  \E a \in Seq(Seq(C)), p \in Seq(C) : x = a \o <<p>>
<1>1. PICK S : S = Seq(C)
  OBVIOUS
<1>2. x \in Seq(S) /\ x # <<>>
  BY <1>1 DEF SomePieces
<1>3. PICK a \in Seq(S), p \in S : x = Append(a, p)
  BY <1>2, SequenceEmptyOrAppend
<1>4. x = a \o <<p>>
  BY <1>3, AppendIsConcat
<1> QED
  BY <1>1, <1>4

(* A piece is added, or goes on, after others.                             *)
StepsAfter(a, b, c, C) ==
    /\ a \o Append(b, <<>>) = Append(a \o b, <<>>)
    /\ a \o Extended(b, c) = Extended(a \o b, c)
    /\ a \o b \in Seq(Seq(C))

LEMMA StepAfter ==
    ASSUME NEW C, NEW a \in Seq(Seq(C)), NEW b \in SomePieces(C), NEW c \in C
    PROVE  StepsAfter(a, b, c, C)
<1>1. PICK S : S = Seq(C)
  OBVIOUS
<1>2. a \in Seq(S) /\ b \in Seq(S) /\ <<>> \in S
  BY <1>1, EmptySeq DEF SomePieces
<1>3. a \o Append(b, <<>>) = Append(a \o b, <<>>) /\ a \o b \in Seq(S)
  <2>1. PICK e \in S : e = <<>>
    BY <1>2
  <2>2. a \o Append(b, e) = Append(a \o b, e) /\ a \o b \in Seq(S)
    BY <1>2, ConcatAppend, ConcatProperties
  <2> QED
    BY <2>1, <2>2
<1>4. PICK d \in Seq(Seq(C)), p \in Seq(C) : b = d \o <<p>>
  BY LastPiece
<1>5. PICK e \in S : e = Append(p, c)
  BY <1>1, AppendProperties
<1>6. Extended(b, c) = d \o <<e>>
  BY <1>4, <1>5, ExtendedIs
<1>7. PICK k \in Seq(S) : k = a \o d
  BY <1>1, <1>2, ConcatProperties
<1>8. <<p>> \in Seq(S) /\ <<e>> \in Seq(S) /\ d \in Seq(S)
  BY <1>1, OneOf
<1>9. a \o b = k \o <<p>>
  BY <1>2, <1>4, <1>7, <1>8, ConcatAssociative
<1>10. a \o (d \o <<e>>) = k \o <<e>>
  BY <1>2, <1>7, <1>8, ConcatAssociative
<1>11. Extended(k \o <<p>>, c) = k \o <<e>>
  <2>1. k \in Seq(Seq(C))
    BY <1>1
  <2> QED
    BY <1>5, <2>1, ExtendedIs
<1>12. /\ a \o Append(b, <<>>) = Append(a \o b, <<>>)
       /\ a \o Extended(b, c) = Extended(a \o b, c)
       /\ a \o b \in Seq(Seq(C))
  BY <1>1, <1>3, <1>6, <1>9, <1>10, <1>11
<1> QED
  BY <1>12 DEF StepsAfter

(* A line and the end of it are cut the same way.                          *)
LEMMA SplitGoesOn ==
    ASSUME NEW C, NEW a \in Seq(Seq(C)), NEW s \in Seq(C), NEW t \in Seq(C), NEW c \in C,
           Split(t) = a \o Split(s)
    PROVE  Split(Append(t, c)) = a \o Split(Append(s, c))
<1>1. PICK b \in SomePieces(C) : b = Split(s)
  BY SplitSteps
<1>2. Split(Append(s, c)) = IF c = Space THEN Append(b, <<>>) ELSE Extended(b, c)
  BY <1>1, SplitSteps
<1>3. Split(Append(t, c)) = IF c = Space THEN Append(a \o b, <<>>) ELSE Extended(a \o b, c)
  BY <1>1, SplitSteps
<1>4. /\ a \o Append(b, <<>>) = Append(a \o b, <<>>)
      /\ a \o Extended(b, c) = Extended(a \o b, c)
  <2>1. StepsAfter(a, b, c, C)
    BY StepAfter
  <2> QED
    BY <2>1 DEF StepsAfter
<1> QED
  BY <1>2, <1>3, <1>4, Zenon

(* A space divides the pieces of what is before from those of what is after*)
LEMMA SplitAtSpace ==
    ASSUME NEW C, Space \in C, NEW u \in Seq(C), NEW v \in Seq(C)
    PROVE  Split(Append(u, Space) \o v) = Split(u) \o Split(v)
<1>1. PICK w \in Seq(C) : w = Append(u, Space)
  BY AppendProperties
<1>2. PICK a \in Seq(Seq(C)) : a = Split(u)
  BY SplitSteps DEF SomePieces
<1>3. PICK N \in Nat : N = Len(v)
  BY LenProperties
<1> DEFINE OK(n) == \A x \in Seq(C) : Len(x) = n => Split(w \o x) = a \o Split(x)
           T == {n \in 0 .. N : OK(n)}
<1>4. OK(0)
  <2> SUFFICES ASSUME NEW x \in Seq(C), Len(x) = 0 PROVE Split(w \o x) = a \o Split(x)
    OBVIOUS
  <2>1. x = <<>> /\ w \o x = w
    BY EmptySeq, ConcatEmptySeq
  <2>2. Split(w) = Append(a, <<>>)
    BY <1>1, <1>2, SplitSteps
  <2>3. PICK S : S = Seq(C)
    OBVIOUS
  <2>4. <<>> \in S /\ a \in Seq(S)
    BY <2>3, EmptySeq
  <2>5. Append(a, <<>>) = a \o <<<<>>>>
    BY <2>4, AppendIsConcat
  <2> QED
    BY <2>1, <2>2, <2>5, SplitEmpty
<1>5. ASSUME NEW n \in 1 .. N, OK(n - 1) PROVE OK(n)
  <2> SUFFICES ASSUME NEW x \in Seq(C), Len(x) = n PROVE Split(w \o x) = a \o Split(x)
    OBVIOUS
  <2>1. x # <<>>
    BY EmptySeq
  <2>2. PICK r \in Seq(C), c \in C : EndsIn(x, r, c)
    BY <2>1, LastOff
  <2>3. x = Append(r, c) /\ Len(r) = n - 1
    BY <2>2 DEF EndsIn
  <2>4. Split(w \o r) = a \o Split(r)
    BY <1>5, <2>3
  <2>5. PICK k \in Seq(C) : k = w \o r /\ w \o x = Append(k, c)
    <3>1. w \o r \in Seq(C) /\ w \o Append(r, c) = Append(w \o r, c)
      BY ConcatAppend, ConcatProperties
    <3> QED
      BY <2>3, <3>1
  <2>6. Split(Append(k, c)) = a \o Split(Append(r, c))
    BY <2>4, <2>5, SplitGoesOn
  <2> QED
    BY <2>3, <2>5, <2>6
<1>6. \A n \in 0 .. N : OK(n)
  <2> HIDE DEF OK
  <2>1. 0 \in T
    BY <1>4
  <2>2. ASSUME NEW n \in 1 .. N, n - 1 \in T PROVE n \in T
    BY <1>5, <2>2
  <2>3. \A n \in 0 .. N : n \in T
    <3> HIDE DEF T
    <3> QED
      BY <2>1, <2>2, StepByStep
  <2> QED
    BY <2>3
<1>7. N \in 0 .. N
  OBVIOUS
<1> QED
  BY <1>1, <1>2, <1>3, <1>6, <1>7

(* Without spaces there is one piece.                                      *)
LEMMA SplitWhole ==
    ASSUME NEW C, NEW v \in Seq(C), \A i \in 1 .. Len(v) : v[i] # Space
    PROVE  Split(v) = <<v>>
<1>1. PICK N \in Nat : N = Len(v)
  BY LenProperties
<1> DEFINE OK(n) == \A x \in Seq(C) :
                     Len(x) = n /\ (\A i \in 1 .. n : x[i] # Space) => Split(x) = <<x>>
           T == {n \in 0 .. N : OK(n)}
<1>2. OK(0)
  <2> SUFFICES ASSUME NEW x \in Seq(C), Len(x) = 0 PROVE Split(x) = <<x>>
    OBVIOUS
  <2>1. x = <<>>
    BY EmptySeq
  <2> QED
    BY <2>1, SplitEmpty
<1>3. ASSUME NEW n \in 1 .. N, OK(n - 1) PROVE OK(n)
  <2> SUFFICES ASSUME NEW x \in Seq(C), Len(x) = n, \A i \in 1 .. n : x[i] # Space
               PROVE  Split(x) = <<x>>
    OBVIOUS
  <2>1. x # <<>>
    BY EmptySeq
  <2>2. PICK r \in Seq(C), c \in C : EndsIn(x, r, c)
    BY <2>1, LastOff
  <2>3. /\ x = Append(r, c) /\ Len(r) = n - 1 /\ x[n] = c
        /\ \A i \in 1 .. n - 1 : x[i] = r[i]
    BY <2>2 DEF EndsIn
  <2>4. c # Space /\ \A i \in 1 .. n - 1 : r[i] # Space
    <3>1. n \in 1 .. n /\ \A i \in 1 .. n - 1 : i \in 1 .. n
      OBVIOUS
    <3> QED
      BY <2>3, <3>1
  <2>5. Split(r) = <<r>>
    BY <1>3, <2>3, <2>4
  <2>6. Split(x) = Extended(<<r>>, c)
    BY <2>3, <2>4, <2>5, SplitSteps
  <2>7. PICK S : S = Seq(C)
    OBVIOUS
  <2>8. <<>> \in Seq(S) /\ <<r>> \in Seq(S) /\ <<x>> \in Seq(S)
    BY <2>7, EmptySeq, OneOf
  <2>9. <<>> \o <<r>> = <<r>> /\ <<>> \o <<x>> = <<x>>
    BY <2>8, ConcatEmptySeq
  <2>10. Extended(<<>> \o <<r>>, c) = <<>> \o <<x>>
    <3>1. PICK z : z = <<>> /\ z \in Seq(Seq(C))
      BY <2>7, <2>8
    <3>2. Extended(z \o <<r>>, c) = z \o <<Append(r, c)>>
      BY <3>1, ExtendedIs, Zenon
    <3> QED
      BY <2>3, <3>1, <3>2
  <2> QED
    BY <2>6, <2>9, <2>10
<1>4. \A n \in 0 .. N : OK(n)
  <2> HIDE DEF OK
  <2>1. 0 \in T
    BY <1>2
  <2>2. ASSUME NEW n \in 1 .. N, n - 1 \in T PROVE n \in T
    BY <1>3, <2>2
  <2>3. \A n \in 0 .. N : n \in T
    <3> HIDE DEF T
    <3> QED
      BY <2>1, <2>2, StepByStep
  <2> QED
    BY <2>3
<1>5. N \in 0 .. N
  OBVIOUS
<1> QED
  BY <1>1, <1>4, <1>5

(* The last piece, before and after a character that is not a space.       *)
GoesOn(r, c, C) ==
    \E a \in Seq(Seq(C)), p \in Seq(C) :
        /\ Split(r) = a \o <<p>> /\ Split(Append(r, c)) = a \o <<Append(p, c)>>
        /\ p = <<>> <=> (r = <<>> \/ r[Len(r)] = Space)

LEMMA PieceGoesOn ==
    ASSUME NEW C, NEW r \in Seq(C), NEW c \in C, c # Space
    PROVE  GoesOn(r, c, C)
<1>1. PICK S : S = Seq(C)
  OBVIOUS
<1>2. PICK a \in Seq(Seq(C)), p \in Seq(C) : Split(r) = a \o <<p>>
  <2>1. Split(r) \in SomePieces(C)
    BY SplitSteps
  <2> QED
    BY <2>1, LastPiece, Zenon
<1>3. Split(Append(r, c)) = a \o <<Append(p, c)>>
  <2>1. Split(Append(r, c)) = Extended(Split(r), c)
    BY SplitSteps
  <2>2. Extended(a \o <<p>>, c) = a \o <<Append(p, c)>>
    BY ExtendedIs, Zenon
  <2> QED
    BY <1>2, <2>1, <2>2, Zenon
<1>4. a \in Seq(S) /\ p \in S /\ <<>> \in S /\ <<>> \in Seq(S) /\ a \o <<p>> = Append(a, p)
  BY <1>1, EmptySeq, AppendIsConcat
<1> SUFFICES p = <<>> <=> (r = <<>> \/ r[Len(r)] = Space)
  <2>1. ASSUME p = <<>> <=> (r = <<>> \/ r[Len(r)] = Space)
        PROVE  GoesOn(r, c, C)
    BY <1>2, <1>3, <2>1, Zenon DEF GoesOn
  <2> QED
    BY <2>1
<1>5. CASE r = <<>>
  <2>1. Append(a, p) = Append(<<>>, <<>>)
    <3>1. Append(<<>>, <<>>) = <<<<>>>>
      OBVIOUS
    <3> QED
      BY <1>2, <1>4, <1>5, <3>1, SplitEmpty
  <2>2. p = <<>>
    <3>1. PICK z \in S : z = <<>>
      BY <1>4
    <3>2. z \in Seq(S) /\ Append(a, p) = Append(z, z)
      BY <1>4, <2>1, <3>1
    <3> QED
      <4>1. Append(a, p) = Append(z, z) <=> a = z /\ p = z
        BY <1>4, <3>2, AppendInjective
      <4> QED
        BY <3>1, <3>2, <4>1
  <2> QED
    BY <1>2, <1>3, <1>5, <2>2
<1>6. CASE r # <<>>
  <2>1. PICK q \in Seq(C), d \in C : r = Append(q, d) /\ r[Len(r)] = d
    <3>1. PICK q \in Seq(C), d \in C : EndsIn(r, q, d)
      BY <1>6, LastOff
    <3> QED
      BY <3>1 DEF EndsIn
  <2>2. PICK b \in SomePieces(C) : b = Split(q)
    BY SplitSteps
  <2>3. CASE d = Space
    <3>1. Append(a, p) = Append(b, <<>>) /\ b \in Seq(S)
      BY <1>1, <1>2, <1>4, <2>1, <2>2, <2>3, SplitSteps DEF SomePieces
    <3>2. p = <<>>
      BY <1>4, <3>1, AppendInjective
    <3> QED
      BY <1>2, <1>3, <2>1, <2>3, <3>2
  <2>4. CASE d # Space
    <3>1. Split(r) = Extended(b, d)
      BY <2>1, <2>2, <2>4, SplitSteps
    <3>2. PICK e \in Seq(Seq(C)), o \in Seq(C) : b = e \o <<o>>
      BY LastPiece
    <3>3. PICK f \in S : f = Append(o, d) /\ f # <<>>
      BY <1>1, AppendProperties
    <3>4. Split(r) = e \o <<f>>
      <4>1. Extended(e \o <<o>>, d) = e \o <<Append(o, d)>>
        BY ExtendedIs
      <4> QED
        BY <3>1, <3>2, <3>3, <4>1
    <3>5. e \in Seq(S) /\ e \o <<f>> = Append(e, f)
      BY <1>1, AppendIsConcat
    <3>6. p = f
      BY <1>2, <1>4, <3>4, <3>5, AppendInjective
    <3> QED
      BY <1>2, <1>3, <1>6, <2>1, <2>4, <3>3, <3>6
  <2> QED
    BY <2>3, <2>4
<1> QED
  BY <1>5, <1>6

(* The first word of a line, and the pieces of the rest.                   *)
StartsWith(s, name, k, C) ==
    /\ name \in Seq(C) /\ Len(name) = k /\ Split(name) = <<name>>
    /\ k = Len(s) => s = name
    /\ k < Len(s) /\ s[k + 1] = Space =>
         \E v \in Seq(C) :
           /\ Len(v) = Len(s) - k - 1
           /\ Split(s) = <<name>> \o Split(v)
           /\ \A i \in 1 .. Len(v) : v[i] = s[k + 1 + i]

LEMMA FirstWord ==
    ASSUME NEW C, Space \in C, NEW s \in Seq(C), NEW k \in 1 .. Len(s),
           \A i \in 1 .. k : s[i] # Space,
           NEW name, name = SubSeq(s, 1, k)
    PROVE  StartsWith(s, name, k, C)
<1>1. PICK n \in Nat : n = Len(s)
  BY LenProperties
<1>2. n \in Int /\ k \in Int /\ 1 \in Int /\ k <= n /\ 1 <= k
  BY <1>1
<1>3. \A i \in 1 .. n : s[i] \in C
  BY <1>1, ElementOfSeq
<1>4. /\ name \in Seq(C) /\ Len(name) = k
      /\ \A i \in 1 .. k : name[i] = s[i]
  <2>1. k \in Nat /\ k <= Len(s)
    BY <1>1
  <2> QED
    BY <2>1, TakeFirst
<1>5. Split(name) = <<name>>
  BY <1>4, SplitWhole
<1>6. ASSUME k = n PROVE s = name
  BY <1>1, <1>6, SubSeqFull
<1>7. ASSUME k < n, s[k + 1] = Space
      PROVE  \E v \in Seq(C) :
                  /\ Len(v) = n - k - 1
                  /\ Split(s) = <<name>> \o Split(v)
                  /\ \A i \in 1 .. Len(v) : v[i] = s[k + 1 + i]
  <2>1. PICK j \in 1 .. n : j = k + 1
    BY <1>2, <1>7
  <2>2. PICK v : v = SubSeq(s, j + 1, n)
    OBVIOUS
  <2>3. \A i \in j + 1 .. n : s[i] \in C
    BY <1>3
  <2>4. /\ v \in Seq(C)
        /\ Len(v) = IF j + 1 <= n THEN n - (j + 1) + 1 ELSE 0
        /\ \A i \in 1 .. n - (j + 1) + 1 : v[i] = s[(j + 1) + i - 1]
    BY <2>2, <2>3, SubSeqProperties
  <2>5. Len(v) = n - k - 1
    BY <1>2, <2>1, <2>4
  <2>6. \A i \in 1 .. Len(v) : v[i] = s[k + 1 + i]
    <3> TAKE i \in 1 .. Len(v)
    <3>1. i \in 1 .. n - (j + 1) + 1 /\ (j + 1) + i - 1 = k + 1 + i
      BY <1>2, <2>1, <2>5
    <3> QED
      BY <2>4, <3>1
  <2>7. SubSeq(s, 1, j) \o v = s
    <3>1. 1 \in 1 .. Len(s) + 1 /\ j \in 1 - 1 .. Len(s) /\ n \in j .. Len(s)
      BY <1>1, <1>2, <2>1
    <3>2. SubSeq(s, 1, j) \o SubSeq(s, j + 1, n) = SubSeq(s, 1, n)
      BY <3>1, ConcatAdjacentSubSeq
    <3> QED
      BY <1>1, <2>2, <3>2, SubSeqFull
  <2>8. SubSeq(s, 1, j) = Append(name, Space)
    <3>1. 1 \in 1 .. Len(s) /\ j \in 1 .. Len(s) /\ j - 1 = k
      BY <1>1, <1>2, <2>1
    <3>2. SubSeq(s, 1, j) = SubSeq(s, 1, j - 1) \o <<s[j]>>
      BY <3>1, SubSeqRecursiveSecond
    <3>3. Append(name, Space) = name \o <<Space>>
      BY <1>4, AppendIsConcat
    <3> QED
      BY <1>7, <2>1, <3>1, <3>2, <3>3
  <2>9. Split(s) = Split(name) \o Split(v)
    BY <1>4, <2>4, <2>7, <2>8, SplitAtSpace
  <2> QED
    BY <1>5, <2>4, <2>5, <2>6, <2>9
<1> QED
  BY <1>1, <1>4, <1>5, <1>6, <1>7 DEF StartsWith

(* Lists that end alike are alike before that.                             *)
LEMMA SameEnd ==
    ASSUME NEW S, NEW a \in Seq(S), NEW b \in Seq(S), NEW z \in S, Append(a, z) = Append(b, z)
    PROVE  a = b
BY AppendInjective

(* The last piece of a line is a mark alone when the line ends in one that *)
(* is first or follows a space, and what is before them are the others.    *)
EndsMarked(v, m, mark, C) ==
    \E a \in Seq(Seq(C)), e \in Seq(C) :
        /\ Split(v) = a \o <<e>>
        /\ (v[m] = mark /\ (m = 1 \/ v[m - 1] = Space)) <=> e = <<mark>>
        /\ e = <<mark>> => Strings(SubSeq(v, 1, m - 2)) = a

LEMMA LastWord ==
    ASSUME NEW C, NEW v \in Seq(C), NEW m, m = Len(v), v # <<>>, v[m] # Space,
           v[1] # Space, NEW mark
    PROVE  EndsMarked(v, m, mark, C)
<1>1. PICK S : S = Seq(C)
  OBVIOUS
<1>2. PICK r \in Seq(C), c \in C : EndsIn(v, r, c)
  BY LastOff
<1>3. /\ v = Append(r, c) /\ m = Len(r) + 1 /\ Len(r) \in Nat /\ v[m] = c
      /\ \A i \in 1 .. Len(r) : v[i] = r[i]
  BY <1>2 DEF EndsIn
<1>4. PICK a \in Seq(Seq(C)), p \in Seq(C) :
             /\ Split(r) = a \o <<p>> /\ Split(v) = a \o <<Append(p, c)>>
             /\ p = <<>> <=> (r = <<>> \/ r[Len(r)] = Space)
  <2>1. c # Space
    BY <1>3
  <2>2. GoesOn(r, c, C)
    BY <2>1, PieceGoesOn
  <2>3. PICK a \in Seq(Seq(C)), p \in Seq(C) :
             /\ Split(r) = a \o <<p>> /\ Split(Append(r, c)) = a \o <<Append(p, c)>>
             /\ p = <<>> <=> (r = <<>> \/ r[Len(r)] = Space)
    BY <2>2 DEF GoesOn
  <2> QED
    BY <1>3, <2>3
<1>5. PICK e \in Seq(C) : e = Append(p, c)
  BY AppendProperties
<1>6. r = <<>> <=> m = 1
  BY <1>3, EmptySeq
<1>7. r # <<>> => r[Len(r)] = v[m - 1]
  <2>1. r # <<>> => Len(r) \in 1 .. Len(r) /\ m - 1 = Len(r)
    BY <1>3, <1>6
  <2> QED
    BY <1>3, <2>1
<1>8. e = <<mark>> <=> (p = <<>> /\ c = mark)
  <2>1. /\ Len(p) \in Nat /\ e[Len(p) + 1] = c /\ Len(e) = Len(p) + 1
    BY <1>5, AppendProperties, LenProperties
  <2>2. ASSUME e = <<mark>> PROVE p = <<>> /\ c = mark
    <3>1. Len(e) = 1 /\ e[1] = mark
      BY <2>2
    <3>2. Len(p) = 0
      BY <2>1, <3>1
    <3>3. p = <<>>
      BY <3>2, EmptySeq
    <3>4. Len(p) + 1 = 1
      BY <3>2
    <3> QED
      BY <2>1, <3>1, <3>3, <3>4
  <2>3. ASSUME p = <<>>, c = mark PROVE e = <<mark>>
    BY <1>5, <2>3
  <2> QED
    BY <2>2, <2>3
<1>9. (v[m] = mark /\ (m = 1 \/ v[m - 1] = Space)) <=> e = <<mark>>
  BY <1>3, <1>4, <1>6, <1>7, <1>8
<1>10. ASSUME p = <<>> PROVE Strings(SubSeq(v, 1, m - 2)) = a
  <2>1. a \in Seq(S) /\ <<>> \in S /\ <<>> \in Seq(S)
    BY <1>1, EmptySeq
  <2>2. PICK z \in S : z = <<>>
    BY <2>1
  <2>3. Split(r) = Append(a, z)
    <3>1. Append(a, z) = a \o <<z>>
      BY <2>1, AppendIsConcat
    <3> QED
      BY <1>4, <1>10, <2>2, <3>1
  <2>4. CASE r = <<>>
    <3>1. Split(r) = Append(z, z)
      <4>1. Append(<<>>, <<>>) = <<<<>>>>
        OBVIOUS
      <4> QED
        BY <2>2, <2>4, <4>1, SplitEmpty
    <3>2. Append(a, z) = Append(z, z) /\ z \in Seq(S)
      BY <2>1, <2>2, <2>3, <3>1
    <3>3. a = z
      <4>1. Append(a, z) = Append(z, z) <=> a = z /\ z = z
        BY <2>1, <3>2, AppendInjective
      <4> QED
        BY <3>2, <4>1
    <3>4. m - 2 < 1 /\ m - 2 \in Int /\ 1 \in Int
      BY <1>3, <1>6, <2>4
    <3>5. SubSeq(v, 1, m - 2) = <<>>
      BY <3>4, SubSeqEmpty
    <3> QED
      BY <2>2, <3>3, <3>5 DEF Strings
  <2>5. CASE r # <<>>
    <3>1. PICK x \in Seq(C), d \in C : EndsIn(r, x, d)
      BY <2>5, LastOff
    <3>2. /\ r = Append(x, d) /\ Len(r) = Len(x) + 1 /\ Len(x) \in Nat /\ r[Len(r)] = d
          /\ \A i \in 1 .. Len(x) : r[i] = x[i]
      BY <3>1 DEF EndsIn
    <3>3. d = Space
      BY <1>4, <1>10, <2>5, <3>2
    <3>4. PICK b \in Seq(S) : b = Split(x)
      BY <1>1, SplitSteps DEF SomePieces
    <3>5. Split(r) = Append(b, z)
      BY <2>2, <3>2, <3>3, <3>4, SplitSteps
    <3>6. a = b
      <4>1. a \in Seq(S) /\ Append(a, z) = Append(b, z)
        BY <2>1, <2>3, <3>5
      <4> QED
        BY <4>1, SameEnd
    <3>7. x # <<>>
      <4>1. ASSUME x = <<>> PROVE FALSE
        <5>1. Len(r) = 1
          BY <3>2, <4>1
        <5>2. v[1] = r[1] /\ r[1] = d
          BY <1>3, <3>2, <5>1
        <5> QED
          BY <3>3, <5>2
      <4> QED
        BY <4>1
    <3>8. SubSeq(v, 1, m - 2) = x
      <4>1. PICK l \in Nat : l = Len(x) /\ m - 2 = l
        BY <1>3, <3>2
      <4>2. \A i \in 1 .. l : v[i] = x[i]
        <5> TAKE i \in 1 .. l
        <5>1. i \in 1 .. Len(x) /\ i \in 1 .. Len(r)
          BY <3>2, <4>1
        <5> QED
          BY <1>3, <3>2, <5>1
      <4>3. PICK y : y = SubSeq(v, 1, l)
        OBVIOUS
      <4>4. l <= Len(v)
        BY <1>3, <3>2, <4>1
      <4>5. /\ y \in Seq(C) /\ Len(y) = l
            /\ \A i \in 1 .. l : y[i] = v[i]
        BY <4>3, <4>4, TakeFirst
      <4>6. \A i \in 1 .. l : y[i] = x[i]
        BY <4>2, <4>5
      <4> QED
        BY <4>1, <4>3, <4>5, <4>6, SeqEqual
    <3> QED
      BY <3>4, <3>6, <3>7, <3>8 DEF Strings
  <2> QED
    BY <2>4, <2>5
<1>11. e = <<mark>> => Strings(SubSeq(v, 1, m - 2)) = a
  BY <1>8, <1>10
<1>12. Split(v) = a \o <<e>>
  BY <1>4, <1>5
<1> QED
  BY <1>9, <1>11, <1>12, Zenon DEF EndsMarked
=============================================================================
