-------------------------- MODULE Services_proofs --------------------------
(***************************************************************************)
(* What the services of the kernel keep: the clock, the lists of ps and    *)
(* ipcs, the system calls and the screen, of any size.                     *)
(***************************************************************************)
EXTENDS Services, OrderLemmas

-----------------------------------------------------------------------------
(* The clock. *)

(* time.h:6-8 and rtc.asm: a day of 24 hours, and offsets of less.         *)
DayIsLong ==
    /\ HOURS \in Nat \ {0} /\ MINUTES \in Nat \ {0} /\ SECONDS \in Nat \ {0}
    /\ West \in 0 .. HOURS /\ East \in 0 .. HOURS /\ Home \in 0 .. West

(* A digit y below k under a digit x below n.                              *)
LEMMA Digits ==
    ASSUME NEW n \in Nat \ {0}, NEW k \in Nat \ {0}, NEW x \in 0 .. n - 1, NEW y \in 0 .. k - 1
    PROVE  /\ x * k + y \in 0 .. n * k - 1
           /\ (x * k + y) \div k = x
           /\ (x * k + y) % k = y
<1>1. PICK d \in Nat : n = x + 1 + d
  <2>1. n - (x + 1) \in Nat /\ n = x + 1 + (n - (x + 1))
    OBVIOUS
  <2> QED
    BY <2>1
<1>2. n * k = x * k + k + d * k /\ x * k \in Nat /\ d * k \in Nat
  BY <1>1
<1>3. x * k + y \in 0 .. n * k - 1
  <2> DEFINE xk == x * k
             dk == d * k
             nk == n * k
  <2>1. nk = xk + k + dk /\ xk \in Nat /\ dk \in Nat
    BY <1>2
  <2> HIDE DEF xk, dk, nk
  <2>2. xk + y \in 0 .. nk - 1
    BY <2>1
  <2> QED
    BY <2>2 DEF xk, nk
<1>4. (x * k + y) \div k = x
  OBVIOUS
<1>5. (x * k + y) % k = y
  OBVIOUS
<1> QED
  BY <1>3, <1>4, <1>5

(* A number below n * k has two such digits.                               *)
HaveDigits(c, n, k) == \E x \in 0 .. n - 1, y \in 0 .. k - 1 : c = x * k + y

LEMMA HasDigits ==
    ASSUME NEW n \in Nat \ {0}, NEW k \in Nat \ {0}, NEW c \in 0 .. n * k - 1
    PROVE  HaveDigits(c, n, k)
<1>1. c \in Nat /\ n * k \in Nat
  OBVIOUS
<1>2. /\ c \div k \in Nat /\ c % k \in 0 .. k - 1
      /\ c = (c \div k) * k + (c % k)
  <2>1. c % k \in 0 .. k - 1
    BY <1>1
  <2>2. c \div k \in Nat
    BY <1>1
  <2>3. c = k * (c \div k) + (c % k)
    BY <1>1
  <2>4. k * (c \div k) = (c \div k) * k
    BY <2>2
  <2> QED
    BY <2>1, <2>2, <2>3, <2>4
<1>3. PICK x \in Nat, y \in 0 .. k - 1 : c = x * k + y
  <2> DEFINE q == c \div k
             r == c % k
  <2>1. q \in Nat /\ r \in 0 .. k - 1 /\ c = q * k + r
    BY <1>2
  <2> HIDE DEF q, r
  <2> QED
    BY <2>1
<1>4. x < n
  <2> SUFFICES ASSUME x >= n PROVE FALSE
    OBVIOUS
  <2>1. PICK d \in Nat : x = n + d
    <3>1. x - n \in Nat /\ x = n + (x - n)
      OBVIOUS
    <3> QED
      BY <3>1
  <2>2. x * k = n * k + d * k /\ d * k \in Nat
    BY <2>1
  <2> DEFINE nk == n * k
             dk == d * k
             xk == x * k
  <2>3. xk = nk + dk /\ dk \in Nat /\ nk \in Nat /\ c = xk + y /\ c < nk
    BY <1>1, <1>3, <2>2
  <2> HIDE DEF nk, dk, xk
  <2> QED
    BY <2>3
<1> QED
  BY <1>3, <1>4 DEF HaveDigits

(* The clock c is at hour H, minute M and second S.                        *)
Reads(c, H, M, S) ==
    /\ H \in 0 .. HOURS - 1 /\ M \in 0 .. MINUTES - 1 /\ S \in 0 .. SECONDS - 1
    /\ c = (H * MINUTES + M) * SECONDS + S

(* What rtc.asm extracts.                                                  *)
LEMMA Extracts ==
    ASSUME DayIsLong, NEW c, NEW H, NEW M, NEW S, Reads(c, H, M, S)
    PROVE  /\ c \in 0 .. Time!Day - 1
           /\ c % SECONDS = S /\ (c \div SECONDS) % MINUTES = M /\ c \div Time!Hour = H
           /\ c = H * Time!Hour + (M * SECONDS + S)
           /\ M * SECONDS + S \in 0 .. Time!Hour - 1
           /\ c % Time!Hour = M * SECONDS + S
<1>1. H \in 0 .. HOURS - 1 /\ M \in 0 .. MINUTES - 1 /\ S \in 0 .. SECONDS - 1
  BY DEF Reads
<1>2. HOURS \in Nat \ {0} /\ MINUTES \in Nat \ {0} /\ SECONDS \in Nat \ {0}
  BY DEF DayIsLong
<1>3. PICK a : a = H * MINUTES + M
  OBVIOUS
<1>4. PICK b : b = M * SECONDS + S
  OBVIOUS
<1>5. PICK n \in Nat \ {0} : n = HOURS * MINUTES
  BY <1>2
<1>6. PICK k \in Nat \ {0} : k = MINUTES * SECONDS
  BY <1>2
<1>7. a \in 0 .. n - 1 /\ a % MINUTES = M
  BY <1>1, <1>2, <1>3, <1>5, Digits
<1>8. b \in 0 .. k - 1
  BY <1>1, <1>2, <1>4, <1>6, Digits
<1>9. c = a * SECONDS + S
  BY <1>3 DEF Reads
<1>10. c \div SECONDS = a /\ c % SECONDS = S
  BY <1>1, <1>2, <1>7, <1>9, Digits
<1>11. c = H * k + b
  <2>1. a * SECONDS = H * (MINUTES * SECONDS) + M * SECONDS
    BY <1>1, <1>2, <1>3
  <2>2. H * k \in Int /\ M * SECONDS \in Int /\ H * (MINUTES * SECONDS) = H * k
    BY <1>1, <1>2, <1>6
  <2> DEFINE as == a * SECONDS
             hk == H * k
             ms == M * SECONDS
  <2>3. as = hk + ms /\ hk \in Int /\ ms \in Int /\ c = as + S /\ b = ms + S
    BY <1>4, <1>9, <2>1, <2>2
  <2> HIDE DEF as, hk, ms
  <2>4. c = hk + b
    BY <1>1, <2>3
  <2> QED
    BY <2>4 DEF hk
<1>12. c \in 0 .. HOURS * k - 1 /\ c \div k = H /\ c % k = b
  BY <1>1, <1>2, <1>8, <1>11, Digits
<1>13. Time!Hour = k /\ Time!Day = HOURS * k
  BY <1>6 DEF Time!Hour, Time!Day
<1> QED
  BY <1>4, <1>7, <1>8, <1>10, <1>11, <1>12, <1>13

(* Every time of the day is read so.                                       *)
LEMMA IsRead ==
    ASSUME DayIsLong, NEW c \in 0 .. Time!Day - 1
    PROVE  \E H, M, S : Reads(c, H, M, S)
<1>1. PICK h, m : h = HOURS /\ m = MINUTES
  OBVIOUS
<1>2. h \in Nat \ {0} /\ m \in Nat \ {0} /\ SECONDS \in Nat \ {0}
  BY <1>1 DEF DayIsLong
<1>3. PICK n \in Nat \ {0} : n = h * m
  BY <1>2
<1>4. Time!Day = n * SECONDS
  BY <1>1, <1>2, <1>3 DEF Time!Day, Time!Hour
<1>5. PICK a \in 0 .. n - 1, S \in 0 .. SECONDS - 1 : c = a * SECONDS + S
  <2>1. HaveDigits(c, n, SECONDS)
    BY <1>2, <1>4, HasDigits
  <2> QED
    BY <2>1 DEF HaveDigits
<1>6. PICK H \in 0 .. h - 1, M \in 0 .. m - 1 : a = H * m + M
  <2>1. a \in 0 .. h * m - 1
    BY <1>3
  <2>2. HaveDigits(a, h, m)
    BY <1>2, <2>1, HasDigits
  <2> QED
    BY <2>2 DEF HaveDigits
<1> QED
  <2>1. Reads(c, H, M, S)
    BY <1>1, <1>5, <1>6 DEF Reads
  <2> QED
    BY <2>1

(* The hour before, around midnight.                                       *)
HourBefore(H) == IF H = 0 THEN HOURS - 1 ELSE H - 1

(* A second later it is the next second, or the next minute, or the next   *)
(* hour.                                                                   *)
Follows(H, M, S, H1, M1, S1) ==
    \/ S1 = S + 1 /\ M1 = M /\ H1 = H
    \/ S1 = 0 /\ S = SECONDS - 1 /\ M1 = M + 1 /\ H1 = H
    \/ S1 = 0 /\ S = SECONDS - 1 /\ M1 = 0 /\ M = MINUTES - 1 /\ H = HourBefore(H1)

LEMMA Ticks ==
    ASSUME DayIsLong, NEW c, NEW H, NEW M, NEW S, Reads(c, H, M, S)
    PROVE  \E H1, M1, S1 : /\ Reads((c + 1) % Time!Day, H1, M1, S1)
                           /\ Follows(H, M, S, H1, M1, S1)
<1>1. H \in 0 .. HOURS - 1 /\ M \in 0 .. MINUTES - 1 /\ S \in 0 .. SECONDS - 1
  BY DEF Reads
<1>2. HOURS \in Nat \ {0} /\ MINUTES \in Nat \ {0} /\ SECONDS \in Nat \ {0}
  BY DEF DayIsLong
<1>3. PICK D \in Nat \ {0} : D = Time!Day
  BY <1>2 DEF Time!Day, Time!Hour
<1>4. c \in 0 .. D - 1
  BY <1>3, Extracts
<1>5. PICK a : a = H * MINUTES + M
  OBVIOUS
<1>6. a \in Nat /\ c = a * SECONDS + S
  BY <1>1, <1>2, <1>5 DEF Reads
<1>7. ASSUME NEW H1, NEW M1, NEW S1, Reads(c + 1, H1, M1, S1), Follows(H, M, S, H1, M1, S1)
      PROVE  \E H2, M2, S2 : /\ Reads((c + 1) % Time!Day, H2, M2, S2)
                             /\ Follows(H, M, S, H2, M2, S2)
  <2>1. c + 1 \in 0 .. D - 1
    BY <1>3, <1>7, Extracts
  <2>2. (c + 1) % D = c + 1
    BY <2>1
  <2>3. (c + 1) % Time!Day = c + 1
    BY <1>3, <2>2
  <2>4. PICK d : d = (c + 1) % Time!Day
    OBVIOUS
  <2>5. Reads(d, H1, M1, S1)
    BY <1>7, <2>3, <2>4, Zenon
  <2> QED
    BY <1>7, <2>4, <2>5, Zenon
<1>8. CASE S + 1 < SECONDS
  <2>1. c + 1 = a * SECONDS + (S + 1)
    <3>1. a * SECONDS \in Int
      BY <1>2, <1>6
    <3> DEFINE as == a * SECONDS
    <3> HIDE DEF as
    <3>2. as + S + 1 = as + (S + 1)
      BY <1>1, <3>1 DEF as
    <3> QED
      BY <1>6, <3>2 DEF as
  <2>2. Reads(c + 1, H, M, S + 1)
    <3>1. c + 1 = (H * MINUTES + M) * SECONDS + (S + 1)
      BY <1>5, <2>1, Zenon
    <3>2. S + 1 \in 0 .. SECONDS - 1
      BY <1>1, <1>2, <1>8
    <3> QED
      BY <1>1, <3>1, <3>2, Zenon DEF Reads
  <2>3. Follows(H, M, S, H, M, S + 1)
    BY DEF Follows
  <2> QED
    BY <1>7, <2>2, <2>3, Zenon
<1>9. CASE S + 1 >= SECONDS
  <2>1. S = SECONDS - 1
    BY <1>1, <1>2, <1>9
  <2>2. c + 1 = (a + 1) * SECONDS
    <3>1. a * SECONDS \in Int /\ (a + 1) * SECONDS = a * SECONDS + SECONDS
      BY <1>2, <1>6
    <3> DEFINE as == a * SECONDS
    <3> HIDE DEF as
    <3>2. as + S + 1 = as + SECONDS
      BY <1>2, <2>1, <3>1 DEF as
    <3> QED
      BY <1>6, <3>1, <3>2 DEF as
  <2>3. CASE M + 1 < MINUTES
    <3>1. a + 1 = H * MINUTES + (M + 1)
      <4>1. H * MINUTES \in Int
        BY <1>1, <1>2
      <4> DEFINE hm == H * MINUTES
      <4> HIDE DEF hm
      <4>2. hm + M + 1 = hm + (M + 1)
        BY <1>1, <4>1 DEF hm
      <4> QED
        BY <1>5, <4>2 DEF hm
    <3>2. c + 1 = (H * MINUTES + (M + 1)) * SECONDS + 0
      <4>1. (a + 1) * SECONDS \in Int
        BY <1>2, <1>6
      <4> QED
        BY <2>2, <3>1, <4>1
    <3>3. Reads(c + 1, H, M + 1, 0)
      <4>1. M + 1 \in 0 .. MINUTES - 1 /\ 0 \in 0 .. SECONDS - 1
        BY <1>1, <1>2, <2>3
      <4> QED
        BY <1>1, <3>2, <4>1 DEF Reads
    <3>4. Follows(H, M, S, H, M + 1, 0)
      BY <2>1 DEF Follows
    <3> QED
      BY <1>7, <3>3, <3>4, Zenon
  <2>4. CASE M + 1 >= MINUTES
    <3>1. M = MINUTES - 1
      BY <1>1, <1>2, <2>4
    <3>2. a + 1 = (H + 1) * MINUTES
      <4>1. H * MINUTES \in Int /\ (H + 1) * MINUTES = H * MINUTES + MINUTES
        BY <1>1, <1>2
      <4> DEFINE hm == H * MINUTES
      <4> HIDE DEF hm
      <4>2. hm + M + 1 = hm + MINUTES
        BY <1>2, <3>1, <4>1 DEF hm
      <4> QED
        BY <1>5, <4>1, <4>2 DEF hm
    <3>3. CASE H + 1 < HOURS
      <4>1. c + 1 = ((H + 1) * MINUTES + 0) * SECONDS + 0
        <5>1. (H + 1) * MINUTES \in Int /\ (a + 1) * SECONDS \in Int
          BY <1>1, <1>2, <1>6
        <5> QED
          BY <2>2, <3>2, <5>1
      <4>2. Reads(c + 1, H + 1, 0, 0)
        <5>1. H + 1 \in 0 .. HOURS - 1 /\ 0 \in 0 .. MINUTES - 1 /\ 0 \in 0 .. SECONDS - 1
          BY <1>1, <1>2, <3>3
        <5> QED
          BY <4>1, <5>1 DEF Reads
      <4>3. H = HourBefore(H + 1)
        BY <1>1 DEF HourBefore
      <4>4. Follows(H, M, S, H + 1, 0, 0)
        BY <2>1, <3>1, <4>3 DEF Follows
      <4> QED
        BY <1>7, <4>2, <4>4, Zenon
    <3>4. CASE H + 1 >= HOURS
      <4>1. H = HOURS - 1 /\ H + 1 = HOURS
        BY <1>1, <1>2, <3>4
      <4>2. c + 1 = D
        <5>1. c + 1 = HOURS * MINUTES * SECONDS
          BY <2>2, <3>2, <4>1
        <5> QED
          BY <1>2, <1>3, <5>1 DEF Time!Day, Time!Hour
      <4>3. (c + 1) % D = 0
        BY <4>2
      <4>4. Reads(0, 0, 0, 0)
        <5>1. (0 * MINUTES + 0) * SECONDS + 0 = 0
          BY <1>2
        <5> QED
          BY <1>2, <5>1 DEF Reads
      <4>5. Follows(H, M, S, 0, 0, 0)
        BY <2>1, <3>1, <4>1 DEF Follows, HourBefore
      <4> QED
        BY <1>3, <4>3, <4>4, <4>5
    <3> QED
      BY <1>1, <1>2, <3>3, <3>4
  <2> QED
    BY <1>1, <1>2, <2>3, <2>4
<1> QED
  BY <1>1, <1>2, <1>8, <1>9

(* The hour where it is g hours later.                                     *)
Local(g, H) ==
    IF H + g \in 0 .. HOURS - 1 THEN H + g
    ELSE IF H + g < 0 THEN H + g + HOURS ELSE H + g - HOURS

LEMMA LocalHours ==
    ASSUME DayIsLong, NEW g \in -West .. East, NEW H \in 0 .. HOURS - 1
    PROVE  /\ Local(g, H) \in 0 .. HOURS - 1
           /\ \E k \in {-1, 0, 1} : H + g = Local(g, H) + k * HOURS
           /\ Local(g, HourBefore(H)) = HourBefore(Local(g, H))
<1>1. /\ HOURS \in Nat \ {0} /\ West \in 0 .. HOURS /\ East \in 0 .. HOURS
      /\ g \in Int /\ -HOURS <= g /\ g <= HOURS
  BY DEF DayIsLong
<1>2. Local(g, H) \in 0 .. HOURS - 1
  BY <1>1 DEF Local
<1>3. \E k \in {-1, 0, 1} : H + g = Local(g, H) + k * HOURS
  <2>1. \/ H + g = Local(g, H) + 0 * HOURS
        \/ H + g = Local(g, H) + (-1) * HOURS
        \/ H + g = Local(g, H) + 1 * HOURS
    BY <1>1 DEF Local
  <2> QED
    BY <2>1
<1>4. Local(g, HourBefore(H)) = HourBefore(Local(g, H))
  BY <1>1 DEF Local, HourBefore
<1> QED
  BY <1>2, <1>3, <1>4

(* What was read, of a clock that went on meanwhile.                       *)
TimeRead(H, M, S) ==
    /\ Reads(clock, H, M, S)
    /\ part \in {"hour", "minutes", "seconds"} =>
         hh = Local(offset, IF M = 0 /\ S < passed THEN HourBefore(H) ELSE H)
    /\ part \in {"minutes", "seconds"} =>
         mm = M \/ (S < passed /\ mm = IF M = 0 THEN MINUTES - 1 ELSE M - 1)
    /\ part = "seconds" => ss = S

ClockInv ==
    /\ GMT \in -West .. East /\ offset \in -West .. East /\ passed \in 0 .. SECONDS - 1
    /\ part \in {"idle", "set", "hour", "minutes", "seconds"}
    /\ \E H, M, S : TimeRead(H, M, S)

(* y is x, whole turns of d apart.                                         *)
Turns(d, x, y) == \E k \in {-1, 0, 1} : y = x + k * d

(* How late the time is that was read.                                     *)
LEMMA TurnsBack ==
    ASSUME NEW d \in Nat \ {0}, NEW x \in 0 .. d, NEW y, Turns(d, x, y)
    PROVE  y % d = IF x = d THEN 0 ELSE x
<1>1. y = x \/ y = x + d \/ y = x - d
  BY DEF Turns
<1>2. x % d = IF x = d THEN 0 ELSE x
  OBVIOUS
<1>3. (x + d) % d = x % d /\ (x - d) % d = x % d
  OBVIOUS
<1> QED
  BY <1>1, <1>2, <1>3

LEMMA NotAhead == DayIsLong /\ ClockInv => TimeShownIsNotAhead
<1> SUFFICES ASSUME DayIsLong, ClockInv, part = "seconds"
             PROVE  TimeShownIsNotAhead
  BY DEF TimeShownIsNotAhead, Time!TimeShownIsNotAhead
<1>1. PICK H, M, S : TimeRead(H, M, S)
  BY DEF ClockInv
<1>2. Reads(clock, H, M, S) /\ ss = S
  BY <1>1 DEF TimeRead
<1>3. H \in 0 .. HOURS - 1 /\ M \in 0 .. MINUTES - 1 /\ S \in 0 .. SECONDS - 1
  BY <1>2 DEF Reads
<1>4. HOURS \in Nat \ {0} /\ MINUTES \in Nat \ {0} /\ SECONDS \in Nat \ {0}
  BY DEF DayIsLong
<1>5. PICK l : l = Local(offset, H)
  OBVIOUS
<1>6. offset \in -West .. East /\ passed \in 0 .. SECONDS - 1
  BY DEF ClockInv
<1>7. l \in 0 .. HOURS - 1 /\ Local(offset, HourBefore(H)) = HourBefore(l)
  BY <1>3, <1>5, <1>6, LocalHours
<1>8. PICK k \in {-1, 0, 1} : H + offset = l + k * HOURS
  BY <1>3, <1>5, <1>6, LocalHours
<1>9. PICK A \in Nat \ {0} : A = Time!Hour /\ A = MINUTES * SECONDS
  BY <1>4 DEF Time!Hour
<1>10. PICK D \in Nat \ {0} : D = Time!Day /\ D = HOURS * A
  BY <1>4, <1>9 DEF Time!Day
<1>11. PICK b : b = M * SECONDS + S
  OBVIOUS
<1>12. /\ b \in 0 .. A - 1 /\ clock = H * A + b /\ clock % A = b /\ clock % SECONDS = S
  BY <1>2, <1>9, <1>11, Extracts
<1>13. PICK shown1 : shown1 = hh * A + mm * SECONDS + ss
  OBVIOUS
<1>14. PICK now : now = l * A + b
  OBVIOUS
<1>15. (clock + offset * A) % D = now
  <2>1. now \in 0 .. D - 1
    BY <1>4, <1>7, <1>9, <1>10, <1>12, <1>14, Digits
  <2>2. clock + offset * A = now + k * D
    <3>1. (H + offset) * A = H * A + offset * A
      BY <1>3, <1>6, <1>9 DEF DayIsLong
    <3>2. (l + k * HOURS) * A = l * A + k * D
      BY <1>4, <1>7, <1>9, <1>10
    <3>3. H * A + offset * A = l * A + k * D
      BY <1>8, <3>1, <3>2
    <3>4. H * A \in Int /\ offset * A \in Int /\ l * A \in Int /\ k * D \in Int
      BY <1>3, <1>6, <1>7, <1>9, <1>10 DEF DayIsLong
    <3> DEFINE ha == H * A
               ga == offset * A
               la == l * A
               kd == k * D
    <3>5. /\ ha + ga = la + kd /\ clock = ha + b /\ now = la + b
          /\ ha \in Int /\ ga \in Int /\ la \in Int /\ kd \in Int /\ b \in Int
      BY <1>12, <1>14, <3>3, <3>4
    <3> HIDE DEF ha, ga, la, kd
    <3>6. clock + ga = now + kd
      BY <3>5
    <3> QED
      BY <3>6 DEF ga, kd
  <2>3. PICK y : y = clock + offset * A
    OBVIOUS
  <2>4. now \in 0 .. D /\ now # D
    BY <1>10, <2>1
  <2>5. Turns(D, now, y)
    BY <1>8, <2>2, <2>3 DEF Turns
  <2>6. y % D = IF now = D THEN 0 ELSE now
    BY <1>10, <2>4, <2>5, TurnsBack
  <2> QED
    BY <2>3, <2>4, <2>6
<1>16. PICK late : late = (now - shown1) % D
  OBVIOUS
<1>17. SUFFICES /\ hh \in 0 .. HOURS - 1
                /\ \/ late = 0
                   \/ late = SECONDS /\ S < passed
                   \/ late = A /\ b < passed
  BY <1>9, <1>10, <1>12, <1>13, <1>15, <1>16 DEF TimeShownIsNotAhead, Time!TimeShownIsNotAhead
<1>18. SECONDS \in 1 .. A /\ A \in 1 .. D
  <2>1. PICK n \in Nat : MINUTES = n + 1
    BY <1>4
  <2>2. PICK n1 \in Nat : HOURS = n1 + 1
    BY <1>4
  <2>3. A = n * SECONDS + SECONDS /\ n * SECONDS \in Nat
    BY <1>4, <1>9, <2>1
  <2>4. D = n1 * A + A /\ n1 * A \in Nat
    BY <1>9, <1>10, <2>2
  <2> QED
    BY <1>4, <1>9, <2>3, <2>4
<1>19. HourBefore(l) \in 0 .. HOURS - 1
  BY <1>4, <1>7 DEF HourBefore
<1>20. \E j \in {-1, 0, 1} : l * A - HourBefore(l) * A = A + j * D
  <2>1. CASE l = 0
    <3>1. l * A - HourBefore(l) * A = A + (-1) * D
      <4>1. HourBefore(l) * A = D - A /\ l * A = 0
        BY <1>4, <1>9, <1>10, <2>1 DEF HourBefore
      <4> QED
        BY <1>9, <1>10, <4>1
    <3> QED
      BY <3>1
  <2>2. CASE l # 0
    <3>1. HourBefore(l) = l - 1
      BY <2>2 DEF HourBefore
    <3>2. l * A = (l - 1) * A + A /\ (l - 1) * A \in Int
      BY <1>7, <1>9
    <3>3. l * A - HourBefore(l) * A = A + 0 * D
      BY <1>9, <1>10, <3>1, <3>2
    <3> QED
      BY <3>3
  <2> QED
    BY <2>1, <2>2
<1>21. mm = M \/ (S < passed /\ mm = IF M = 0 THEN MINUTES - 1 ELSE M - 1)
  BY <1>1 DEF TimeRead
<1>22. hh = Local(offset, IF M = 0 /\ S < passed THEN HourBefore(H) ELSE H)
  BY <1>1 DEF TimeRead
<1>23. CASE M = 0 /\ S < passed
  <2>1. hh = HourBefore(l)
    BY <1>7, <1>22, <1>23
  <2>2. PICK j \in {-1, 0, 1} : l * A - hh * A = A + j * D
    BY <1>20, <2>1
  <2>3. b = S
    BY <1>3, <1>4, <1>11, <1>23
  <2>4. l * A \in Int /\ hh * A \in Int /\ j * D \in Int
    BY <1>7, <1>9, <1>10, <1>19, <2>1
  <2> DEFINE la == l * A
             ha == hh * A
             jd == j * D
  <2>5. /\ la - ha = A + jd /\ now = la + b /\ shown1 = ha + mm * SECONDS + S
        /\ la \in Int /\ ha \in Int /\ jd \in Int
    BY <1>2, <1>13, <1>14, <2>2, <2>4
  <2>6. CASE mm = 0
    <3>1. now - shown1 = A + j * D
      <4>1. mm * SECONDS = 0
        BY <1>4, <2>6
      <4> HIDE DEF la, ha, jd
      <4>2. now - shown1 = A + jd
        BY <1>3, <1>9, <2>3, <2>5, <4>1
      <4> QED
        BY <4>2 DEF jd
    <3>2. late = IF A = D THEN 0 ELSE A
      <4>1. A \in 0 .. D
        BY <1>18
      <4>2. PICK y : y = now - shown1
        OBVIOUS
      <4>3. Turns(D, A, y)
        BY <2>2, <3>1, <4>2 DEF Turns
      <4>4. y % D = IF A = D THEN 0 ELSE A
        BY <1>10, <4>1, <4>3, TurnsBack
      <4> QED
        BY <1>16, <4>2, <4>4
    <3> QED
      BY <1>19, <1>23, <2>1, <2>3, <3>2
  <2>7. CASE mm = MINUTES - 1
    <3>1. now - shown1 = SECONDS + j * D
      <4>1. mm * SECONDS = A - SECONDS
        BY <1>4, <1>9, <2>7
      <4> HIDE DEF la, ha, jd
      <4>2. now - shown1 = SECONDS + jd
        BY <1>3, <1>4, <1>9, <2>3, <2>5, <4>1
      <4> QED
        BY <4>2 DEF jd
    <3>2. late = IF SECONDS = D THEN 0 ELSE SECONDS
      <4>1. SECONDS \in 0 .. D
        BY <1>18
      <4>2. PICK y : y = now - shown1
        OBVIOUS
      <4>3. Turns(D, SECONDS, y)
        BY <2>2, <3>1, <4>2 DEF Turns
      <4>4. y % D = IF SECONDS = D THEN 0 ELSE SECONDS
        BY <1>10, <4>1, <4>3, TurnsBack
      <4> QED
        BY <1>16, <4>2, <4>4
    <3> QED
      BY <1>19, <1>23, <2>1, <3>2
  <2> QED
    BY <1>21, <1>23, <2>6, <2>7
<1>24. CASE ~(M = 0 /\ S < passed)
  <2>1. hh = l
    BY <1>5, <1>22, <1>24
  <2>2. l * A \in Int /\ M * SECONDS \in Int
    BY <1>3, <1>4, <1>7, <1>9
  <2> DEFINE la == l * A
             ms == M * SECONDS
  <2>3. /\ now = la + b /\ b = ms + S /\ shown1 = la + mm * SECONDS + S
        /\ la \in Int /\ ms \in Int
    BY <1>2, <1>11, <1>13, <1>14, <2>1, <2>2
  <2>4. CASE mm = M
    <3>1. shown1 = la + ms + S
      BY <2>3, <2>4
    <3> HIDE DEF la, ms
    <3>2. now - shown1 = 0
      BY <1>3, <2>3, <3>1
    <3>3. now - shown1 = 0 + 0 * D /\ 0 \in 0 .. D
      BY <1>10, <3>2
    <3>4. PICK y : y = now - shown1
      OBVIOUS
    <3>5. Turns(D, 0, y)
      BY <3>3, <3>4 DEF Turns
    <3>6. y % D = 0
      BY <1>10, <3>3, <3>5, TurnsBack
    <3> QED
      BY <1>7, <1>16, <2>1, <3>4, <3>6
  <2>5. CASE mm # M
    <3>1. S < passed /\ M # 0 /\ mm = M - 1
      BY <1>21, <1>24, <2>5
    <3>2. (M - 1) * SECONDS = M * SECONDS - SECONDS
      BY <1>3, <1>4
    <3>3. shown1 = la + (ms - SECONDS) + S
      BY <2>3, <3>1, <3>2
    <3> HIDE DEF la, ms
    <3>4. now - shown1 = SECONDS + 0 * D /\ SECONDS \in 0 .. D
      BY <1>3, <1>4, <1>10, <1>18, <2>3, <3>3
    <3>5. PICK y : y = now - shown1
      OBVIOUS
    <3>6. Turns(D, SECONDS, y)
      BY <3>4, <3>5 DEF Turns
    <3>7. y % D = IF SECONDS = D THEN 0 ELSE SECONDS
      BY <1>10, <3>4, <3>6, TurnsBack
    <3> QED
      BY <1>7, <1>16, <2>1, <3>1, <3>5, <3>7
  <2> QED
    BY <2>4, <2>5
<1> QED
  BY <1>23, <1>24

(* What the commands read, of the time.                                    *)
LEMMA Asked ==
    ASSUME DayIsLong, GMT \in Int, NEW H, NEW M, NEW S, Reads(clock, H, M, S)
    PROVE  Time!hour = Local(GMT, H) /\ Time!sys_time(1) = M /\ Time!sys_time(0) = S
<1>1. clock % SECONDS = S /\ (clock \div SECONDS) % MINUTES = M /\ clock \div Time!Hour = H
  BY Extracts
<1>2. H \in Int /\ HOURS \in Int
  BY DEF Reads, DayIsLong
<1>3. Time!extract(0) = S /\ Time!extract(2) = M /\ Time!extract(4) = H
  BY <1>1 DEF Time!extract
<1>4. Time!sys_time(0) = S /\ Time!sys_time(1) = M /\ Time!sys_time(2) = H
  <2>1. 2 * 0 = 0 /\ 2 * 1 = 2 /\ 2 * 2 = 4
    OBVIOUS
  <2> QED
    BY <1>3, <2>1 DEF Time!sys_time
<1>5. Time!hour = Local(GMT, H)
  BY <1>2, <1>4 DEF Time!hour, Local
<1> QED
  BY <1>4, <1>5

LEMMA ClockInvariant == DayIsLong /\ Time!Spec => []ClockInv
<1> SUFFICES ASSUME DayIsLong PROVE Time!Spec => []ClockInv
  OBVIOUS
<1>1. /\ HOURS \in Nat \ {0} /\ MINUTES \in Nat \ {0} /\ SECONDS \in Nat \ {0}
      /\ West \in 0 .. HOURS /\ East \in 0 .. HOURS /\ Home \in 0 .. West
  BY DEF DayIsLong
<1>2. Time!Init => ClockInv
  <2> SUFFICES ASSUME Time!Init PROVE ClockInv
    OBVIOUS
  <2>1. PICK H, M, S : Reads(clock, H, M, S)
    BY IsRead DEF Time!Init
  <2>2. TimeRead(H, M, S)
    BY <2>1 DEF TimeRead, Time!Init
  <2> QED
    BY <1>1, <2>2 DEF ClockInv, Time!Init
<1>3. ClockInv /\ [Time!Next]_Time!vars => ClockInv'
  <2> SUFFICES ASSUME ClockInv, [Time!Next]_Time!vars PROVE ClockInv'
    OBVIOUS
  <2>1. PICK H, M, S : TimeRead(H, M, S)
    BY DEF ClockInv
  <2>2. Reads(clock, H, M, S)
    BY <2>1 DEF TimeRead
  <2>3. H \in 0 .. HOURS - 1 /\ M \in 0 .. MINUTES - 1 /\ S \in 0 .. SECONDS - 1
    BY <2>2 DEF Reads
  <2>4. /\ GMT \in -West .. East /\ offset \in -West .. East /\ passed \in 0 .. SECONDS - 1
        /\ part \in {"idle", "set", "hour", "minutes", "seconds"}
    BY DEF ClockInv
  <2>5. CASE Time!Passes
    <3>1. PICK H1, M1, S1 : /\ Reads((clock + 1) % Time!Day, H1, M1, S1)
                            /\ Follows(H, M, S, H1, M1, S1)
      BY <2>2, Ticks
    <3>2. Reads(clock', H1, M1, S1)
      BY <2>5, <3>1 DEF Time!Passes
    <3>3. H1 \in 0 .. HOURS - 1 /\ M1 \in 0 .. MINUTES - 1 /\ S1 \in 0 .. SECONDS - 1
      BY <3>2 DEF Reads
    <3>4. /\ part # "seconds" /\ passed < SECONDS - 1
          /\ part' = part /\ GMT' = GMT /\ offset' = offset /\ hh' = hh /\ mm' = mm
      BY <2>5 DEF Time!Passes
    <3>5. part \notin {"idle", "set"} => passed' = passed + 1
      BY <2>5 DEF Time!Passes
    <3>6. passed' \in 0 .. SECONDS - 1
      BY <1>1, <2>4, <2>5 DEF Time!Passes
    <3>7. ASSUME part \in {"hour", "minutes"}
          PROVE  hh = Local(offset, IF M1 = 0 /\ S1 < passed + 1 THEN HourBefore(H1) ELSE H1)
      <4>1. hh = Local(offset, IF M = 0 /\ S < passed THEN HourBefore(H) ELSE H)
        BY <2>1, <3>7 DEF TimeRead
      <4>2. (IF M = 0 /\ S < passed THEN HourBefore(H) ELSE H)
              = (IF M1 = 0 /\ S1 < passed + 1 THEN HourBefore(H1) ELSE H1)
        BY <1>1, <2>3, <2>4, <3>1, <3>3, <3>4 DEF Follows
      <4> QED
        BY <4>1, <4>2, Zenon
    <3>8. ASSUME part = "minutes"
          PROVE  mm = M1 \/ (S1 < passed + 1 /\ mm = IF M1 = 0 THEN MINUTES - 1 ELSE M1 - 1)
      <4>1. mm = M \/ (S < passed /\ mm = IF M = 0 THEN MINUTES - 1 ELSE M - 1)
        BY <2>1, <3>8 DEF TimeRead
      <4> QED
        BY <1>1, <2>3, <2>4, <3>1, <3>3, <3>4, <4>1 DEF Follows
    <3>9. TimeRead(H1, M1, S1)'
      <4>1. /\ part' \in {"hour", "minutes", "seconds"} =>
                 hh' = Local(offset', IF M1 = 0 /\ S1 < passed' THEN HourBefore(H1) ELSE H1)
            /\ part' \in {"minutes", "seconds"} =>
                 mm' = M1 \/ (S1 < passed' /\ mm' = IF M1 = 0 THEN MINUTES - 1 ELSE M1 - 1)
        BY <2>4, <3>4, <3>5, <3>7, <3>8
      <4> QED
        BY <3>2, <3>4, <4>1 DEF TimeRead, Reads, Local, HourBefore
    <3> QED
      BY <2>4, <3>4, <3>6, <3>9 DEF ClockInv
  <2>6. CASE Time!getTime
    <3>1. /\ clock' = clock /\ GMT' = GMT /\ offset' = GMT /\ part' = "hour" /\ passed' = 0
          /\ hh' = Local(GMT, H)
      BY <2>2, <2>6, <2>4, Asked DEF Time!getTime
    <3>2. TimeRead(H, M, S)'
      BY <2>2, <2>3, <3>1 DEF TimeRead, Reads, Local
    <3> QED
      BY <1>1, <2>4, <3>1, <3>2 DEF ClockInv
  <2>7. CASE Time!minutes
    <3>1. /\ clock' = clock /\ GMT' = GMT /\ offset' = offset /\ part = "hour" /\ part' = "minutes"
          /\ passed' = passed /\ hh' = hh /\ mm' = M
      BY <2>2, <2>7, <2>4, Asked DEF Time!minutes
    <3>2. TimeRead(H, M, S)'
      BY <2>1, <2>2, <3>1 DEF TimeRead, Reads, Local, HourBefore
    <3> QED
      BY <2>4, <3>1, <3>2 DEF ClockInv
  <2>8. CASE Time!seconds
    <3>1. /\ clock' = clock /\ GMT' = GMT /\ offset' = offset /\ part = "minutes" /\ part' = "seconds"
          /\ passed' = passed /\ hh' = hh /\ mm' = mm /\ ss' = S
      BY <2>2, <2>8, <2>4, Asked DEF Time!seconds
    <3>2. TimeRead(H, M, S)'
      BY <2>1, <2>2, <3>1 DEF TimeRead, Reads, Local, HourBefore
    <3> QED
      BY <2>4, <3>1, <3>2 DEF ClockInv
  <2>9. CASE Time!Prints
    <3>1. clock' = clock /\ GMT' = GMT /\ offset' = -Home /\ part' = "idle" /\ passed' = 0
      BY <2>9 DEF Time!Prints
    <3>2. TimeRead(H, M, S)'
      BY <2>2, <3>1 DEF TimeRead, Reads
    <3> QED
      BY <1>1, <2>4, <3>1, <3>2 DEF ClockInv
  <2>10. ASSUME NEW gmt \in -West - 1 .. East + 1, Time!set_GMT(gmt)
         PROVE  ClockInv'
    <3>1. /\ clock' = clock /\ GMT' = gmt /\ gmt \in -West .. East
          /\ part' = (IF part = "idle" THEN "set" ELSE part)
          /\ hh' = hh /\ mm' = mm /\ ss' = ss /\ offset' = offset /\ passed' = passed
      BY <2>10 DEF Time!set_GMT
    <3>2. TimeRead(H, M, S)'
      BY <2>1, <2>2, <3>1 DEF TimeRead, Reads, Local, HourBefore
    <3> QED
      BY <2>4, <3>1, <3>2 DEF ClockInv
  <2>11. CASE UNCHANGED Time!vars
    BY <2>11 DEF ClockInv, TimeRead, Reads, Local, HourBefore, Time!vars
  <2> QED
    BY <2>5, <2>6, <2>7, <2>8, <2>9, <2>10, <2>11 DEF Time!Next
<1> QED
  BY <1>2, <1>3, PTL DEF Time!Spec

(* The command time (commands.c:264-300, time.c:37-42): whatever the       *)
(* lengths of the day, the hour and the minute, what is shown is the time  *)
(* at the offset that was set when it began to be read, or late by just    *)
(* the minute or the hour that ended between two of its three readings.    *)
THEOREM TheTimeIsNotAhead == DayIsLong /\ Time!Spec => []TimeShownIsNotAhead
<1> SUFFICES ASSUME DayIsLong PROVE Time!Spec => []TimeShownIsNotAhead
  OBVIOUS
<1>1. ClockInv => TimeShownIsNotAhead
  BY NotAhead
<1>2. Time!Spec => []ClockInv
  BY ClockInvariant
<1> QED
  BY <1>1, <1>2, PTL

-----------------------------------------------------------------------------
(* The lists of ps and ipcs. *)

(* The indices below n that are in use.                                    *)
Below(used, n) == used \cap (0 .. n - 1)

(* The array after each turn of the loop.                                  *)
IsCopy(g, used, size, limit) ==
    g = [i \in 0 .. size |->
            IF i = 0 THEN <<>>
            ELSE IF i - 1 \in used /\ Len(g[i - 1]) < limit
            THEN Append(g[i - 1], i - 1)
            ELSE g[i - 1]]

(* There is such a function.                                               *)
LEMMA CopyExists ==
    ASSUME NEW used, NEW size \in Nat, NEW limit
    PROVE  \E g : IsCopy(g, used, size, limit)
<1> DEFINE Step(g, i) == IF i = 0 THEN <<>>
                         ELSE IF i - 1 \in used /\ Len(g[i - 1]) < limit
                         THEN Append(g[i - 1], i - 1)
                         ELSE g[i - 1]
           Copy(g, n) == g = [i \in 0 .. n |-> Step(g, i)]
           T == {n \in 0 .. size : \A g : ~Copy(g, n)}
<1>1. ASSUME T # {} PROVE FALSE
  <2>1. T \in SUBSET Nat
    OBVIOUS
  <2>2. PICK m \in T : \A n \in T : m <= n
    BY <1>1, <2>1, SmallestOf
  <2>3. m \in 0 .. size /\ \A g : ~Copy(g, m)
    OBVIOUS
  <2>4. m # 0
    <3> SUFFICES ASSUME m = 0 PROVE FALSE
      OBVIOUS
    <3>1. PICK g : g = [i \in 0 .. 0 |-> <<>>]
      OBVIOUS
    <3>2. \A i \in 0 .. 0 : Step(g, i) = <<>>
      OBVIOUS
    <3>3. Copy(g, 0)
      <4> HIDE DEF Step
      <4> QED
        BY <3>1, <3>2
    <3> QED
      BY <2>3, <3>3
  <2>5. m - 1 \in 0 .. size /\ m - 1 \notin T
    <3>1. m - 1 \in 0 .. size /\ ~(m <= m - 1)
      BY <2>3, <2>4
    <3> QED
      BY <2>2, <3>1
  <2>6. PICK g : Copy(g, m - 1)
    BY <2>5
  <2>7. PICK f : f = [i \in 0 .. m |-> Step(g, i)]
    OBVIOUS
  <2>8. \A i \in 0 .. m - 1 : f[i] = g[i]
    <3> TAKE i \in 0 .. m - 1
    <3>1. i \in 0 .. m
      BY <2>3
    <3>2. f[i] = Step(g, i)
      <4> HIDE DEF Step
      <4> QED
        BY <2>7, <3>1
    <3>3. g[i] = Step(g, i)
      <4> HIDE DEF Step
      <4> QED
        BY <2>6
    <3> QED
      BY <3>2, <3>3
  <2>9. \A i \in 0 .. m : Step(f, i) = Step(g, i)
    <3> TAKE i \in 0 .. m
    <3>1. CASE i = 0
      BY <3>1
    <3>2. CASE i # 0
      <4>1. i - 1 \in 0 .. m - 1
        BY <2>3, <3>2
      <4>2. f[i - 1] = g[i - 1]
        BY <2>8, <4>1
      <4> QED
        BY <3>2, <4>2
    <3> QED
      BY <3>1, <3>2
  <2>10. Copy(f, m)
    <3> HIDE DEF Step
    <3> QED
      BY <2>7, <2>9
  <2> QED
    BY <2>3, <2>10
<1>2. size \in 0 .. size
  OBVIOUS
<1>3. PICK g : Copy(g, size)
  BY <1>1, <1>2
<1> QED
  BY <1>3 DEF IsCopy

(* How many are in use, one index after another.                           *)
LEMMA UsedBelow ==
    ASSUME NEW used, NEW n \in Nat
    PROVE  /\ IsFiniteSet(Below(used, n)) /\ Cardinality(Below(used, n)) \in Nat
           /\ n > 0 => Cardinality(Below(used, n)) =
                         Cardinality(Below(used, n - 1)) + (IF n - 1 \in used THEN 1 ELSE 0)
<1>1. \A k \in Nat : IsFiniteSet(Below(used, k)) /\ Cardinality(Below(used, k)) \in Nat
  <2> TAKE k \in Nat
  <2>1. IsFiniteSet(0 .. k - 1) /\ Below(used, k) \subseteq 0 .. k - 1
    BY FS_Interval DEF Below
  <2> QED
    BY <2>1, FS_Subset, FS_CardinalityType
<1>2. ASSUME n > 0
      PROVE  Cardinality(Below(used, n)) =
               Cardinality(Below(used, n - 1)) + (IF n - 1 \in used THEN 1 ELSE 0)
  <2>1. n - 1 \in Nat /\ n - 1 \notin Below(used, n - 1)
    BY <1>2 DEF Below
  <2>2. CASE n - 1 \in used
    <3>1. Below(used, n) = Below(used, n - 1) \cup {n - 1}
      BY <1>2, <2>2 DEF Below
    <3>2. Cardinality(Below(used, n)) = Cardinality(Below(used, n - 1)) + 1
      BY <1>1, <2>1, <3>1, FS_AddElement
    <3> QED
      BY <2>2, <3>2
  <2>3. CASE n - 1 \notin used
    <3>1. Below(used, n) = Below(used, n - 1)
      BY <1>2, <2>3 DEF Below
    <3>2. Cardinality(Below(used, n - 1)) \in Nat
      BY <1>1, <2>1
    <3> QED
      BY <2>3, <3>1, <3>2
  <2> QED
    BY <2>2, <2>3
<1> QED
  BY <1>1, <1>2

(* Those in use below n, all of them.                                      *)
HoldsAll(s, used, n) ==
    /\ s \in Seq(Below(used, n)) /\ Len(s) <= Cardinality(Below(used, n))
    /\ \A x \in Below(used, n) : \E j \in DOMAIN s : s[j] = x

(* One turn of the loop.                                                   *)
LEMMA CopiesOne ==
    ASSUME NEW used, NEW n \in Nat, NEW s, HoldsAll(s, used, n), NEW limit \in Nat,
           Cardinality(Below(used, n + 1)) <= limit,
           NEW t, t = IF n \in used /\ Len(s) < limit THEN Append(s, n) ELSE s
    PROVE  HoldsAll(t, used, n + 1)
<1>1. /\ s \in Seq(Below(used, n)) /\ Len(s) <= Cardinality(Below(used, n))
      /\ \A x \in Below(used, n) : \E j \in DOMAIN s : s[j] = x
  BY DEF HoldsAll
<1>2. PICK c \in Nat : c = Cardinality(Below(used, n))
  BY UsedBelow
<1>3. Cardinality(Below(used, n + 1)) = c + (IF n \in used THEN 1 ELSE 0)
  <2>1. n + 1 \in Nat /\ n + 1 > 0 /\ (n + 1) - 1 = n
    OBVIOUS
  <2>2. PICK k : k = n + 1
    OBVIOUS
  <2>3. Cardinality(Below(used, k)) =
          Cardinality(Below(used, k - 1)) + (IF k - 1 \in used THEN 1 ELSE 0)
    BY <2>1, <2>2, UsedBelow
  <2> QED
    BY <1>2, <2>1, <2>2, <2>3
<1>4. Below(used, n) \subseteq Below(used, n + 1) /\ Len(s) \in Nat
  <2>1. Len(s) \in Nat
    BY <1>1, LenProperties
  <2> QED
    BY <2>1 DEF Below
<1>5. s \in Seq(Below(used, n + 1))
  BY <1>1, <1>4
<1>6. CASE n \in used
  <2>1. n \in Below(used, n + 1) /\ \A x \in Below(used, n + 1) : x = n \/ x \in Below(used, n)
    BY <1>6 DEF Below
  <2>2. Len(s) < limit
    BY <1>1, <1>2, <1>3, <1>4, <1>6
  <2>3. t = Append(s, n)
    BY <1>6, <2>2
  <2>4. PICK S : S = Below(used, n + 1)
    OBVIOUS
  <2>5. s \in Seq(S) /\ n \in S
    BY <1>5, <2>1, <2>4
  <2>6. /\ t \in Seq(S) /\ DOMAIN s = 1 .. Len(s) /\ DOMAIN t = 1 .. Len(s) + 1
        /\ \A i \in DOMAIN s : t[i] = s[i]
        /\ t[Len(s) + 1] = n
    BY <2>3, <2>5, Appended
  <2>7. /\ t \in Seq(Below(used, n + 1)) /\ DOMAIN s = 1 .. Len(s) /\ DOMAIN t = 1 .. Len(s) + 1
        /\ \A i \in DOMAIN s : t[i] = s[i]
        /\ t[Len(s) + 1] = n
    BY <2>4, <2>6
  <2>8. Len(t) = Len(s) + 1
    BY <1>4, <2>7, LenProperties
  <2>9. \A x \in Below(used, n + 1) : \E j \in DOMAIN t : t[j] = x
    <3> TAKE x \in Below(used, n + 1)
    <3>1. CASE x = n
      BY <1>4, <2>7, <3>1
    <3>2. CASE x \in Below(used, n)
      <4>1. PICK j \in DOMAIN s : s[j] = x
        BY <1>1, <3>2
      <4>2. j \in DOMAIN t /\ t[j] = x
        BY <1>4, <2>7, <4>1
      <4> QED
        BY <4>2
    <3> QED
      BY <2>1, <3>1, <3>2
  <2> QED
    BY <1>1, <1>2, <1>3, <1>4, <1>6, <2>7, <2>8, <2>9 DEF HoldsAll
<1>7. CASE n \notin used
  <2>1. Below(used, n + 1) = Below(used, n)
    BY <1>7 DEF Below
  <2> QED
    BY <1>1, <1>7, <2>1 DEF HoldsAll
<1> QED
  BY <1>6, <1>7

(* The loop copies all that is in use, when it may copy that many.         *)
LEMMA CopiesAll ==
    ASSUME NEW used, NEW size \in Nat, NEW limit \in Nat,
           Cardinality(Below(used, size)) <= limit
    PROVE  HoldsAll(Ps!Scan(used, size, limit), used, size)
<1>1. PICK g : g = CHOOSE g1 : IsCopy(g1, used, size, limit)
  OBVIOUS
<1>2. IsCopy(g, used, size, limit)
  BY <1>1, CopyExists, Zenon
<1>3. Ps!Scan(used, size, limit) = g[size]
  BY <1>1 DEF Ps!Scan, IsCopy
<1>4. /\ g[0] = <<>>
      /\ \A i \in 0 .. size : i # 0 =>
           g[i] = IF i - 1 \in used /\ Len(g[i - 1]) < limit THEN Append(g[i - 1], i - 1)
                  ELSE g[i - 1]
  <2>1. DOMAIN g = 0 .. size /\ 0 \in 0 .. size
    BY <1>2 DEF IsCopy
  <2>2. g[0] = <<>>
    BY <1>2, <2>1 DEF IsCopy
  <2> QED
    BY <1>2, <2>2 DEF IsCopy
<1>5. \A i \in 0 .. size : Cardinality(Below(used, i)) <= limit
  <2> TAKE i \in 0 .. size
  <2>1. Below(used, i) \subseteq Below(used, size)
    BY DEF Below
  <2>2. /\ IsFiniteSet(Below(used, size)) /\ Cardinality(Below(used, size)) \in Nat
        /\ Cardinality(Below(used, i)) \in Nat
    BY UsedBelow
  <2>3. Cardinality(Below(used, i)) <= Cardinality(Below(used, size))
    BY <2>1, <2>2, FS_Subset
  <2> QED
    BY <2>2, <2>3
<1> DEFINE T == {i \in 0 .. size : ~HoldsAll(g[i], used, i)}
<1>6. ASSUME T # {} PROVE FALSE
  <2>1. T \in SUBSET Nat
    OBVIOUS
  <2>2. PICK m \in T : \A i \in T : m <= i
    BY <1>6, <2>1, SmallestOf
  <2>3. m \in 0 .. size /\ ~HoldsAll(g[m], used, m)
    OBVIOUS
  <2>4. m # 0
    <3>1. Below(used, 0) = {} /\ <<>> \in Seq({}) /\ Len(<<>>) = 0
      BY DEF Below
    <3>2. Cardinality(Below(used, 0)) = 0
      BY <3>1, FS_EmptySet
    <3>3. HoldsAll(<<>>, used, 0)
      BY <3>1, <3>2 DEF HoldsAll
    <3> QED
      BY <1>4, <2>3, <3>3
  <2>5. PICK n \in Nat : m = n + 1
    <3>1. m - 1 \in Nat /\ m = (m - 1) + 1
      BY <2>3, <2>4
    <3> QED
      BY <3>1
  <2>6. n \in 0 .. size /\ ~(m <= n) /\ m - 1 = n
    BY <2>3, <2>5
  <2>7. HoldsAll(g[n], used, n)
    BY <2>2, <2>6
  <2>8. g[m] = IF n \in used /\ Len(g[n]) < limit THEN Append(g[n], n) ELSE g[n]
    BY <1>4, <2>3, <2>4, <2>6
  <2>9. Cardinality(Below(used, n + 1)) <= limit
    BY <1>5, <2>3, <2>5
  <2>10. PICK s, t : s = g[n] /\ t = g[m]
    OBVIOUS
  <2>11. HoldsAll(t, used, n + 1)
    BY <2>7, <2>8, <2>9, <2>10, CopiesOne
  <2> QED
    BY <2>3, <2>5, <2>10, <2>11
<1>7. HoldsAll(g[size], used, size)
  BY <1>6
<1> QED
  BY <1>3, <1>7

(* process.h: the table has room for init, the shell and ps.               *)
TableHasRoom == TableSize \in Nat /\ TableSize >= 3

Used(t) == Ps!Pid \ Ps!Free(t)

(* The table is counted, and what stayed was shown or is still to be.      *)
PsInv ==
    /\ process_table \in [Ps!Pid -> {"none", "lives", "killed"}]
    /\ n_processes = Cardinality(Used(process_table))
    /\ ps \in {"idle", "prints", "done"}
    /\ left \in Seq(Ps!Pid)
    /\ stayed \subseteq Ps!Live(process_table)
    /\ ps = "prints" => \A i \in stayed : i \in shown \/ \E j \in DOMAIN left : left[j] = i
    /\ ps = "done" => stayed \subseteq shown
    /\ ps # "idle" => Ps!Live(process_table) \subseteq seen /\ shown \subseteq seen

(* A process more or less.                                                 *)
Changed(t, t1, was, is) ==
    /\ t1 \in [Ps!Pid -> {"none", "lives", "killed"}]
    /\ Cardinality(Used(t)) \in Nat
    /\ was = "none" /\ is # "none" => Cardinality(Used(t1)) = Cardinality(Used(t)) + 1
    /\ was # "none" /\ is = "none" => Cardinality(Used(t1)) = Cardinality(Used(t)) - 1
    /\ was # "none" /\ is # "none" => Cardinality(Used(t1)) = Cardinality(Used(t))

LEMMA UsedChanges ==
    ASSUME TableHasRoom, NEW t, NEW i \in Ps!Pid, NEW v \in {"none", "lives", "killed"},
           t \in [Ps!Pid -> {"none", "lives", "killed"}],
           NEW t1, t1 = [t EXCEPT ![i] = v]
    PROVE  Changed(t, t1, t[i], v)
<1>1. \A k \in Ps!Pid : t1[k] = IF k = i THEN v ELSE t[k]
  OBVIOUS
<1>2. t1 \in [Ps!Pid -> {"none", "lives", "killed"}]
  OBVIOUS
<1>3. IsFiniteSet(Used(t)) /\ Cardinality(Used(t)) \in Nat
  <2>1. IsFiniteSet(Ps!Pid)
    BY FS_Interval DEF Ps!Pid, TableHasRoom
  <2>2. Used(t) \subseteq Ps!Pid
    BY DEF Used
  <2> QED
    BY <2>1, <2>2, FS_Subset, FS_CardinalityType
<1>4. Used(t1) = IF v = "none" THEN Used(t) \ {i} ELSE Used(t) \cup {i}
  BY <1>1 DEF Used, Ps!Free
<1>5. i \in Used(t) <=> t[i] # "none"
  BY DEF Used, Ps!Free
<1>6. Cardinality(Used(t) \ {i}) = IF i \in Used(t) THEN Cardinality(Used(t)) - 1
                                   ELSE Cardinality(Used(t))
  BY <1>3, FS_RemoveElement
<1>7. Cardinality(Used(t) \cup {i}) = IF i \in Used(t) THEN Cardinality(Used(t))
                                      ELSE Cardinality(Used(t)) + 1
  BY <1>3, FS_AddElement
<1> QED
  BY <1>2, <1>3, <1>4, <1>5, <1>6, <1>7 DEF Changed

(* The table changes while ps runs.                                        *)
LEMMA PsWatches ==
    ASSUME PsInv, Ps!Watches, left' = left, ps' = ps, shown' = shown,
           process_table' \in [Ps!Pid -> {"none", "lives", "killed"}],
           n_processes' = Cardinality(Used(process_table'))
    PROVE  PsInv'
BY DEF PsInv, Ps!Watches, Ps!Live, Ps!Pid, Used, Ps!Free

(* ps begins, with all the pids that are in use or with some that were     *)
(* typed.                                                                  *)
LEMMA PsBegins ==
    ASSUME PsInv, NEW S, stayed' = S, S \subseteq Ps!Live(process_table),
           left' \in Seq(Ps!Pid), \A i \in S : \E j \in DOMAIN left' : left'[j] = i,
           ps' = "prints", shown' = {}, seen' = Ps!Live(process_table),
           process_table' = process_table, n_processes' = n_processes
    PROVE  PsInv'
BY DEF PsInv, Ps!Live, Ps!Pid, Used, Ps!Free

LEMMA PsInvariant == TableHasRoom /\ Ps!Spec => []PsInv
<1> SUFFICES ASSUME TableHasRoom PROVE Ps!Spec => []PsInv
  OBVIOUS
<1>1. Ps!Init => PsInv
  <2> SUFFICES ASSUME Ps!Init PROVE PsInv
    OBVIOUS
  <2>1. process_table \in [Ps!Pid -> {"none", "lives", "killed"}]
    <3>1. process_table = [i \in Ps!Pid |-> IF i <= 2 THEN "lives" ELSE "none"]
      BY DEF Ps!Init
    <3> QED
      BY <3>1
  <2>2. Used(process_table) = 0 .. 2
    <3>1. \A i \in Ps!Pid : process_table[i] = "none" <=> ~(i <= 2)
      BY DEF Ps!Init
    <3> QED
      BY <3>1 DEF Used, Ps!Free, Ps!Pid, TableHasRoom
  <2>3. Cardinality(0 .. 2) = 3
    <3>1. Cardinality(0 .. 2) = IF 0 > 2 THEN 0 ELSE 2 - 0 + 1
      <4>1. 0 \in Int /\ 2 \in Int
        OBVIOUS
      <4> QED
        BY <4>1, FS_Interval, Zenon
    <3> QED
      BY <3>1
  <2>4. <<>> \in Seq(Ps!Pid)
    <3>1. PICK P : P = Ps!Pid
      OBVIOUS
    <3>2. <<>> \in Seq(P)
      BY EmptySeq
    <3> QED
      BY <3>1, <3>2
  <2> QED
    BY <2>1, <2>2, <2>3, <2>4 DEF Ps!Init, PsInv
<1>2. PsInv /\ [Ps!Next]_Ps!vars => PsInv'
  <2> SUFFICES ASSUME PsInv, [Ps!Next]_Ps!vars PROVE PsInv'
    OBVIOUS
  <2>1. /\ process_table \in [Ps!Pid -> {"none", "lives", "killed"}]
        /\ n_processes = Cardinality(Used(process_table))
        /\ left \in Seq(Ps!Pid) /\ ps \in {"idle", "prints", "done"}
    BY DEF PsInv
  <2>2. CASE Ps!insert_process
    <3>1. PICK m : m = Ps!Min(Ps!Free(process_table))
      OBVIOUS
    <3>2. m \in Ps!Free(process_table)
      <4>1. Ps!Free(process_table) \in SUBSET Nat /\ Ps!Free(process_table) # {}
        BY <2>2 DEF Ps!insert_process, Ps!Free, Ps!Pid, TableHasRoom
      <4>2. \E x \in Ps!Free(process_table) : \A y \in Ps!Free(process_table) : x <= y
        BY <4>1, SmallestOf
      <4> QED
        BY <3>1, <4>2 DEF Ps!Min
    <3>3. m \in Ps!Pid /\ process_table[m] = "none"
      BY <3>2 DEF Ps!Free
    <3>4. process_table' = [process_table EXCEPT ![m] = "lives"]
      BY <2>2, <3>1 DEF Ps!insert_process
    <3>5. /\ process_table' \in [Ps!Pid -> {"none", "lives", "killed"}]
          /\ Cardinality(Used(process_table')) = Cardinality(Used(process_table)) + 1
      <4>1. PICK t1, v : t1 = process_table' /\ v = "lives"
        OBVIOUS
      <4>2. Changed(process_table, t1, process_table[m], v)
        BY <2>1, <3>3, <3>4, <4>1, UsedChanges
      <4> QED
        BY <3>3, <4>1, <4>2 DEF Changed
    <3>6. n_processes' = Cardinality(Used(process_table'))
      BY <2>1, <2>2, <3>5 DEF Ps!insert_process
    <3> QED
      BY <2>2, <3>5, <3>6, PsWatches DEF Ps!insert_process
  <2>3. ASSUME NEW i \in Ps!Pid, Ps!kill_process(i) PROVE PsInv'
    <3>1. process_table' = [process_table EXCEPT ![i] = "killed"] /\ process_table[i] = "lives"
      BY <2>3 DEF Ps!kill_process
    <3>2. /\ process_table' \in [Ps!Pid -> {"none", "lives", "killed"}]
          /\ Cardinality(Used(process_table')) = Cardinality(Used(process_table))
      <4>1. PICK t1, v : t1 = process_table' /\ v = "killed"
        OBVIOUS
      <4>2. Changed(process_table, t1, process_table[i], v)
        BY <2>1, <3>1, <4>1, UsedChanges
      <4> QED
        BY <3>1, <4>1, <4>2 DEF Changed
    <3>3. n_processes' = Cardinality(Used(process_table'))
      BY <2>1, <2>3, <3>2 DEF Ps!kill_process
    <3> QED
      BY <2>3, <3>2, <3>3, PsWatches DEF Ps!kill_process
  <2>4. ASSUME NEW i \in Ps!Pid, Ps!destroy_process(i) PROVE PsInv'
    <3>1. process_table' = [process_table EXCEPT ![i] = "none"] /\ process_table[i] = "killed"
      BY <2>4 DEF Ps!destroy_process
    <3>2. /\ process_table' \in [Ps!Pid -> {"none", "lives", "killed"}]
          /\ Cardinality(Used(process_table')) = Cardinality(Used(process_table)) - 1
      <4>1. PICK t1, v : t1 = process_table' /\ v = "none"
        OBVIOUS
      <4>2. Changed(process_table, t1, process_table[i], v)
        BY <2>1, <3>1, <4>1, UsedChanges
      <4> QED
        BY <3>1, <4>1, <4>2 DEF Changed
    <3>3. n_processes' = Cardinality(Used(process_table'))
      BY <2>1, <2>4, <3>2 DEF Ps!destroy_process
    <3> QED
      BY <2>4, <3>2, <3>3, PsWatches DEF Ps!destroy_process
  <2>5. CASE Ps!get_current_pids
    <3>1. Below(Used(process_table), TableSize) = Used(process_table)
      BY DEF Below, Used, Ps!Pid
    <3>2. n_processes \in Nat
      <4>1. Used(process_table) \subseteq Ps!Pid /\ IsFiniteSet(Ps!Pid)
        BY FS_Interval DEF Used, Ps!Pid, TableHasRoom
      <4> QED
        BY <2>1, <4>1, FS_Subset, FS_CardinalityType
    <3>3. left' = Ps!Scan(Used(process_table), TableSize, n_processes)
      BY <2>5 DEF Ps!get_current_pids, Used
    <3>4. PICK u : u = Used(process_table)
      OBVIOUS
    <3>5. Cardinality(Below(u, TableSize)) <= n_processes /\ TableSize \in Nat
      BY <2>1, <3>1, <3>2, <3>4 DEF TableHasRoom
    <3>6. HoldsAll(Ps!Scan(u, TableSize, n_processes), u, TableSize)
      BY <3>2, <3>5, CopiesAll
    <3>7. HoldsAll(left', u, TableSize)
      BY <3>3, <3>4, <3>6
    <3>8. /\ left' \in Seq(Ps!Pid)
          /\ \A x \in u : \E j \in DOMAIN left' : left'[j] = x
      <4>1. u \subseteq Ps!Pid
        BY <3>4 DEF Used
      <4> QED
        BY <3>1, <3>4, <3>7, <4>1 DEF HoldsAll
    <3>9. Ps!Live(process_table) \subseteq u
      BY <3>4 DEF Ps!Live, Ps!Free, Used
    <3> QED
      BY <2>5, <3>8, <3>9, PsBegins DEF Ps!get_current_pids
  <2>6. ASSUME NEW i \in Ps!Pid, NEW j \in Ps!Pid, Ps!print_process(<<i, j>>) PROVE PsInv'
    <3>1. left' = <<i, j>> /\ stayed' = Ps!Live(process_table) \cap Ps!ToSet(<<i, j>>)
      BY <2>6 DEF Ps!print_process
    <3>2. left' \in Seq(Ps!Pid)
      BY <3>1
    <3>3. \A x \in stayed' : \E k \in DOMAIN left' : left'[k] = x
      BY <3>1 DEF Ps!ToSet
    <3> QED
      BY <2>6, <3>1, <3>2, <3>3, PsBegins DEF Ps!print_process
  <2>7. CASE Ps!print_single_process
    <3>1. /\ ps = "prints" /\ process_table' = process_table /\ n_processes' = n_processes
          /\ stayed' = stayed /\ seen' = seen
      BY <2>7 DEF Ps!print_single_process
    <3>2. /\ \A i \in stayed : i \in shown \/ \E j \in DOMAIN left : left[j] = i
          /\ Ps!Live(process_table) \subseteq seen /\ shown \subseteq seen
          /\ stayed \subseteq Ps!Live(process_table)
      BY <3>1 DEF PsInv
    <3>3. CASE left = <<>>
      <4>1. ps' = "done" /\ left' = left /\ shown' = shown
        BY <2>7, <3>3 DEF Ps!print_single_process
      <4>2. stayed \subseteq shown
        BY <3>2, <3>3
      <4> QED
        BY <2>1, <3>1, <3>2, <4>1, <4>2 DEF PsInv, Used, Ps!Free, Ps!Live, Ps!Pid
    <3>4. CASE left # <<>>
      <4>1. /\ ps' = ps /\ left' = Tail(left)
            /\ shown' = shown \cup ({Head(left)} \cap Ps!Live(process_table))
        BY <2>7, <3>4 DEF Ps!print_single_process, Ps!get_process_info
      <4>2. PICK P : P = Ps!Pid
        OBVIOUS
      <4>3. left \in Seq(P)
        BY <2>1, <4>2
      <4>4. /\ Head(left) = left[1] /\ left' \in Seq(P) /\ Len(left') = Len(left) - 1
            /\ \A j \in 1 .. Len(left) - 1 : left'[j] = left[j + 1]
            /\ Len(left) \in Nat \ {0}
            /\ DOMAIN left = 1 .. Len(left) /\ DOMAIN left' = 1 .. Len(left')
        BY <3>4, <4>1, <4>3, HeadTailProperties, EmptySeq, LenProperties
      <4>5. \A i \in stayed : i \in shown' \/ \E j \in DOMAIN left' : left'[j] = i
        <5> TAKE i \in stayed
        <5>1. CASE i \in shown
          BY <4>1, <5>1
        <5>2. CASE i = left[1]
          BY <3>2, <4>1, <4>4, <5>2
        <5>3. ASSUME i \notin shown, i # left[1]
              PROVE  \E j \in DOMAIN left' : left'[j] = i
          <6>1. PICK j \in DOMAIN left : left[j] = i
            BY <3>2, <5>3
          <6>2. j \in 2 .. Len(left)
            BY <4>4, <5>3, <6>1
          <6>3. j - 1 \in 1 .. Len(left) - 1 /\ (j - 1) + 1 = j
            BY <4>4, <6>2
          <6>4. j - 1 \in DOMAIN left' /\ left'[j - 1] = i
            BY <4>4, <6>1, <6>3
          <6> QED
            BY <6>4
        <5> QED
          BY <5>1, <5>2, <5>3
      <4>6. shown' \subseteq seen
        BY <3>2, <4>1
      <4>7. left' \in Seq(Ps!Pid)
        BY <4>2, <4>4
      <4> QED
        BY <2>1, <3>1, <3>2, <4>1, <4>5, <4>6, <4>7 DEF PsInv, Used, Ps!Free, Ps!Live, Ps!Pid
    <3> QED
      BY <3>3, <3>4
  <2>8. CASE Ps!ps_Ends
    BY <2>8 DEF Ps!ps_Ends, PsInv, Used, Ps!Free, Ps!Live, Ps!Pid
  <2>9. CASE UNCHANGED Ps!vars
    BY <2>9 DEF Ps!vars, PsInv, Used, Ps!Free, Ps!Live, Ps!Pid
  <2> QED
    BY <2>2, <2>3, <2>4, <2>5, <2>6, <2>7, <2>8, <2>9 DEF Ps!Next
<1> QED
  BY <1>1, <1>2, PTL DEF Ps!Spec

(* mutex.h, condVariable.h, fifo.h: each kind of object has a table.       *)
TablesHaveSizes == MAX_COND_VAR \in Nat /\ MAX_MUTEXES \in Nat /\ MAX_FIFOS \in Nat

LEMMA KindSizes ==
    ASSUME TablesHaveSizes
    PROVE  /\ Ipcs!Kind = {"cond", "mutex", "fifo"}
           /\ \A kind \in Ipcs!Kind : /\ Ipcs!Size[kind] \in Nat
                                      /\ Ipcs!Key[kind] = 0 .. Ipcs!Size[kind] - 1
<1>1. Ipcs!Kind = {"cond", "mutex", "fifo"}
  BY DEF Ipcs!Kind, Ipcs!Kinds, Ipcs!ToSet
<1>2. \A kind \in Ipcs!Kind : Ipcs!Size[kind] \in Nat
  BY <1>1 DEF Ipcs!Size, TablesHaveSizes
<1>3. \A kind \in Ipcs!Kind : Ipcs!Key[kind] = 0 .. Ipcs!Size[kind] - 1
  BY DEF Ipcs!Key
<1> QED
  BY <1>1, <1>2, <1>3

(* The line of an object.                                                  *)
Line(e) ==
    <<e[1], IF e[1] = "fifo" THEN e[2] + Ipcs!FILE_DESCRIPTORS ELSE e[2],
      IF e[1] # "mutex" THEN "-" ELSE IF e[3] = Ipcs!LOCKED THEN "LOCKED" ELSE "UNLOCKED">>

(* What the kernel copies becomes a line of each open object of its kind.  *)
LEMMA KindIsPrinted ==
    ASSUME TablesHaveSizes, NEW kind \in Ipcs!Kind,
           NEW L, L = Ipcs!Lines(kind, Ipcs!get_info(kind))
    PROVE  /\ \A l \in L : \E e \in Ipcs!Entries(objects) : l = Line(e)
           /\ \A e \in Ipcs!Entries(objects) : e[1] = kind => Line(e) \in L
<1> DEFINE Open == {k \in Ipcs!Key[kind] : objects[kind][k] # Ipcs!Closed}
<1>1. PICK u : u = Open
  OBVIOUS
<1>2. PICK size \in Nat : size = Ipcs!Size[kind] /\ Ipcs!Key[kind] = 0 .. size - 1
  BY KindSizes
<1>3. Below(u, size) = u
  BY <1>1, <1>2 DEF Below
<1>4. Cardinality(Below(u, size)) <= size
  <2>1. IsFiniteSet(0 .. size - 1) /\ Cardinality(0 .. size - 1) = size
    <3>1. 0 \in Int /\ size - 1 \in Int
      OBVIOUS
    <3>2. IsFiniteSet(0 .. size - 1) /\ Cardinality(0 .. size - 1) = IF 0 > size - 1 THEN 0 ELSE size - 1 - 0 + 1
      BY <3>1, FS_Interval, Zenon
    <3> QED
      BY <3>2
  <2>2. Below(u, size) \subseteq 0 .. size - 1
    BY DEF Below
  <2> QED
    BY <2>1, <2>2, FS_Subset
<1>5. PICK keys : keys = Ipcs!OpenKeys(kind)
  OBVIOUS
<1>6. HoldsAll(keys, u, size)
  <2>1. keys = Ipcs!Scan(u, size, size)
    BY <1>1, <1>2, <1>5 DEF Ipcs!OpenKeys
  <2>2. Ipcs!Scan(u, size, size) = Ps!Scan(u, size, size)
    BY DEF Ipcs!Scan, Ps!Scan
  <2>3. HoldsAll(Ps!Scan(u, size, size), u, size)
    BY <1>4, CopiesAll
  <2> QED
    BY <2>1, <2>2, <2>3
<1>7. /\ \A j \in DOMAIN keys : keys[j] \in u
      /\ \A x \in u : \E j \in DOMAIN keys : keys[j] = x
  <2>1. keys \in Seq(u) /\ \A x \in u : \E j \in DOMAIN keys : keys[j] = x
    BY <1>3, <1>6 DEF HoldsAll
  <2>2. \A j \in DOMAIN keys : keys[j] \in u
    BY <2>1, ElementOfSeq, LenProperties
  <2> QED
    BY <2>1, <2>2
<1>8. PICK info : info = Ipcs!get_info(kind)
  OBVIOUS
<1>9. /\ DOMAIN info = DOMAIN keys
      /\ \A j \in DOMAIN keys :
           /\ info[j].key = IF kind = "fifo" THEN keys[j] + Ipcs!FILE_DESCRIPTORS ELSE keys[j]
           /\ info[j].locked = objects[kind][keys[j]]
  BY <1>5, <1>8 DEF Ipcs!get_info
<1> DEFINE Entry(k) == <<kind, k, objects[kind][k]>>
           Row(j) == <<kind, info[j].key, IF kind # "mutex" THEN "-"
                                          ELSE IF info[j].locked = 0 THEN "LOCKED" ELSE "UNLOCKED">>
<1>10. L = {Row(j) : j \in DOMAIN info}
  BY <1>8 DEF Ipcs!Lines
<1>11. \A j \in DOMAIN info : Row(j) = Line(Entry(keys[j]))
  BY <1>9 DEF Line, Ipcs!LOCKED
<1>12. \A k \in u : Entry(k) \in Ipcs!Entries(objects)
  BY <1>1 DEF Ipcs!Entries
<1>13. ASSUME NEW e \in Ipcs!Entries(objects), e[1] = kind
       PROVE  \E k \in u : e = Entry(k)
  <2>1. PICK kd \in Ipcs!Kind : \E k \in {x \in Ipcs!Key[kd] : objects[kd][x] # Ipcs!Closed} :
          e = <<kd, k, objects[kd][k]>>
    BY DEF Ipcs!Entries
  <2>2. kd = kind
    BY <1>13, <2>1
  <2> QED
    BY <1>1, <2>1, <2>2
<1> HIDE DEF Entry, Row
<1>14. ASSUME NEW l \in L PROVE \E e \in Ipcs!Entries(objects) : l = Line(e)
  <2>1. PICK j \in DOMAIN info : l = Row(j)
    BY <1>10
  <2>2. keys[j] \in u
    BY <1>7, <1>9
  <2> QED
    BY <1>11, <1>12, <2>1, <2>2
<1>15. ASSUME NEW e \in Ipcs!Entries(objects), e[1] = kind PROVE Line(e) \in L
  <2>1. PICK k \in u : e = Entry(k)
    BY <1>13, <1>15
  <2>2. PICK j \in DOMAIN keys : keys[j] = k
    BY <1>7
  <2>3. j \in DOMAIN info /\ Row(j) = Line(e)
    BY <1>9, <1>11, <2>1, <2>2
  <2> QED
    BY <1>10, <2>3
<1> QED
  BY <1>14, <1>15

(* What stayed was printed or is of a kind still to be asked for, and what *)
(* was printed has been there.                                             *)
IpcsInv ==
    /\ ipcs \in {"idle", "asks", "done"}
    /\ kept \subseteq Ipcs!Entries(objects)
    /\ ipcs = "asks" =>
         /\ kinds \in {<<"cond", "mutex", "fifo">>, <<"mutex", "fifo">>, <<"fifo">>, <<>>}
         /\ \A e \in kept : Line(e) \in lines \/ \E j \in DOMAIN kinds : kinds[j] = e[1]
    /\ ipcs = "done" => \A e \in kept : Line(e) \in lines
    /\ ipcs # "idle" => /\ Ipcs!Entries(objects) \subseteq met
                        /\ \A l \in lines : \E e \in met : l = Line(e)

(* Objects open, lock and close while ipcs runs.                           *)
LEMMA IpcsWatches ==
    ASSUME IpcsInv, NEW kind, NEW k, NEW state, Ipcs!Becomes(kind, k, state)
    PROVE  IpcsInv'
<1>1. /\ kept' = kept \cap Ipcs!Entries(objects') /\ met' = met \cup Ipcs!Entries(objects')
      /\ kinds' = kinds /\ ipcs' = ipcs /\ lines' = lines
  BY DEF Ipcs!Becomes
<1>2. Ipcs!Entries(objects)' = Ipcs!Entries(objects')
  BY DEF Ipcs!Entries, Ipcs!Key, Ipcs!Size, Ipcs!Kind, Ipcs!Kinds, Ipcs!Closed
<1>3. \A e : Line(e)' = Line(e)
  BY DEF Line, Ipcs!FILE_DESCRIPTORS, Ipcs!LOCKED
<1> QED
  BY <1>1, <1>2, <1>3 DEF IpcsInv

LEMMA IpcsInvariant == TablesHaveSizes /\ Ipcs!Spec => []IpcsInv
<1> SUFFICES ASSUME TablesHaveSizes PROVE Ipcs!Spec => []IpcsInv
  OBVIOUS
<1>1. Ipcs!Init => IpcsInv
  BY DEF Ipcs!Init, IpcsInv
<1>2. IpcsInv /\ [Ipcs!Next]_Ipcs!vars => IpcsInv'
  <2> SUFFICES ASSUME IpcsInv, [Ipcs!Next]_Ipcs!vars PROVE IpcsInv'
    OBVIOUS
  <2>1. ipcs \in {"idle", "asks", "done"} /\ kept \subseteq Ipcs!Entries(objects)
    BY DEF IpcsInv
  <2>2. objects' = objects => Ipcs!Entries(objects)' = Ipcs!Entries(objects)
    BY DEF Ipcs!Entries, Ipcs!Key, Ipcs!Size, Ipcs!Kind, Ipcs!Kinds, Ipcs!Closed
  <2>3. ASSUME NEW kind \in Ipcs!Kind, NEW k \in Ipcs!Key[kind],
               Ipcs!Opens(kind, k) \/ Ipcs!Closes(kind, k)
        PROVE  IpcsInv'
    BY <2>3, IpcsWatches DEF Ipcs!Opens, Ipcs!Closes
  <2>4. ASSUME NEW k \in Ipcs!Key["mutex"], Ipcs!Locks(k) \/ Ipcs!Unlocks(k)
        PROVE  IpcsInv'
    BY <2>4, IpcsWatches DEF Ipcs!Locks, Ipcs!Unlocks
  <2>5. CASE Ipcs!print_ipcs
    <3>1. /\ ipcs' = "asks" /\ kinds' = <<"cond", "mutex", "fifo">> /\ lines' = {}
          /\ kept' = Ipcs!Entries(objects) /\ met' = Ipcs!Entries(objects)
          /\ objects' = objects
      BY <2>5 DEF Ipcs!print_ipcs, Ipcs!Kinds
    <3>2. \A e \in Ipcs!Entries(objects) : e[1] \in {"cond", "mutex", "fifo"}
      BY KindSizes DEF Ipcs!Entries
    <3>3. \A e \in kept' : \E j \in DOMAIN kinds' : kinds'[j] = e[1]
      BY <3>1, <3>2
    <3> QED
      BY <2>2, <3>1, <3>3 DEF IpcsInv
  <2>6. CASE Ipcs!print_ipc_info
    <3>1. /\ ipcs = "asks" /\ objects' = objects /\ kept' = kept /\ met' = met
      BY <2>6 DEF Ipcs!print_ipc_info
    <3>2. /\ kinds \in {<<"cond", "mutex", "fifo">>, <<"mutex", "fifo">>, <<"fifo">>, <<>>}
          /\ \A e \in kept : Line(e) \in lines \/ \E j \in DOMAIN kinds : kinds[j] = e[1]
          /\ Ipcs!Entries(objects) \subseteq met
          /\ \A l \in lines : \E e \in met : l = Line(e)
      BY <3>1 DEF IpcsInv
    <3>3. CASE kinds = <<>>
      <4>1. ipcs' = "done" /\ kinds' = kinds /\ lines' = lines
        BY <2>6, <3>3 DEF Ipcs!print_ipc_info
      <4>2. \A e \in kept : Line(e) \in lines
        BY <3>2, <3>3
      <4> QED
        BY <2>1, <2>2, <3>1, <3>2, <4>1, <4>2 DEF IpcsInv
    <3>4. CASE kinds # <<>>
      <4>1. PICK kind : kind = Head(kinds)
        OBVIOUS
      <4>2. PICK L : L = Ipcs!Lines(kind, Ipcs!get_info(kind))
        OBVIOUS
      <4>3. ipcs' = "asks" /\ kinds' = Tail(kinds) /\ lines' = lines \cup L
        BY <2>6, <3>1, <3>4, <4>1, <4>2 DEF Ipcs!print_ipc_info
      <4>4. /\ kind \in {"cond", "mutex", "fifo"} /\ kind = kinds[1]
            /\ kinds' \in {<<"mutex", "fifo">>, <<"fifo">>, <<>>}
            /\ \A e : (\E j \in DOMAIN kinds : kinds[j] = e[1]) =>
                 e[1] = kind \/ \E j \in DOMAIN kinds' : kinds'[j] = e[1]
        <5>1. CASE kinds = <<"cond", "mutex", "fifo">>
          <6>1. kind = "cond" /\ kinds' = <<"mutex", "fifo">> /\ kinds[1] = "cond"
            BY <4>1, <4>3, <5>1
          <6>2. \A j \in DOMAIN kinds : kinds[j] \in {"cond", "mutex", "fifo"}
            BY <5>1
          <6>3. kinds'[1] = "mutex" /\ kinds'[2] = "fifo" /\ {1, 2} \subseteq DOMAIN kinds'
            BY <6>1
          <6> QED
            BY <6>1, <6>2, <6>3
        <5>2. CASE kinds = <<"mutex", "fifo">>
          <6>1. kind = "mutex" /\ kinds' = <<"fifo">> /\ kinds[1] = "mutex"
            BY <4>1, <4>3, <5>2
          <6>2. \A j \in DOMAIN kinds : kinds[j] \in {"mutex", "fifo"}
            BY <5>2
          <6>3. kinds'[1] = "fifo" /\ 1 \in DOMAIN kinds'
            BY <6>1
          <6> QED
            BY <6>1, <6>2, <6>3
        <5>3. CASE kinds = <<"fifo">>
          <6>1. kind = "fifo" /\ kinds' = <<>> /\ kinds[1] = "fifo"
            BY <4>1, <4>3, <5>3
          <6>2. \A j \in DOMAIN kinds : kinds[j] = "fifo"
            BY <5>3
          <6> QED
            BY <6>1, <6>2
        <5> QED
          BY <3>2, <3>4, <5>1, <5>2, <5>3
      <4>5. kind \in Ipcs!Kind
        BY <4>4, KindSizes
      <4>6. /\ \A l \in L : \E e \in Ipcs!Entries(objects) : l = Line(e)
            /\ \A e \in Ipcs!Entries(objects) : e[1] = kind => Line(e) \in L
        BY <4>2, <4>5, KindIsPrinted
      <4>7. \A e \in kept : Line(e) \in lines' \/ \E j \in DOMAIN kinds' : kinds'[j] = e[1]
        BY <2>1, <3>2, <4>3, <4>4, <4>6
      <4>8. \A l \in lines' : \E e \in met : l = Line(e)
        BY <3>2, <4>3, <4>6
      <4> QED
        BY <2>1, <2>2, <3>1, <3>2, <4>3, <4>4, <4>7, <4>8 DEF IpcsInv
    <3> QED
      BY <3>3, <3>4
  <2>7. CASE Ipcs!ipcs_Ends
    BY <2>2, <2>7 DEF Ipcs!ipcs_Ends, IpcsInv
  <2>8. CASE UNCHANGED Ipcs!vars
    BY <2>2, <2>8 DEF Ipcs!vars, IpcsInv
  <2> QED
    BY <2>3, <2>4, <2>5, <2>6, <2>7, <2>8 DEF Ipcs!Next
<1> QED
  BY <1>1, <1>2, PTL DEF Ipcs!Spec

(* The commands ps and ipcs (commands.c:63-98, ipc_info.c:5-45): tables    *)
(* of any size, whatever comes and goes between their calls, they show     *)
(* what stayed all along and nothing that never was there.                 *)
THEOREM ListsAreRight ==
    TableHasRoom /\ TablesHaveSizes /\ Ps!Spec /\ Ipcs!Spec => []ListsShowWhatStays
<1> SUFFICES ASSUME TableHasRoom, TablesHaveSizes
             PROVE  Ps!Spec /\ Ipcs!Spec => []ListsShowWhatStays
  OBVIOUS
<1>1. PsInv /\ IpcsInv => ListsShowWhatStays
  <2>1. PsInv => Ps!PsShowsWhoStays
    BY DEF PsInv, Ps!PsShowsWhoStays
  <2>2. \A entries : Ipcs!Shown(entries) = {Line(e) : e \in entries}
    BY DEF Ipcs!Shown, Line
  <2>3. IpcsInv => Ipcs!IpcsShowsWhatStays
    BY <2>2 DEF IpcsInv, Ipcs!IpcsShowsWhatStays
  <2> QED
    BY <2>1, <2>3 DEF ListsShowWhatStays
<1>2. Ps!Spec => []PsInv
  BY PsInvariant
<1>3. Ipcs!Spec => []IpcsInv
  BY IpcsInvariant
<1> QED
  BY <1>1, <1>2, <1>3, PTL

-----------------------------------------------------------------------------
(* The system calls. *)

(* A color is three bytes (paint.c).                                       *)
LightIsBytes == Light \subseteq 0 .. 255

(* Those that the library calls by a number of their own.                  *)
Function ==
    {"read", "write", "time", "paint", "wait", "reserve", "free_reserve",
     "data_address", "set_char_color", "set_bg_color", "exec", "end", "yield",
     "mutex_open", "mutex_close", "mutex_lock", "mutex_unlock", "set_foreground",
     "fifo_open", "fifo_close", "kill", "pid", "ppid", "get_process_info",
     "cond_open", "cond_wait", "cond_signal", "cond_broadcast", "cond_close",
     "get_current_pids", "get_conds_info", "get_mutexes_info", "get_fifos_info"}

(* The number of a function leads to its handler.                          *)
LEMMA NumbersLead ==
    /\ DOMAIN Sys!Library = Function
    /\ \A f \in Function :
         /\ Sys!Library[f][1] \in 3 .. 37 /\ Sys!syscalls[Sys!Library[f][1] - 2] = f
         /\ Sys!Library[f][2] \in 0 .. 3
<1>1. DOMAIN Sys!Library = Function
  BY DEF Sys!Library, Function
<1>2. \A f \in Function : Sys!Library[f][1] \in 3 .. 37 /\ Sys!Library[f][2] \in 0 .. 3
  BY DEF Sys!Library, Function
<1>3. \A f \in Function : Sys!syscalls[Sys!Library[f][1] - 2] = f
  BY DEF Sys!Library, Function, Sys!syscalls
<1> QED
  BY <1>1, <1>2, <1>3

(* The wrapper passes on the arguments that there are.                     *)
LEMMA FirstOf ==
    ASSUME NEW n \in 0 .. 3, NEW args, args \in Seq(Range(args)), Len(args) = n
    PROVE  SubSeq(<<Sys!Or0(args, 1), Sys!Or0(args, 2), Sys!Or0(args, 3)>>, 1, n) = args
<1>1. PICK a, b, c : a = Sys!Or0(args, 1) /\ b = Sys!Or0(args, 2) /\ c = Sys!Or0(args, 3)
  OBVIOUS
<1>2. PICK s : s = <<a, b, c>>
  OBVIOUS
<1>3. s \in Seq({a, b, c}) /\ Len(s) = 3 /\ s[1] = a /\ s[2] = b /\ s[3] = c
  BY <1>2
<1>4. PICK t : t = SubSeq(s, 1, n)
  OBVIOUS
<1>5. /\ t \in Seq({a, b, c}) /\ Len(t) = n
      /\ \A i \in 1 .. n : t[i] = s[i]
  <2>1. PICK S : S = {a, b, c}
    OBVIOUS
  <2>2. s \in Seq(S) /\ 1 \in 1 .. Len(s) + 1 /\ n \in 0 .. Len(s)
    BY <1>3, <2>1
  <2>3. \A i \in 1 .. n : s[i] \in S
    BY <1>3, <2>1
  <2>4. /\ t \in Seq(S)
        /\ Len(t) = IF 1 <= n THEN n - 1 + 1 ELSE 0
        /\ \A i \in 1 .. n - 1 + 1 : t[i] = s[1 + i - 1]
    BY <1>4, <2>2, <2>3, SubSeqProperties
  <2>5. Len(t) = n
    BY <2>4
  <2> QED
    BY <2>1, <2>4, <2>5
<1>6. \A i \in 1 .. n : args[i] = s[i]
  <2> TAKE i \in 1 .. n
  <2>1. i \in {1, 2, 3} /\ i <= Len(args)
    OBVIOUS
  <2>2. args[i] = Sys!Or0(args, i)
    BY <2>1 DEF Sys!Or0
  <2> QED
    BY <1>1, <1>3, <2>1, <2>2
<1>7. t = args
  <2>1. DOMAIN t = 1 .. n /\ DOMAIN args = 1 .. n
    BY <1>5, LenProperties
  <2>2. \A i \in 1 .. n : t[i] = args[i]
    BY <1>5, <1>6
  <2>3. t = [i \in 1 .. n |-> t[i]] /\ args = [i \in 1 .. n |-> args[i]]
    BY <1>5, <2>1
  <2> QED
    BY <2>1, <2>2, <2>3
<1> QED
  BY <1>1, <1>2, <1>4, <1>7

(* From the library to the handler.                                        *)
LEMMA Arrives ==
    ASSUME NEW f \in Function, NEW args, args \in Seq(Range(args)),
           Len(args) = Sys!Library[f][2]
    PROVE  Sys!int80h(Sys!Library[f][1], Sys!Or0(args, 1), Sys!Or0(args, 2), Sys!Or0(args, 3))
             = Sys!Handler(f, args)
<1>1. PICK a, b, c : a = Sys!Or0(args, 1) /\ b = Sys!Or0(args, 2) /\ c = Sys!Or0(args, 3)
  OBVIOUS
<1>2. PICK number, n : number = Sys!Library[f][1] /\ n = Sys!Library[f][2]
  OBVIOUS
<1>3. number \in 3 .. 37 /\ Sys!syscalls[number - 2] = f /\ n \in 0 .. 3
  BY <1>2, NumbersLead
<1>4. Len(Sys!syscalls) = 35
  BY DEF Sys!syscalls
<1>5. Sys!int80h(number, a, b, c) = Sys!syscallDispatcher(number, a, c, b)
  BY DEF Sys!int80h, Sys!_syscallHandler
<1>6. Sys!syscallDispatcher(number, a, c, b) = Sys!Wrapper(f, <<a, b, c>>)
  <2>1. number >= 3 /\ number < 35 + 3
    <3>1. number \in 3 .. 37
      BY <1>3, Zenon
    <3> QED
      BY <3>1, SMT
  <2>2. number < Len(Sys!syscalls) + 3
    BY <1>4, <2>1, Zenon
  <2> QED
    BY <1>3, <2>1, <2>2, Zenon DEF Sys!syscallDispatcher
<1>7. f \notin {"screen_res", "text_space"}
  BY DEF Function
<1>8. Sys!Wrapper(f, <<a, b, c>>) = Sys!Handler(f, SubSeq(<<a, b, c>>, 1, n))
  BY <1>2, <1>7 DEF Sys!Wrapper
<1>9. SubSeq(<<a, b, c>>, 1, n) = args
  BY <1>1, <1>2, <1>3, FirstOf
<1> QED
  BY <1>1, <1>2, <1>5, <1>6, <1>8, <1>9

SysInv == CallsReachTheirHandlers /\ fd = key + 3 /\ key \in Int

(* What the property says of a call of function f.                         *)
Reaches(f, args, call, k, d) ==
    LET bleeds == f = "paint" /\ (args[2] > 127 \/ args[3] > 127)
        refused == f = "kill" /\ args[1] \in {0, 1}
        Meant == CASE args[1] = d /\ k >= 0 -> k
                   [] f = "read" /\ args[1] = 1 -> "keyboard"
                   [] f = "write" /\ args[1] = 0 -> "screen"
                   [] f = "write" /\ args[1] = 2 -> "red"
                   [] OTHER -> "nowhere"
    IN  /\ call.function = IF refused THEN "none" ELSE f
        /\ IF refused \/ bleeds THEN TRUE
           ELSE IF f \in {"read", "write"} THEN call.args = <<Meant>> \o Tail(args)
           ELSE IF f = "fifo_close" THEN k >= 0 => call.args = <<k>>
           ELSE call.args = args

LEMMA ReachesIs ==
    ASSUME NEW f, NEW args, asked' = Sys!Call(f, args), Reaches(f, args, handled', key', fd')
    PROVE  CallsReachTheirHandlers'
<1>1. asked'.function = f /\ asked'.args = args
  BY DEF Sys!Call
<1> QED
  BY <1>1 DEF Reaches, CallsReachTheirHandlers, Sys!CallsReachTheirHandlers, Sys!Meant,
              Sys!STDIN, Sys!STDOUT, Sys!STDERR

LEMMA FunctionsReach ==
    ASSUME NEW f \in Function, NEW args, Sys!LibraryCall(f, args), args \in Seq(Range(args))
    PROVE  CallsReachTheirHandlers'
<1>1. /\ Len(args) = Sys!Library[f][2]
      /\ f \notin {"read", "write", "paint", "fifo_close", "fifo_open"}
      /\ asked' = Sys!Call(f, args)
  BY DEF Sys!LibraryCall
<1>2. handled' = Sys!Handler(f, args)
  BY <1>1, Arrives DEF Sys!LibraryCall, Sys!Calls
<1>3. f \notin {"screen_res", "text_space"}
  BY DEF Function
<1>4. handled' = IF f = "kill" /\ args[1] \in {0, 1} THEN Sys!Call("none", <<>>) ELSE Sys!Call(f, args)
  BY <1>1, <1>2, <1>3 DEF Sys!Handler, Sys!INIT, Sys!SHELL
<1>5. Reaches(f, args, handled', key', fd')
  BY <1>1, <1>4 DEF Reaches, Sys!Call
<1> QED
  BY <1>1, <1>5, ReachesIs

(* A color that a byte of green and blue below 128 packs is unpacked.      *)
Unpacks(color, r, g, b) ==
    Sys!Byte(color, 256 * 256) = r /\ Sys!Byte(color, 256) = g /\ Sys!Byte(color, 1) = b

LEMMA ColorsUnpack ==
    ASSUME NEW r \in 0 .. 255, NEW g \in 0 .. 127, NEW b \in 0 .. 127
    PROVE  Unpacks(Sys!paint_pixel(r, g, b), r, g, b)
<1> PICK color : color = Sys!paint_pixel(r, g, b)
  OBVIOUS
<1>1. PICK c \in Int : c = (IF r > 127 THEN r - 256 ELSE r)
  OBVIOUS
<1>2. color = (c * 256 + g) * 256 + b
  BY <1>1 DEF Sys!paint_pixel
<1>3. color \div 65536 = c /\ color \div 256 = c * 256 + g /\ color \div 1 = color
  BY <1>2
<1>4. c % 256 = r
  BY <1>1
<1>5. (c * 256 + g) % 256 = g
  OBVIOUS
<1>6. color % 256 = b
  BY <1>2
<1>7. 256 * 256 = 65536
  OBVIOUS
<1> QED
  BY <1>3, <1>4, <1>5, <1>6, <1>7 DEF Sys!Byte, Unpacks

LEMMA PixelsReach ==
    ASSUME LightIsBytes, NEW r \in Light, NEW g \in Light, NEW b \in Light, NEW x, NEW y,
           Sys!Paints(r, g, b, x, y)
    PROVE  CallsReachTheirHandlers'
<1>1. asked' = Sys!Call("paint", <<r, g, b, x, y>>)
  BY DEF Sys!Paints
<1>2. PICK color : color = Sys!paint_pixel(r, g, b)
  OBVIOUS
<1>3. PICK args : args = <<color, x, y>>
  OBVIOUS
<1>4. /\ args \in Seq(Range(args)) /\ Len(args) = Sys!Library["paint"][2] /\ "paint" \in Function
      /\ args[1] = color /\ args[2] = x /\ args[3] = y
  <2>1. args \in Seq({color, x, y}) /\ Len(args) = 3
    BY <1>3
  <2>2. args \in Seq(Range(args))
    BY <2>1, SeqOfRange
  <2> QED
    BY <1>3, <2>1, <2>2 DEF Sys!Library, Function
<1>5. handled' = Sys!Handler("paint", args)
  BY <1>2, <1>3, <1>4, Arrives DEF Sys!Paints, Sys!Calls
<1>6. handled' = Sys!Call("paint", <<Sys!Byte(color, 256 * 256), Sys!Byte(color, 256), Sys!Byte(color, 1), x, y>>)
  BY <1>4, <1>5 DEF Sys!Handler
<1>7. ASSUME g <= 127, b <= 127
      PROVE  handled' = Sys!Call("paint", <<r, g, b, x, y>>)
  <2>1. r \in 0 .. 255 /\ g \in 0 .. 127 /\ b \in 0 .. 127
    BY <1>7 DEF LightIsBytes
  <2>2. Sys!Byte(color, 256 * 256) = r /\ Sys!Byte(color, 256) = g /\ Sys!Byte(color, 1) = b
    <3>1. Unpacks(Sys!paint_pixel(r, g, b), r, g, b)
      BY <2>1, ColorsUnpack, Zenon
    <3> QED
      BY <1>2, <3>1 DEF Unpacks
  <2> QED
    BY <1>6, <2>2
<1>8. PICK all : all = <<r, g, b, x, y>>
  OBVIOUS
<1>9. all[2] = g /\ all[3] = b /\ g \in Int /\ b \in Int
  BY <1>8 DEF LightIsBytes
<1>10. Reaches("paint", all, handled', key', fd')
  <2>1. handled'.function = "paint"
    BY <1>6 DEF Sys!Call
  <2>2. all[2] > 127 \/ all[3] > 127 \/ handled'.args = all
    BY <1>7, <1>8, <1>9 DEF Sys!Call
  <2> QED
    BY <2>1, <2>2 DEF Reaches
<1> QED
  BY <1>1, <1>8, <1>10, ReachesIs

LEMMA SelectionsReach ==
    ASSUME NEW f \in DOMAIN Sys!Selections, Sys!Selects(f)
    PROVE  CallsReachTheirHandlers'
<1>1. f \in {"screen_Xresolution", "screen_Yresolution", "text_rows", "text_cols"}
  BY DEF Sys!Selections
<1>2. PICK number, choice : number = Sys!Selections[f][1] /\ choice = Sys!Selections[f][2]
  OBVIOUS
<1>3. /\ number \in {8, 9} /\ choice \in {0, 1}
      /\ number = 8 => f = IF choice = 0 THEN "screen_Xresolution" ELSE "screen_Yresolution"
      /\ number = 9 => f = IF choice = 0 THEN "text_rows" ELSE "text_cols"
  BY <1>1, <1>2 DEF Sys!Selections
<1>4. PICK rcx, rdx : /\ rcx = Sys!Or0(<<choice>>, 2) /\ rdx = Sys!Or0(<<choice>>, 3)
                      /\ choice = Sys!Or0(<<choice>>, 1)
  BY DEF Sys!Or0
<1>5. handled' = Sys!syscallDispatcher(number, choice, rdx, rcx)
  BY <1>2, <1>4 DEF Sys!Selects, Sys!Calls, Sys!int80h, Sys!_syscallHandler
<1>6. PICK g : g = IF number = 8 THEN "screen_res" ELSE "text_space"
  OBVIOUS
<1>7. Len(Sys!syscalls) = 35 /\ Sys!syscalls[number - 2] = g
  BY <1>3, <1>6 DEF Sys!syscalls
<1>8. number >= 3 /\ number < Len(Sys!syscalls) + 3
  <2>1. number >= 3 /\ number < 35 + 3
    <3>1. number \in {8, 9}
      BY <1>3, Zenon
    <3> QED
      BY <3>1, SMT
  <2> QED
    BY <1>7, <2>1, Zenon
<1>9. handled' = Sys!Wrapper(g, <<choice, rcx, rdx>>)
  BY <1>5, <1>7, <1>8, Zenon DEF Sys!syscallDispatcher
<1>10. handled' = Sys!Handler(g, <<choice>>)
  BY <1>6, <1>9 DEF Sys!Wrapper
<1>11. handled' = Sys!Call(f, <<>>)
  BY <1>3, <1>6, <1>10 DEF Sys!Handler, Sys!sys_screen_res, Sys!sys_text_space
<1>12. Reaches(f, <<>>, handled', key', fd')
  BY <1>1, <1>11 DEF Reaches, Sys!Call
<1>13. asked' = Sys!Call(f, <<>>)
  BY DEF Sys!Selects
<1> QED
  BY <1>12, <1>13, ReachesIs

(* A call with one argument before two others.                             *)
LEMMA BeforeTwo ==
    ASSUME NEW x, NEW y, NEW z
    PROVE  <<x>> \o <<y, z>> = <<x, y, z>>
<1>1. PICK S : S = {x, y, z}
  OBVIOUS
<1>2. PICK s, t : s = <<x>> /\ t = <<y, z>>
  OBVIOUS
<1>3. s \in Seq(S) /\ t \in Seq(S) /\ Len(s) = 1 /\ Len(t) = 2
  BY <1>1, <1>2
<1>4. PICK u : u = s \o t
  OBVIOUS
<1>5. /\ u \in Seq(S) /\ Len(u) = 3
      /\ \A i \in 1 .. 3 : u[i] = IF i <= 1 THEN s[i] ELSE t[i - 1]
  <2>1. Concatenation(u, s, t, S)
    BY <1>3, <1>4, Concatenated, Zenon
  <2>2. Len(s) + Len(t) = 3
    BY <1>3
  <2> QED
    BY <1>3, <2>1, <2>2 DEF Concatenation
<1>6. u[1] = x /\ u[2] = y /\ u[3] = z
  BY <1>2, <1>5
<1>7. DOMAIN u = 1 .. 3
  BY <1>5, LenProperties
<1>8. u = [i \in 1 .. 3 |-> u[i]]
  BY <1>5, <1>7
<1>9. u = <<x, y, z>>
  BY <1>6, <1>7, <1>8
<1> QED
  BY <1>2, <1>4, <1>9

LEMMA DescriptorsLead ==
    ASSUME NEW f \in {"read", "write"}, NEW d, NEW a, NEW b, key \in Int, fd = key + 3,
           d \in {fd, 0, 1, 2}, Sys!UsesDescriptor(f, d, <<a, b>>)
    PROVE  CallsReachTheirHandlers'
<1>1. PICK args : args = <<d, a, b>>
  OBVIOUS
<1>2. <<d>> \o <<a, b>> = args
  BY <1>1, BeforeTwo
<1>3. asked' = Sys!Call(f, args) /\ key' = key /\ fd' = fd
  BY <1>2 DEF Sys!UsesDescriptor, Sys!Calls
<1>4. /\ args \in Seq(Range(args)) /\ Len(args) = Sys!Library[f][2] /\ f \in Function
      /\ args[1] = d /\ args[2] = a /\ args[3] = b /\ Tail(args) = <<a, b>>
  <2>1. args \in Seq({d, a, b}) /\ Len(args) = 3
    BY <1>1
  <2>2. args \in Seq(Range(args))
    BY <2>1, SeqOfRange
  <2> QED
    BY <1>1, <2>1, <2>2 DEF Sys!Library, Function
<1>5. handled' = Sys!Handler(f, args)
  BY <1>2, <1>4, Arrives DEF Sys!UsesDescriptor, Sys!Calls
<1>6. PICK place : place = IF f = "read" THEN Sys!sys_read(d) ELSE Sys!sys_write(d)
  OBVIOUS
<1>7. handled' = Sys!Call(f, <<place, a, b>>)
  BY <1>4, <1>5, <1>6 DEF Sys!Handler
<1>8. place = CASE d = fd /\ key >= 0 -> key
                [] f = "read" /\ d = 1 -> "keyboard"
                [] f = "write" /\ d = 0 -> "screen"
                [] f = "write" /\ d = 2 -> "red"
                [] OTHER -> "nowhere"
  BY <1>6 DEF Sys!sys_read, Sys!sys_write, Sys!fds_to_fifo, Sys!STDIN, Sys!STDOUT, Sys!STDERR,
              Sys!FILE_DESCRIPTORS
<1>9. <<place>> \o <<a, b>> = <<place, a, b>>
  BY BeforeTwo
<1>10. Reaches(f, args, handled', key', fd')
  BY <1>3, <1>4, <1>7, <1>8, <1>9 DEF Reaches, Sys!Call
<1> QED
  BY <1>3, <1>10, ReachesIs

LEMMA ClosesReach ==
    ASSUME key \in Int, fd = key + 3, Sys!UsesDescriptor("fifo_close", fd, <<>>)
    PROVE  CallsReachTheirHandlers'
<1>1. PICK args : args = <<fd>>
  OBVIOUS
<1>2. <<fd>> \o <<>> = args
  BY <1>1
<1>3. asked' = Sys!Call("fifo_close", args) /\ key' = key /\ fd' = fd
  BY <1>2 DEF Sys!UsesDescriptor, Sys!Calls
<1>4. /\ args \in Seq(Range(args)) /\ Len(args) = Sys!Library["fifo_close"][2]
      /\ "fifo_close" \in Function /\ args[1] = fd
  <2>1. args \in Seq({fd}) /\ Len(args) = 1
    BY <1>1
  <2>2. args \in Seq(Range(args))
    BY <2>1, SeqOfRange
  <2> QED
    BY <1>1, <2>1, <2>2 DEF Sys!Library, Function
<1>5. handled' = Sys!Handler("fifo_close", args)
  BY <1>2, <1>4, Arrives DEF Sys!UsesDescriptor, Sys!Calls
<1>6. handled' = Sys!Call("fifo_close", <<key>>)
  <2>1. Sys!fds_to_fifo(fd) = key
    BY DEF Sys!fds_to_fifo, Sys!FILE_DESCRIPTORS
  <2> QED
    BY <1>4, <1>5, <2>1 DEF Sys!Handler
<1>7. Reaches("fifo_close", args, handled', key', fd')
  BY <1>3, <1>6 DEF Reaches, Sys!Call
<1> QED
  BY <1>3, <1>7, ReachesIs

LEMMA OpensReach ==
    ASSUME NEW name, NEW k, Sys!OpensFifo(name, k)
    PROVE  CallsReachTheirHandlers'
<1>1. PICK args : args = <<name>>
  OBVIOUS
<1>2. asked' = Sys!Call("fifo_open", args)
  BY <1>1 DEF Sys!OpensFifo
<1>3. /\ args \in Seq(Range(args)) /\ Len(args) = Sys!Library["fifo_open"][2]
      /\ "fifo_open" \in Function
      /\ Sys!Or0(args, 1) = name /\ Sys!Or0(args, 2) = 0 /\ Sys!Or0(args, 3) = 0
  <2>1. args \in Seq({name}) /\ Len(args) = 1 /\ args[1] = name
    BY <1>1
  <2>2. args \in Seq(Range(args))
    BY <2>1, SeqOfRange
  <2>3. Sys!Library["fifo_open"][2] = 1 /\ "fifo_open" \in Function
    BY DEF Sys!Library, Function
  <2> QED
    BY <2>1, <2>2, <2>3 DEF Sys!Or0
<1>4. handled' = Sys!Handler("fifo_open", args)
  BY <1>3, Arrives DEF Sys!OpensFifo
<1>5. handled' = Sys!Call("fifo_open", args)
  BY <1>4 DEF Sys!Handler
<1>6. Reaches("fifo_open", args, handled', key', fd')
  BY <1>5 DEF Reaches, Sys!Call
<1> QED
  BY <1>2, <1>6, ReachesIs

LEMMA SysInvariant == LightIsBytes /\ Sys!Spec => []SysInv
<1> SUFFICES ASSUME LightIsBytes PROVE Sys!Spec => []SysInv
  OBVIOUS
<1>1. Sys!Init => SysInv
  BY DEF Sys!Init, SysInv, CallsReachTheirHandlers, Sys!CallsReachTheirHandlers, Sys!Call, Sys!STDERR
<1>2. SysInv /\ [Sys!Next]_Sys!vars => SysInv'
  <2> SUFFICES ASSUME SysInv, [Sys!Next]_Sys!vars PROVE SysInv'
    OBVIOUS
  <2>1. key \in Int /\ fd = key + 3
    BY DEF SysInv
  <2>2. ASSUME NEW f \in DOMAIN Sys!Library, NEW n \in 0 .. 3, NEW args \in [1 .. n -> Word],
               Sys!LibraryCall(f, args)
        PROVE  SysInv'
    <3>1. f \in Function
      BY NumbersLead
    <3>2. args \in Seq(Word)
      BY SeqDef
    <3>3. args \in Seq(Range(args))
      BY <3>2, SeqOfRange
    <3>4. key' = key /\ fd' = fd
      BY <2>2 DEF Sys!LibraryCall, Sys!Calls
    <3> QED
      BY <2>1, <2>2, <3>1, <3>3, <3>4, FunctionsReach DEF SysInv
  <2>3. ASSUME NEW f \in DOMAIN Sys!Selections, Sys!Selects(f) PROVE SysInv'
    <3>1. key' = key /\ fd' = fd
      BY <2>3 DEF Sys!Selects, Sys!Calls
    <3> QED
      BY <2>1, <2>3, <3>1, SelectionsReach DEF SysInv
  <2>4. ASSUME NEW r \in Light, NEW g \in Light, NEW b \in Light, NEW x \in Word, NEW y \in Word,
               Sys!Paints(r, g, b, x, y)
        PROVE  SysInv'
    <3>1. key' = key /\ fd' = fd
      BY <2>4 DEF Sys!Paints, Sys!Calls
    <3> QED
      BY <2>1, <2>4, <3>1, PixelsReach DEF SysInv
  <2>5. ASSUME NEW d \in {fd, Sys!STDOUT, Sys!STDIN, Sys!STDERR}, NEW a \in Word, NEW b \in Word,
               NEW f \in {"read", "write"}, Sys!UsesDescriptor(f, d, <<a, b>>)
        PROVE  SysInv'
    <3>1. key' = key /\ fd' = fd
      BY <2>5 DEF Sys!UsesDescriptor, Sys!Calls
    <3>2. d \in {fd, 0, 1, 2}
      BY DEF Sys!STDIN, Sys!STDOUT, Sys!STDERR
    <3> QED
      BY <2>1, <2>5, <3>1, <3>2, DescriptorsLead DEF SysInv
  <2>6. CASE Sys!UsesDescriptor("fifo_close", fd, <<>>)
    <3>1. key' = key /\ fd' = fd
      BY <2>6 DEF Sys!UsesDescriptor, Sys!Calls
    <3> QED
      BY <2>1, <2>6, <3>1, ClosesReach DEF SysInv
  <2>7. ASSUME NEW name \in Word, NEW k \in -1 .. MAX_FIFOS - 1, Sys!OpensFifo(name, k)
        PROVE  SysInv'
    <3>1. key' = k /\ fd' = k + 3 /\ k \in Int
      BY <2>7 DEF Sys!OpensFifo, Sys!fifo_to_fds, Sys!FILE_DESCRIPTORS
    <3> QED
      BY <2>7, <3>1, OpensReach DEF SysInv
  <2>8. CASE UNCHANGED Sys!vars
    BY <2>8 DEF Sys!vars, SysInv, CallsReachTheirHandlers, Sys!CallsReachTheirHandlers, Sys!Meant,
                Sys!STDIN, Sys!STDOUT, Sys!STDERR
  <2> QED
    BY <2>2, <2>3, <2>4, <2>5, <2>6, <2>7, <2>8 DEF Sys!Next
<1> QED
  BY <1>1, <1>2, PTL DEF Sys!Spec

(* System calls (syscalls.c, int80h.asm, systemCalls.c): any arguments of  *)
(* every function of the library, and any descriptor that fifo_open has    *)
(* given, reach the handler that is meant, in their order.                 *)
THEOREM CallsArrive == LightIsBytes /\ Sys!Spec => []CallsReachTheirHandlers
<1> SUFFICES ASSUME LightIsBytes PROVE Sys!Spec => []CallsReachTheirHandlers
  OBVIOUS
<1>1. SysInv => CallsReachTheirHandlers
  BY DEF SysInv
<1>2. Sys!Spec => []SysInv
  BY SysInvariant
<1> QED
  BY <1>1, <1>2, PTL

-----------------------------------------------------------------------------
(* The screen. *)

(* videoDriver.c: there is a row and a column, and no drawing for what     *)
(* moves the cursor only.                                                  *)
ScreenHasRoom ==
    /\ COLUMNS \in Nat \ {0} /\ ROWS \in Nat \ {0}
    /\ Char \cap {"newline", "return", "tab", "backspace"} = {}

Shows(l, j) == Cardinality({k \in j .. Len(l) : l[k].char # "tab"})

(* What is before the place cur of the screen scr is the line l.           *)
Echoes(l, scr, cur) ==
    \A j \in DOMAIN l :
        l[j].char # "tab" /\ Shows(l, j) <= cur
          => /\ scr[cur - Shows(l, j)].char = l[j].char
             /\ scr[cur - Shows(l, j)].color = l[j].color

(* The last f rows have been scrolled in, or written, since the color of   *)
(* the background changed.                                                 *)
BackFrom(scr, back, f) ==
    \A p \in Screen!Position : p >= (ROWS - f) * COLUMNS => scr[p].back = back

(* Of n ends of line all but f have moved the cursor to another row, and   *)
(* those have scrolled.                                                    *)
RowsPassed(n, f, cur) == cur >= (n - f) * COLUMNS

Key == Char \cup {"newline", "tab"}
Hue == Color \cup {"white", "any"}

EchoInv ==
    /\ cursor \in Screen!Position /\ chosen \in Hue /\ char_color = chosen
    /\ line \in Seq([char : Key, color : Hue])
    /\ ~mixed => Echoes(line, screen, cursor)

CleanInv ==
    /\ clearing \in 0 .. 2 * ROWS + 1
    /\ (clearing > 0 /\ ~turned) =>
         \E f \in Nat : BackFrom(screen, bg_color, f) /\ RowsPassed(2 * ROWS + 1 - clearing, f, cursor)

ScreenInv == EchoInv /\ CleanInv

(* Rows are compared as their first places.                                *)
LEMMA RowsCompare ==
    ASSUME NEW x \in Int, NEW y \in Int, NEW w \in Nat \ {0}
    PROVE  (x <= y <=> x * w <= y * w) /\ (x < y <=> x * w < y * w)
<1>1. \A d \in Nat : d * w \in Nat /\ (d > 0 => d * w > 0)
  <2> TAKE d \in Nat
  <2>1. PICK v \in Nat : w = v + 1
    <3>1. w - 1 \in Nat /\ w = (w - 1) + 1
      OBVIOUS
    <3> QED
      BY <3>1
  <2>2. d * w = d * v + d /\ d * v \in Nat
    BY <2>1
  <2> QED
    BY <2>2
<1>2. ASSUME NEW a \in Int, NEW b \in Int, a <= b
      PROVE  a * w <= b * w /\ (a < b => a * w < b * w)
  <2>1. PICK d \in Nat : b = a + d
    <3>1. b - a \in Nat /\ b = a + (b - a)
      BY <1>2
    <3> QED
      BY <3>1
  <2>2. b * w = a * w + d * w /\ a * w \in Int
    BY <2>1
  <2>3. d * w \in Nat /\ (d > 0 => d * w > 0)
    BY <1>1
  <2> DEFINE aw == a * w
             bw == b * w
             dw == d * w
  <2>4. bw = aw + dw /\ aw \in Int /\ dw \in Nat /\ (d > 0 => dw > 0)
    BY <2>2, <2>3
  <2> HIDE DEF aw, bw, dw
  <2>5. aw <= bw /\ (a < b => aw < bw)
    BY <2>1, <2>4
  <2> QED
    BY <2>5 DEF aw, bw
<1>3. x * w \in Int /\ y * w \in Int
  OBVIOUS
<1> DEFINE xw == x * w
           yw == y * w
<1>4. xw \in Int /\ yw \in Int
  BY <1>3
<1>5. (x <= y => xw <= yw) /\ (x < y => xw < yw) /\ (y <= x => yw <= xw) /\ (y < x => yw < xw)
  BY <1>2
<1> HIDE DEF xw, yw
<1>6. (x <= y <=> xw <= yw) /\ (x < y <=> xw < yw)
  BY <1>4, <1>5
<1> QED
  BY <1>6 DEF xw, yw

(* There is a row at least.                                                *)
LEMMA OneRow ==
    ASSUME ScreenHasRoom
    PROVE  /\ Screen!CURSOR_LIMIT \in Nat /\ Screen!CURSOR_LIMIT = ROWS * COLUMNS
           /\ COLUMNS \in Nat \ {0} /\ COLUMNS <= Screen!CURSOR_LIMIT
<1>1. COLUMNS \in Nat \ {0} /\ ROWS \in Nat \ {0}
  BY DEF ScreenHasRoom
<1>2. COLUMNS * ROWS = ROWS * COLUMNS /\ ROWS * COLUMNS \in Nat
  BY <1>1
<1>3. 1 * COLUMNS <= ROWS * COLUMNS
  BY <1>1, RowsCompare
<1> QED
  BY <1>1, <1>2, <1>3 DEF Screen!CURSOR_LIMIT

(* A scroll leaves what is before the cursor before the cursor.            *)
LEMMA SettledMoves ==
    ASSUME ScreenHasRoom, NEW scr, NEW p \in -1 .. Screen!CURSOR_LIMIT,
           NEW new, NEW q, new = Screen!Settled(scr, p)[1], q = Screen!Settled(scr, p)[2]
    PROVE  /\ q \in Screen!Position /\ q <= p + 1
           /\ p = -1 => q = 0
           /\ \A k \in 1 .. q : p - k \in Screen!Position /\ new[q - k] = scr[p - k]
<1>1. PICK L \in Nat, w \in Nat \ {0} : L = Screen!CURSOR_LIMIT /\ w = COLUMNS /\ w <= L
  BY OneRow
<1>2. Screen!Position = 0 .. L - 1
  BY <1>1 DEF Screen!Position
<1>3. CASE p = -1
  <2>1. q = 0
    BY <1>1, <1>3 DEF Screen!Settled
  <2> QED
    BY <1>1, <1>2, <1>3, <2>1
<1>4. CASE p \in 0 .. L - 1
  <2>1. q = p /\ new = scr
    BY <1>1, <1>4 DEF Screen!Settled
  <2> QED
    BY <1>1, <1>2, <1>4, <2>1
<1>5. CASE p = L
  <2>1. q = L - w /\ new = Screen!scroll(scr)
    BY <1>1, <1>5 DEF Screen!Settled
  <2>2. ASSUME NEW k \in 1 .. q
        PROVE  p - k \in Screen!Position /\ new[q - k] = scr[p - k]
    <3>1. q - k \in Screen!Position /\ (q - k) + w < L /\ (q - k) + w = p - k
      BY <1>1, <1>2, <1>5, <2>1, <2>2
    <3>2. new[q - k] = scr[(q - k) + w]
      BY <1>1, <2>1, <3>1 DEF Screen!scroll
    <3> QED
      BY <1>1, <1>2, <1>5, <2>1, <2>2, <3>1, <3>2
  <2> QED
    BY <1>1, <1>2, <1>5, <2>1, <2>2
<1> QED
  BY <1>1, <1>3, <1>4, <1>5

(* The characters that the line shows.                                     *)
LEMMA ShowsOneMore ==
    ASSUME NEW S, NEW l \in Seq(S), NEW e \in S, NEW j \in DOMAIN l
    PROVE  /\ j \in DOMAIN Append(l, e) /\ Append(l, e)[j] = l[j]
           /\ Shows(l, j) \in Nat /\ (l[j].char # "tab" => Shows(l, j) > 0)
           /\ Shows(Append(l, e), j) = Shows(l, j) + (IF e.char = "tab" THEN 0 ELSE 1)
<1>1. PICK m, n : m = Append(l, e) /\ n = Len(l) /\ n \in Nat
  BY LenProperties
<1>2. /\ DOMAIN l = 1 .. n /\ DOMAIN m = 1 .. n + 1 /\ Len(m) = n + 1
      /\ m[n + 1] = e /\ \A k \in 1 .. n : m[k] = l[k]
  BY <1>1, AppendProperties, LenProperties
<1>3. PICK T, U : /\ T = {k \in j .. n : l[k].char # "tab"}
                  /\ U = {k \in j .. n + 1 : m[k].char # "tab"}
  OBVIOUS
<1>4. Shows(l, j) = Cardinality(T) /\ Shows(m, j) = Cardinality(U)
  BY <1>1, <1>2, <1>3 DEF Shows
<1>5. j \in 1 .. n /\ j \in Int
  BY <1>1, <1>2
<1>6. /\ \A k : k \in T <=> k \in j .. n /\ l[k].char # "tab"
      /\ \A k : k \in U <=> k \in j .. n + 1 /\ m[k].char # "tab"
  BY <1>3
<1>7. IsFiniteSet(T) /\ n + 1 \notin T
  <2>1. IsFiniteSet(j .. n)
    BY <1>1, <1>5, FS_Interval
  <2>2. T \subseteq j .. n
    BY <1>6
  <2>3. n + 1 \notin j .. n
    BY <1>1, <1>5
  <2> QED
    BY <2>1, <2>2, <2>3, FS_Subset
<1>8. PICK c \in Nat : c = Cardinality(T)
  BY <1>7, FS_CardinalityType
<1>9. l[j].char # "tab" => c > 0
  <2>1. l[j].char # "tab" => j \in T
    BY <1>1, <1>5, <1>6
  <2>2. c = 0 <=> T = {}
    BY <1>7, <1>8, FS_EmptySet
  <2> QED
    BY <1>8, <2>1, <2>2
<1>10. Cardinality(U) = c + (IF e.char = "tab" THEN 0 ELSE 1)
  <2>1. \A k \in j .. n + 1 : k = n + 1 \/ (k \in j .. n /\ m[k] = l[k])
    BY <1>1, <1>2, <1>5
  <2>2. n + 1 \in j .. n + 1 /\ \A k \in j .. n : k \in j .. n + 1
    BY <1>1, <1>5
  <2>3. \A k : k \in U <=> (k = n + 1 /\ e.char # "tab") \/ k \in T
    BY <1>2, <1>6, <2>1, <2>2
  <2>4. e.char = "tab" => U = T
    BY <2>3
  <2>5. e.char # "tab" => U = T \cup {n + 1}
    BY <2>3
  <2>6. Cardinality(T \cup {n + 1}) = c + 1
    BY <1>7, <1>8, FS_AddElement
  <2> QED
    <3>1. CASE e.char = "tab"
      BY <1>8, <2>4, <3>1
    <3>2. CASE e.char # "tab"
      BY <1>8, <2>5, <2>6, <3>2
    <3> QED
      BY <3>1, <3>2
<1>11. j \in DOMAIN m /\ m[j] = l[j]
  BY <1>1, <1>2, <1>5
<1> QED
  BY <1>1, <1>4, <1>8, <1>9, <1>10, <1>11

LEMMA ShowsTheLast ==
    ASSUME NEW S, NEW l \in Seq(S), NEW e \in S, e.char # "tab"
    PROVE  Shows(Append(l, e), Len(l) + 1) = 1
<1>1. PICK m, n : m = Append(l, e) /\ n = Len(l) /\ n \in Nat
  BY LenProperties
<1>2. Len(m) = n + 1 /\ m[n + 1] = e
  BY <1>1, AppendProperties
<1>3. {k \in n + 1 .. n + 1 : m[k].char # "tab"} = {n + 1}
  BY <1>2
<1> QED
  BY <1>1, <1>2, <1>3, FS_Singleton DEF Shows

(* A character that is typed appears behind the line.                      *)
LEMMA EchoesTyped ==
    ASSUME ScreenHasRoom, NEW S, NEW l \in Seq(S), NEW e \in S, e.char # "tab",
           NEW scr, NEW cur \in Screen!Position, Echoes(l, scr, cur),
           NEW cell, cell.char = e.char, cell.color = e.color,
           NEW printed, printed = Screen!print_char(scr, cell, cur),
           NEW new, NEW q,
           new = Screen!Settled(printed, cur + 1)[1], q = Screen!Settled(printed, cur + 1)[2]
    PROVE  Echoes(Append(l, e), new, q)
<1>1. PICK m, n : m = Append(l, e) /\ n = Len(l) /\ n \in Nat
  BY LenProperties
<1>2. /\ DOMAIN l = 1 .. n /\ DOMAIN m = 1 .. n + 1
      /\ m[n + 1] = e /\ \A k \in 1 .. n : m[k] = l[k]
  BY <1>1, AppendProperties, LenProperties
<1>3. cur \in Nat /\ cur + 1 \in -1 .. Screen!CURSOR_LIMIT /\ Screen!CURSOR_LIMIT \in Nat
  BY OneRow DEF Screen!Position
<1>4. /\ q \in Screen!Position /\ q <= cur + 2
      /\ \A k \in 1 .. q : (cur + 1) - k \in Screen!Position /\ new[q - k] = printed[(cur + 1) - k]
  BY <1>3, SettledMoves
<1>5. q \in Nat
  BY <1>3, <1>4 DEF Screen!Position
<1>6. ASSUME NEW j \in DOMAIN m, m[j].char # "tab", Shows(m, j) <= q
      PROVE  new[q - Shows(m, j)].char = m[j].char /\ new[q - Shows(m, j)].color = m[j].color
  <2>1. CASE j = n + 1
    <3>1. Shows(m, j) = 1
      BY <1>1, <2>1, ShowsTheLast
    <3>2. new[q - 1] = printed[(cur + 1) - 1] /\ (cur + 1) - 1 = cur
      BY <1>3, <1>4, <1>5, <1>6, <3>1
    <3>3. printed[cur] = cell
      BY DEF Screen!print_char
    <3> QED
      BY <1>2, <2>1, <3>1, <3>2, <3>3
  <2>2. CASE j \in 1 .. n
    <3>1. PICK k \in Nat : k = Shows(l, j) /\ k > 0 /\ Shows(m, j) = k + 1 /\ l[j].char # "tab"
      BY <1>1, <1>2, <1>6, <2>2, ShowsOneMore
    <3>2. (cur + 1) - (k + 1) \in Screen!Position /\ new[q - (k + 1)] = printed[(cur + 1) - (k + 1)]
      BY <1>4, <1>5, <1>6, <3>1
    <3>3. (cur + 1) - (k + 1) = cur - k /\ cur - k # cur /\ k <= cur
      BY <1>3, <3>1, <3>2 DEF Screen!Position
    <3>4. printed[cur - k] = scr[cur - k]
      BY <3>2, <3>3 DEF Screen!print_char
    <3>5. scr[cur - k].char = l[j].char /\ scr[cur - k].color = l[j].color
      BY <1>2, <2>2, <3>1, <3>3 DEF Echoes
    <3> QED
      BY <1>2, <2>2, <3>1, <3>2, <3>3, <3>4, <3>5
  <2>3. j = n + 1 \/ j \in 1 .. n
    BY <1>1, <1>2
  <2> QED
    BY <2>1, <2>2, <2>3
<1> QED
  BY <1>1, <1>6 DEF Echoes

(* A tab is only in the buffer.                                            *)
LEMMA EchoesTab ==
    ASSUME NEW S, NEW l \in Seq(S), NEW e \in S, e.char = "tab", NEW scr, NEW cur
    PROVE  Echoes(Append(l, e), scr, cur) <=> Echoes(l, scr, cur)
<1>1. PICK m, n : m = Append(l, e) /\ n = Len(l) /\ n \in Nat
  BY LenProperties
<1>2. DOMAIN l = 1 .. n /\ DOMAIN m = 1 .. n + 1 /\ m[n + 1] = e
  BY <1>1, AppendProperties, LenProperties
<1>3. \A j \in 1 .. n : m[j] = l[j] /\ Shows(m, j) = Shows(l, j)
  BY <1>1, <1>2, ShowsOneMore
<1>4. \A j \in DOMAIN m : j \in DOMAIN l \/ m[j].char = "tab"
  <2>1. \A j \in 1 .. n + 1 : j \in 1 .. n \/ j = n + 1
    BY <1>1
  <2> QED
    BY <1>2, <2>1
<1> QED
  BY <1>1, <1>2, <1>3, <1>4 DEF Echoes

(* A backspace takes the last character of the line from the screen.       *)
LEMMA EchoesErased ==
    ASSUME ScreenHasRoom, NEW S, NEW l \in Seq(S), NEW e \in S, e.char # "tab",
           NEW scr, NEW cur \in Screen!Position, Echoes(Append(l, e), scr, cur),
           NEW cell, NEW printed, printed = Screen!print_char(scr, cell, cur - 1),
           NEW new, NEW q,
           new = Screen!Settled(printed, cur - 1)[1], q = Screen!Settled(printed, cur - 1)[2]
    PROVE  Echoes(l, new, q)
<1>1. PICK m, n : m = Append(l, e) /\ n = Len(l) /\ n \in Nat
  BY LenProperties
<1>2. DOMAIN l = 1 .. n /\ DOMAIN m = 1 .. n + 1 /\ \A k \in 1 .. n : m[k] = l[k]
  BY <1>1, AppendProperties, LenProperties
<1>3. cur \in Nat /\ cur - 1 \in -1 .. Screen!CURSOR_LIMIT /\ Screen!CURSOR_LIMIT \in Nat
  BY OneRow DEF Screen!Position
<1>4. /\ q \in Screen!Position /\ q <= (cur - 1) + 1 /\ (cur - 1 = -1 => q = 0)
      /\ \A k \in 1 .. q : (cur - 1) - k \in Screen!Position /\ new[q - k] = printed[(cur - 1) - k]
  BY <1>3, SettledMoves
<1>5. q \in Nat
  BY <1>3, <1>4 DEF Screen!Position
<1>6. ASSUME NEW j \in DOMAIN l, l[j].char # "tab", Shows(l, j) <= q
      PROVE  new[q - Shows(l, j)].char = l[j].char /\ new[q - Shows(l, j)].color = l[j].color
  <2>1. PICK k \in Nat : k = Shows(l, j) /\ k > 0 /\ Shows(m, j) = k + 1
    BY <1>1, <1>6, ShowsOneMore
  <2>2. (cur - 1) - k \in Screen!Position /\ new[q - k] = printed[(cur - 1) - k]
    BY <1>4, <1>5, <1>6, <2>1
  <2>3. (cur - 1) - k = cur - (k + 1) /\ (cur - 1) - k # cur - 1 /\ k + 1 <= cur
    BY <1>3, <2>1, <2>2 DEF Screen!Position
  <2>4. printed[(cur - 1) - k] = scr[(cur - 1) - k]
    BY <2>2, <2>3 DEF Screen!print_char
  <2>5. j \in DOMAIN m /\ m[j] = l[j]
    BY <1>1, ShowsOneMore
  <2>6. scr[cur - (k + 1)].char = l[j].char /\ scr[cur - (k + 1)].color = l[j].color
    BY <1>1, <1>6, <2>1, <2>3, <2>5 DEF Echoes
  <2> QED
    BY <2>1, <2>2, <2>3, <2>4, <2>6
<1> QED
  BY <1>6 DEF Echoes

(* The start of the next row.                                              *)
LEMMA NextRow ==
    ASSUME ScreenHasRoom, NEW cur \in Screen!Position,
           NEW p, p = (cur \div COLUMNS + 1) * COLUMNS
    PROVE  /\ p \in 0 .. Screen!CURSOR_LIMIT
           /\ \A x \in Int : cur >= x * COLUMNS => p >= (x + 1) * COLUMNS
<1>1. PICK L \in Nat, w \in Nat \ {0}, h \in Nat : 
        L = Screen!CURSOR_LIMIT /\ w = COLUMNS /\ h = ROWS /\ L = h * w
  BY OneRow DEF ScreenHasRoom
<1>2. cur \in Nat /\ cur < L
  BY <1>1 DEF Screen!Position
<1>3. PICK r \in Nat : r * w <= cur /\ cur < (r + 1) * w /\ p = (r + 1) * w
  <2>1. cur \div w \in Nat /\ cur % w \in 0 .. w - 1 /\ cur = w * (cur \div w) + (cur % w)
    BY <1>2
  <2> DEFINE r == cur \div w
             b == cur % w
  <2>2. r \in Nat /\ b \in 0 .. w - 1 /\ cur = w * r + b /\ p = (r + 1) * w
    BY <1>1, <2>1
  <2> HIDE DEF r, b
  <2>3. w * r = r * w /\ r * w \in Nat /\ (r + 1) * w = r * w + w
    BY <2>2
  <2> DEFINE rw == r * w
  <2>4. rw \in Nat /\ cur = rw + b /\ (r + 1) * w = rw + w
    BY <2>2, <2>3
  <2> HIDE DEF rw
  <2>5. rw <= cur /\ cur < rw + w
    BY <2>2, <2>4
  <2> QED
    BY <2>2, <2>4, <2>5 DEF rw
<1>4. r + 1 <= h
  <2>1. r * w < h * w
    <3> DEFINE rw == r * w
               hw == h * w
    <3>1. rw \in Nat /\ hw \in Nat /\ rw <= cur /\ L = hw
      BY <1>1, <1>3
    <3> HIDE DEF rw, hw
    <3>2. rw < hw
      BY <1>2, <3>1
    <3> QED
      BY <3>2 DEF rw, hw
  <2>2. r < h
    BY <2>1, RowsCompare
  <2> QED
    BY <2>2
<1>5. p \in 0 .. L
  <2>1. (r + 1) * w <= h * w /\ (r + 1) * w \in Nat
    BY <1>4, RowsCompare
  <2> QED
    BY <1>1, <1>3, <2>1
<1>6. ASSUME NEW x \in Int, cur >= x * w PROVE p >= (x + 1) * w
  <2>1. x * w < (r + 1) * w
    <3> DEFINE xw == x * w
               rw == (r + 1) * w
    <3>1. xw \in Int /\ rw \in Int /\ xw <= cur /\ cur < rw
      BY <1>2, <1>3, <1>6
    <3> HIDE DEF xw, rw
    <3>2. xw < rw
      BY <1>2, <3>1
    <3> QED
      BY <3>2 DEF xw, rw
  <2>2. x < r + 1
    BY <2>1, RowsCompare
  <2>3. x + 1 <= r + 1
    BY <2>2
  <2>4. (x + 1) * w <= (r + 1) * w /\ (x + 1) * w \in Int /\ (r + 1) * w \in Int
    BY <2>3, RowsCompare
  <2> QED
    BY <1>3, <2>4
<1> QED
  BY <1>1, <1>5, <1>6

(* A scroll has a row more of the background, and the cursor a row less    *)
(* before it.                                                              *)
LEMMA SettledIsClean ==
    ASSUME ScreenHasRoom, NEW scr, NEW p \in 0 .. Screen!CURSOR_LIMIT,
           NEW f \in Nat, BackFrom(scr, bg_color, f), NEW m \in Int, RowsPassed(m, f, p),
           NEW new, NEW q, new = Screen!Settled(scr, p)[1], q = Screen!Settled(scr, p)[2]
    PROVE  \E g \in Nat : BackFrom(new, bg_color, g) /\ RowsPassed(m, g, q)
<1>1. PICK L \in Nat, w \in Nat \ {0}, h \in Nat :
        L = Screen!CURSOR_LIMIT /\ w = COLUMNS /\ h = ROWS /\ L = h * w
  BY OneRow DEF ScreenHasRoom
<1>2. Screen!Position = 0 .. L - 1
  BY <1>1 DEF Screen!Position
<1>3. CASE p # L
  <2>1. q = p /\ new = scr
    BY <1>1, <1>3 DEF Screen!Settled
  <2> QED
    BY <2>1
<1>4. CASE p = L
  <2>1. q = L - w /\ new = Screen!scroll(scr)
    BY <1>1, <1>4 DEF Screen!Settled
  <2>2. PICK a, b, c, d \in Int :
          /\ a = (h - f) * w /\ b = (h - (f + 1)) * w /\ b = a - w
          /\ c = (m - f) * w /\ d = (m - (f + 1)) * w /\ d = c - w
    <3>1. (h - (f + 1)) * w = (h - f) * w - w /\ (m - (f + 1)) * w = (m - f) * w - w
      BY <1>1
    <3> QED
      BY <1>1, <3>1
  <2>3. c <= L
    BY <1>1, <1>4, <2>2 DEF RowsPassed
  <2>4. q >= d
    BY <1>1, <2>1, <2>2, <2>3
  <2>5. ASSUME NEW x \in 0 .. L - 1, x >= b PROVE new[x].back = bg_color
    <3>1. CASE x + w < L
      <4>1. x + w \in Screen!Position /\ x + w >= a
        BY <1>1, <1>2, <2>2, <2>5, <3>1
      <4>2. new[x] = scr[x + w]
        BY <1>1, <1>2, <2>1, <3>1 DEF Screen!scroll
      <4> QED
        BY <1>1, <2>2, <4>1, <4>2 DEF BackFrom
    <3>2. CASE ~(x + w < L)
      <4>1. new[x] = Screen!Blank
        BY <1>1, <1>2, <2>1, <3>2 DEF Screen!scroll
      <4>2. Screen!Blank.back = bg_color
        BY DEF Screen!Blank, Screen!Drawn
      <4> QED
        BY <4>1, <4>2
    <3> QED
      BY <3>1, <3>2
  <2>6. BackFrom(new, bg_color, f + 1)
    BY <1>1, <1>2, <2>2, <2>5 DEF BackFrom
  <2>7. RowsPassed(m, f + 1, q)
    BY <1>1, <2>2, <2>4 DEF RowsPassed
  <2>8. f + 1 \in Nat
    OBVIOUS
  <2> QED
    BY <2>6, <2>7, <2>8
<1> QED
  BY <1>3, <1>4

(* While the screen is cleared, whatever is written but a character that   *)
(* turns the cursor back.                                                  *)
LEMMA WritesClean ==
    ASSUME ScreenHasRoom, NEW c, NEW color, c \notin {"return", "backspace"},
           Screen!Puts(c, color), cursor \in Screen!Position,
           NEW f \in Nat, BackFrom(screen, bg_color, f), NEW n \in Int, RowsPassed(n, f, cursor),
           NEW m \in {n, n + 1}, m = n + 1 => c = "newline"
    PROVE  \E g \in Nat : BackFrom(screen', bg_color', g) /\ RowsPassed(m, g, cursor')
<1>1. PICK L \in Nat, w \in Nat \ {0} : L = Screen!CURSOR_LIMIT /\ w = COLUMNS
  BY OneRow
<1>2. cursor \in Nat /\ cursor < L
  BY <1>1 DEF Screen!Position
<1>3. screen' = Screen!put_char(c, color)[1] /\ cursor' = Screen!put_char(c, color)[2] /\ bg_color' = bg_color
  BY DEF Screen!Puts
<1>4. CASE c = "newline"
  <2>1. PICK p : p = (cursor \div COLUMNS + 1) * COLUMNS
    OBVIOUS
  <2>2. /\ p \in 0 .. Screen!CURSOR_LIMIT
        /\ \A x \in Int : cursor >= x * COLUMNS => p >= (x + 1) * COLUMNS
    BY <2>1, NextRow
  <2>3. p >= (n - f + 1) * w
    <3>1. PICK x \in Int : x = n - f
      OBVIOUS
    <3>2. cursor >= x * COLUMNS
      BY <3>1 DEF RowsPassed
    <3> QED
      BY <1>1, <2>2, <3>1, <3>2
  <2>4. (m - f) * w <= (n - f + 1) * w /\ (m - f) * w \in Int /\ (n - f + 1) * w \in Int
    <3>1. m \in Int /\ m - f <= n - f + 1 /\ m - f \in Int /\ n - f + 1 \in Int
      OBVIOUS
    <3> QED
      BY <3>1, RowsCompare
  <2>5. RowsPassed(m, f, p)
    BY <1>1, <2>2, <2>3, <2>4 DEF RowsPassed
  <2>6. screen' = Screen!Settled(screen, p)[1] /\ cursor' = Screen!Settled(screen, p)[2]
    BY <1>3, <1>4, <2>1 DEF Screen!put_char
  <2>7. m \in Int
    OBVIOUS
  <2> QED
    BY <1>3, <2>2, <2>5, <2>6, <2>7, SettledIsClean
<1>5. CASE c = "tab"
  <2>1. screen' = screen /\ cursor' = cursor /\ m = n
    BY <1>3, <1>5 DEF Screen!put_char
  <2> QED
    BY <1>3, <2>1
<1>6. CASE c \notin {"newline", "tab"}
  <2>1. PICK cell, printed : cell = Screen!Drawn(c, color) /\ printed = Screen!print_char(screen, cell, cursor)
    OBVIOUS
  <2>2. screen' = Screen!Settled(printed, cursor + 1)[1] /\ cursor' = Screen!Settled(printed, cursor + 1)[2]
    BY <1>3, <1>6, <2>1 DEF Screen!put_char
  <2>3. BackFrom(printed, bg_color, f)
    <3>1. cell.back = bg_color
      BY <2>1 DEF Screen!Drawn
    <3> QED
      BY <2>1, <3>1 DEF BackFrom, Screen!print_char
  <2>4. m = n /\ cursor + 1 \in 0 .. Screen!CURSOR_LIMIT
    BY <1>1, <1>2, <1>6
  <2>5. RowsPassed(m, f, cursor + 1)
    <3>1. (n - f) * w \in Int /\ cursor >= (n - f) * w
      BY <1>1 DEF RowsPassed
    <3>2. cursor + 1 >= (n - f) * w
      BY <1>2, <3>1
    <3> QED
      BY <1>1, <2>4, <3>2 DEF RowsPassed
  <2> QED
    BY <1>3, <2>2, <2>3, <2>4, <2>5, SettledIsClean
<1> QED
  BY <1>4, <1>5, <1>6

LEMMA CursorStays ==
    ASSUME ScreenHasRoom, NEW c, NEW color, Screen!Puts(c, color), cursor \in Screen!Position
    PROVE  cursor' \in Screen!Position
<1>1. PICK L \in Nat : L = Screen!CURSOR_LIMIT /\ L > 0
  BY OneRow
<1>2. Screen!Position = 0 .. L - 1 /\ cursor \in 0 .. L - 1
  BY <1>1 DEF Screen!Position
<1>3. cursor' = Screen!put_char(c, color)[2]
  BY DEF Screen!Puts
<1>4. \A scr, p : p \in -1 .. L => Screen!Settled(scr, p)[2] \in Screen!Position
  BY <1>1, SettledMoves
<1>5. CASE c = "newline"
  <2>1. PICK p : p = (cursor \div COLUMNS + 1) * COLUMNS
    OBVIOUS
  <2>2. p \in 0 .. L
    BY <1>1, <2>1, NextRow
  <2>3. cursor' = Screen!Settled(screen, p)[2]
    BY <1>3, <1>5, <2>1 DEF Screen!put_char
  <2> QED
    BY <1>1, <1>4, <2>2, <2>3
<1>6. CASE c = "backspace"
  BY <1>1, <1>2, <1>3, <1>4, <1>6 DEF Screen!put_char
<1>7. CASE c \in {"return", "tab"}
  BY <1>1, <1>2, <1>3, <1>7 DEF Screen!put_char
<1>8. CASE c \notin {"newline", "backspace", "return", "tab"}
  BY <1>1, <1>2, <1>3, <1>4, <1>8 DEF Screen!put_char
<1> QED
  BY <1>5, <1>6, <1>7, <1>8

(* The line is what is before its last character, and that character.      *)
LEMMA FrontAndLast ==
    ASSUME NEW S, NEW s \in Seq(S), s # <<>>
    PROVE  /\ SubSeq(s, 1, Len(s) - 1) \in Seq(S) /\ s[Len(s)] \in S
           /\ s = Append(SubSeq(s, 1, Len(s) - 1), s[Len(s)])
<1>1. PICK n \in Nat : n = Len(s) /\ n > 0 /\ DOMAIN s = 1 .. n
  BY LenProperties, EmptySeq
<1>2. PICK l : l = SubSeq(s, 1, n - 1)
  OBVIOUS
<1>3. \A i \in 1 .. n : s[i] \in S
  BY <1>1, ElementOfSeq
<1>4. l \in Seq(S) /\ Len(l) = n - 1 /\ \A i \in 1 .. n - 1 : l[i] = s[i]
  <2>1. \A i \in 1 .. n - 1 : s[i] \in S
    BY <1>1, <1>3
  <2>2. 1 \in Int /\ n - 1 \in Int
    BY <1>1
  <2>3. /\ l \in Seq(S) /\ Len(l) = IF 1 <= n - 1 THEN (n - 1) - 1 + 1 ELSE 0
        /\ \A i \in 1 .. (n - 1) - 1 + 1 : l[i] = s[1 + i - 1]
    BY <1>2, <2>1, <2>2, SubSeqProperties
  <2> QED
    BY <1>1, <2>3
<1>5. /\ Append(l, s[n]) \in Seq(S) /\ Len(Append(l, s[n])) = n
      /\ \A i \in 1 .. n : Append(l, s[n])[i] = s[i]
  <2>1. s[n] \in S
    BY <1>1, <1>3
  <2>2. /\ Append(l, s[n]) \in Seq(S) /\ Len(Append(l, s[n])) = Len(l) + 1
        /\ \A i \in 1 .. Len(l) : Append(l, s[n])[i] = l[i]
        /\ Append(l, s[n])[Len(l) + 1] = s[n]
    BY <1>4, <2>1, AppendProperties
  <2>3. \A i \in 1 .. n : i = n \/ i \in 1 .. n - 1
    BY <1>1
  <2> QED
    BY <1>1, <1>4, <2>2, <2>3
<1>6. Append(l, s[n]) = s
  BY <1>1, <1>5, SeqEqual
<1> QED
  BY <1>1, <1>2, <1>3, <1>4, <1>6

(* What the reader of the line does.                                       *)
LEMMA ReaderEchoes ==
    ASSUME ScreenHasRoom, EchoInv,
           NEW c \in Char \cup {"newline", "tab", "backspace"}, Screen!fill_buffer(c)
    PROVE  EchoInv'
<1>1. /\ cursor \in Screen!Position /\ chosen \in Hue /\ char_color = chosen
      /\ line \in Seq([char : Key, color : Hue])
      /\ ~mixed => Echoes(line, screen, cursor)
      /\ chosen' = chosen
  BY DEF EchoInv, Screen!fill_buffer
<1> DEFINE Cell == [char : Key, color : Hue]
<1>2. \A scr, cur : Echoes(<<>>, scr, cur)
  BY DEF Echoes
<1>3. <<>> \in Seq(Cell)
  BY EmptySeq
<1>4. ASSUME NEW color, Screen!Puts(c, color) PROVE cursor' \in Screen!Position
  BY <1>1, <1>4, CursorStays
<1>5. CASE c # "backspace"
  <2>1. PICK e : e = [char |-> c, color |-> Screen!Ink(c, chosen)]
    OBVIOUS
  <2>2. e \in Cell /\ e.char = c /\ e.color = Screen!Ink(c, chosen)
    BY <1>1, <1>5, <2>1 DEF Key, Hue, Screen!Ink
  <2>3. PICK l : l = Append(line, e)
    OBVIOUS
  <2>4. /\ Screen!Puts(c, char_color) /\ char_color' = char_color
        /\ \/ line' = <<>>
           \/ c # "newline" /\ line' = l /\ (~mixed' => ~mixed \/ l = <<>>)
    BY <1>5, <2>1, <2>3 DEF Screen!fill_buffer, Screen!sys_write, Screen!Begins
  <2>5. l \in Seq(Cell) /\ l # <<>>
    BY <1>1, <2>2, <2>3, AppendProperties
  <2>6. ASSUME c # "newline", ~mixed PROVE Echoes(l, screen', cursor')
    <3>1. CASE c = "tab"
      <4>1. screen' = screen /\ cursor' = cursor
        BY <2>4, <3>1 DEF Screen!Puts, Screen!put_char
      <4> QED
        BY <1>1, <2>2, <2>3, <2>6, <3>1, <4>1, EchoesTab
    <3>2. CASE c # "tab"
      <4>1. c \notin {"backspace", "newline", "return", "tab"}
        BY <1>5, <2>6, <3>2 DEF ScreenHasRoom
      <4>2. PICK cell, printed : /\ cell = Screen!Drawn(c, char_color)
                                 /\ printed = Screen!print_char(screen, cell, cursor)
        OBVIOUS
      <4>3. cell.char = e.char /\ cell.color = e.color
        BY <1>1, <2>2, <4>2 DEF Screen!Drawn
      <4>4. /\ screen' = Screen!Settled(printed, cursor + 1)[1]
            /\ cursor' = Screen!Settled(printed, cursor + 1)[2]
        BY <2>4, <4>1, <4>2 DEF Screen!Puts, Screen!put_char
      <4>5. Echoes(line, screen, cursor) /\ e.char # "tab"
        BY <1>1, <2>2, <2>6, <3>2
      <4> QED
        BY <1>1, <2>2, <2>3, <4>2, <4>3, <4>4, <4>5, EchoesTyped
    <3> QED
      BY <3>1, <3>2
  <2>7. cursor' \in Screen!Position
    BY <1>4, <2>4
  <2>8. line' \in Seq(Cell) /\ (~mixed' => Echoes(line', screen', cursor'))
    BY <1>2, <1>3, <2>4, <2>5, <2>6
  <2> QED
    BY <1>1, <2>4, <2>7, <2>8 DEF EchoInv
<1>6. CASE c = "backspace" /\ line = <<>>
  <2>1. UNCHANGED <<cursor, screen, char_color, line, mixed>>
    BY <1>6 DEF Screen!fill_buffer
  <2> QED
    BY <1>1, <2>1 DEF EchoInv
<1>7. CASE c = "backspace" /\ line # <<>>
  <2>1. PICK l, e : l \in Seq(Cell) /\ e \in Cell /\ line = Append(l, e)
                    /\ l = Screen!Front(line) /\ e = Screen!Last(line)
    BY <1>1, <1>7, FrontAndLast DEF Screen!Front, Screen!Last
  <2>2. line' = l /\ (~mixed' => ~mixed \/ l = <<>>)
    BY <1>7, <2>1 DEF Screen!fill_buffer, Screen!Begins
  <2>3. CASE e.char = "tab"
    <3>1. UNCHANGED <<cursor, screen, char_color>>
      BY <1>7, <2>1, <2>3 DEF Screen!fill_buffer
    <3>2. ~mixed' => Echoes(l, screen, cursor)
      BY <1>1, <1>2, <2>1, <2>2, <2>3, EchoesTab
    <3> QED
      BY <1>1, <2>1, <2>2, <3>1, <3>2 DEF EchoInv
  <2>4. CASE e.char # "tab"
    <3>1. Screen!Puts("backspace", char_color) /\ char_color' = char_color
      BY <1>7, <2>1, <2>4 DEF Screen!fill_buffer, Screen!sys_write
    <3>2. PICK printed : printed = Screen!print_char(screen, Screen!Blank, cursor - 1)
      OBVIOUS
    <3>3. /\ screen' = Screen!Settled(printed, cursor - 1)[1]
          /\ cursor' = Screen!Settled(printed, cursor - 1)[2]
      BY <3>1, <3>2 DEF Screen!Puts, Screen!put_char
    <3>4. ~mixed => Echoes(l, screen', cursor')
      BY <1>1, <2>1, <2>4, <3>2, <3>3, EchoesErased
    <3>5. ~mixed' => Echoes(l, screen', cursor')
      BY <1>2, <2>2, <3>4
    <3>6. cursor' \in Screen!Position
      BY <1>1, <3>1, CursorStays
    <3> QED
      BY <1>1, <2>1, <2>2, <3>1, <3>5, <3>6 DEF EchoInv
  <2> QED
    BY <2>3, <2>4
<1> QED
  BY <1>5, <1>6, <1>7

LEMMA EchoStays ==
    ASSUME ScreenHasRoom, EchoInv, [Screen!Next]_(Screen!vars)
    PROVE  EchoInv'
<1>1. /\ cursor \in Screen!Position /\ chosen \in Hue /\ char_color = chosen
      /\ line \in Seq([char : Key, color : Hue])
      /\ ~mixed => Echoes(line, screen, cursor)
  BY DEF EchoInv
<1>2. ASSUME NEW c, NEW color, Screen!Puts(c, color), mixed' = (mixed \/ line # <<>>),
             UNCHANGED <<char_color, line, chosen>>
      PROVE  EchoInv'
  <2>1. cursor' \in Screen!Position
    BY <1>1, <1>2, CursorStays
  <2>2. ~mixed' => Echoes(line, screen', cursor')
    <3>1. \A scr, cur : Echoes(<<>>, scr, cur)
      BY DEF Echoes
    <3>2. ~mixed' => line = <<>>
      BY <1>2, Zenon
    <3> QED
      BY <3>1, <3>2
  <2> QED
    BY <1>1, <1>2, <2>1, <2>2 DEF EchoInv
<1>3. ASSUME NEW fds, NEW c, Screen!Writes(fds, c) PROVE EchoInv'
  BY <1>2, <1>3 DEF Screen!Writes, Screen!sys_write
<1>4. ASSUME NEW c \in Color \cup {"none"}, Screen!change_char_color(c) PROVE EchoInv'
  <2>1. char_color' = chosen' /\ chosen' \in Hue /\ UNCHANGED <<cursor, screen, line, mixed>>
    BY <1>1, <1>4 DEF Screen!change_char_color, Screen!set_color, Hue
  <2> QED
    BY <1>1, <2>1 DEF EchoInv
<1>5. ASSUME NEW c, Screen!change_bg_color(c) PROVE EchoInv'
  BY <1>1, <1>5 DEF Screen!change_bg_color, EchoInv
<1>6. ASSUME Screen!clear PROVE EchoInv'
  BY <1>2, <1>6 DEF Screen!clear
<1>7. ASSUME UNCHANGED Screen!vars PROVE EchoInv'
  BY <1>1, <1>7 DEF Screen!vars, EchoInv
<1> QED
  BY <1>3, <1>4, <1>5, <1>6, <1>7, ReaderEchoes DEF Screen!Next

LEMMA CleanStays ==
    ASSUME ScreenHasRoom, EchoInv, CleanInv, [Screen!Next]_(Screen!vars)
    PROVE  CleanInv'
<1>1. PICK h \in Nat \ {0} : h = ROWS
  BY DEF ScreenHasRoom
<1>2. cursor \in Screen!Position /\ clearing \in 0 .. 2 * h + 1
  BY <1>1 DEF EchoInv, CleanInv
<1>3. (clearing > 0 /\ ~turned) =>
        \E f \in Nat : BackFrom(screen, bg_color, f) /\ RowsPassed(2 * h + 1 - clearing, f, cursor)
  BY <1>1 DEF CleanInv
<1>4. ASSUME NEW c, NEW color, Screen!Puts(c, color),
             clearing' = clearing \/ (clearing' = clearing - 1 /\ clearing > 0
                                      /\ c = IF clearing = 1 THEN "return" ELSE "newline")
      PROVE  CleanInv'
  <2>1. clearing' \in 0 .. 2 * h + 1
    BY <1>1, <1>2, <1>4
  <2>2. ASSUME clearing' > 0, ~turned'
        PROVE  \E g \in Nat : /\ BackFrom(screen', bg_color', g)
                              /\ RowsPassed(2 * h + 1 - clearing', g, cursor')
    <3>1. clearing > 0 /\ ~turned /\ c \notin {"return", "backspace"}
      BY <1>2, <1>4, <2>2 DEF Screen!Puts
    <3>2. PICK f \in Nat : BackFrom(screen, bg_color, f) /\ RowsPassed(2 * h + 1 - clearing, f, cursor)
      BY <1>3, <3>1
    <3>3. PICK n, m : /\ n = 2 * h + 1 - clearing /\ m = 2 * h + 1 - clearing'
                     /\ n \in Int /\ m \in Int
      BY <1>1, <1>2, <2>1
    <3>4. m \in {n, n + 1} /\ (m = n + 1 => c = "newline")
      BY <1>1, <1>2, <1>4, <2>2, <3>1, <3>3
    <3>5. \E g \in Nat : BackFrom(screen', bg_color', g) /\ RowsPassed(m, g, cursor')
      BY <1>2, <1>4, <3>1, <3>2, <3>3, <3>4, WritesClean
    <3> QED
      BY <3>3, <3>5
  <2> QED
    BY <1>1, <2>1, <2>2 DEF CleanInv
<1>5. ASSUME clearing' = clearing, UNCHANGED <<cursor, screen, bg_color, turned>> PROVE CleanInv'
  BY <1>5 DEF CleanInv
<1>6. ASSUME NEW fds, NEW c, Screen!Writes(fds, c) PROVE CleanInv'
  BY <1>4, <1>6 DEF Screen!Writes, Screen!sys_write
<1>7. ASSUME NEW c, Screen!change_char_color(c) PROVE CleanInv'
  BY <1>5, <1>7 DEF Screen!change_char_color
<1>8. ASSUME NEW c, Screen!change_bg_color(c) PROVE CleanInv'
  <2>1. clearing' = 2 * h + 1 /\ cursor' = cursor /\ screen' = screen
    BY <1>1, <1>8 DEF Screen!change_bg_color
  <2>2. PICK L, w \in Nat : L = Screen!CURSOR_LIMIT /\ w = COLUMNS /\ L = h * w
    BY <1>1, OneRow
  <2>3. BackFrom(screen', bg_color', 0)
    <3>1. \A p \in Screen!Position : ~(p >= L)
      BY <2>2 DEF Screen!Position
    <3>2. (ROWS - 0) * COLUMNS = L
      BY <1>1, <2>2
    <3> QED
      BY <3>1, <3>2 DEF BackFrom
  <2>4. RowsPassed(2 * h + 1 - clearing', 0, cursor')
    <3>1. 2 * h + 1 - clearing' = 0 /\ (0 - 0) * w = 0
      BY <1>1, <2>1, <2>2
    <3>2. cursor >= 0
      BY <1>2, <2>2 DEF Screen!Position
    <3> QED
      BY <2>1, <2>2, <3>1, <3>2 DEF RowsPassed
  <2>5. clearing' \in 0 .. 2 * h + 1 /\ 0 \in Nat
    BY <1>1, <2>1
  <2> QED
    BY <1>1, <2>3, <2>4, <2>5 DEF CleanInv
<1>9. ASSUME Screen!clear PROVE CleanInv'
  BY <1>4, <1>9 DEF Screen!clear
<1>10. ASSUME NEW c, Screen!fill_buffer(c) PROVE CleanInv'
  <2>1. \/ Screen!Puts(c, char_color) /\ clearing' = clearing
        \/ clearing' = clearing /\ UNCHANGED <<cursor, screen, bg_color, turned>>
    BY <1>10 DEF Screen!fill_buffer, Screen!sys_write
  <2> QED
    BY <1>4, <1>5, <2>1
<1>11. ASSUME UNCHANGED Screen!vars PROVE CleanInv'
  BY <1>5, <1>11 DEF Screen!vars
<1> QED
  BY <1>6, <1>7, <1>8, <1>9, <1>10, <1>11 DEF Screen!Next

LEMMA ScreenInvariant == ScreenHasRoom /\ Screen!Spec => []ScreenInv
<1> SUFFICES ASSUME ScreenHasRoom PROVE Screen!Spec => []ScreenInv
  OBVIOUS
<1>1. Screen!Init => ScreenInv
  <2> SUFFICES ASSUME Screen!Init PROVE ScreenInv
    OBVIOUS
  <2>1. PICK L, h \in Nat : L = Screen!CURSOR_LIMIT /\ h = ROWS /\ L > 0
    BY OneRow DEF ScreenHasRoom
  <2>2. 0 \in Screen!Position /\ 0 \in 0 .. 2 * ROWS + 1
    BY <2>1 DEF Screen!Position
  <2>3. Echoes(<<>>, screen, cursor)
    BY DEF Echoes
  <2>4. <<>> \in Seq([char : Key, color : Hue])
    BY EmptySeq
  <2> QED
    BY <2>2, <2>3, <2>4 DEF Screen!Init, ScreenInv, EchoInv, CleanInv, Hue
<1>2. ScreenInv /\ [Screen!Next]_(Screen!vars) => ScreenInv'
  BY EchoStays, CleanStays DEF ScreenInv
<1> QED
  BY <1>1, <1>2, PTL DEF Screen!Spec

(* The line before the cursor and the cleared screen.                      *)
LEMMA ScreenShows ==
    ASSUME ScreenHasRoom, ScreenInv
    PROVE  EchoIsTheLine
<1>1. PICK h, w \in Nat \ {0}, L \in Nat : h = ROWS /\ w = COLUMNS /\ L = h * w /\ L = Screen!CURSOR_LIMIT
  BY OneRow DEF ScreenHasRoom
<1>2. cursor \in Nat /\ cursor < L
  BY <1>1 DEF ScreenInv, EchoInv, Screen!Position
<1>3. ASSUME ~mixed, NEW j \in DOMAIN line, line[j].char # "tab", Screen!ShownFrom(j) <= cursor
      PROVE  LET p == cursor - Screen!ShownFrom(j)
             IN  [char |-> screen[p].char, color |-> screen[p].color] = line[j]
  <2>1. PICK k : k = Shows(line, j)
    OBVIOUS
  <2>2. Screen!ShownFrom(j) = k
    BY <2>1 DEF Screen!ShownFrom, Shows, Screen!Cardinality, Cardinality
  <2>3. screen[cursor - k].char = line[j].char /\ screen[cursor - k].color = line[j].color
    BY <1>3, <2>1, <2>2 DEF ScreenInv, EchoInv, Echoes
  <2>4. line[j] \in [char : Key, color : Hue]
    BY <1>3, ElementOfSeq, LenProperties DEF ScreenInv, EchoInv
  <2> QED
    BY <2>2, <2>3, <2>4
<1>4. ASSUME clearing = 1, ~turned, NEW p \in Screen!Position PROVE screen[p].back = bg_color
  <2>1. PICK f \in Nat : BackFrom(screen, bg_color, f) /\ RowsPassed(2 * h + 1 - 1, f, cursor)
    BY <1>1, <1>4 DEF ScreenInv, CleanInv
  <2>2. (2 * h + 1 - 1 - f) * w < h * w
    BY <1>1, <1>2, <2>1 DEF RowsPassed
  <2>3. 2 * h + 1 - 1 - f < h
    BY <2>2, RowsCompare
  <2>4. h - f <= 0 /\ h - f \in Int
    BY <2>3
  <2>5. (h - f) * w <= 0 * w /\ (h - f) * w \in Int /\ 0 * w = 0
    BY <2>4, RowsCompare
  <2>6. p >= (h - f) * w
    BY <1>1, <1>4, <2>5 DEF Screen!Position
  <2> QED
    BY <1>1, <1>4, <2>1, <2>6 DEF BackFrom
<1> QED
  BY <1>3, <1>4 DEF EchoIsTheLine, Screen!EchoIsTheLine

(* For a screen and a line of any size: what is before the cursor is the   *)
(* line as it has been edited, in the color that was asked for, unless a   *)
(* program has written in the middle of it; and clear gives the whole      *)
(* screen the background that was asked for, whatever else is written in   *)
(* the meantime, unless that turns the cursor back.                        *)
THEOREM TheScreenShowsTheLine == ScreenHasRoom /\ Screen!Spec => []EchoIsTheLine
<1> SUFFICES ASSUME ScreenHasRoom PROVE Screen!Spec => []EchoIsTheLine
  OBVIOUS
<1>1. ScreenInv => EchoIsTheLine
  BY ScreenShows
<1>2. Screen!Spec => []ScreenInv
  BY ScreenInvariant
<1> QED
  BY <1>1, <1>2, PTL
=============================================================================
