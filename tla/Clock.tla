------------------------------- MODULE Clock -------------------------------
(***************************************************************************)
(* The time that the commands time and gmt show (Userland/SampleCodeModule *)
(* /commands.c, time.c): three system calls (Kernel/systemCalls.c,         *)
(* asm/rtc.asm), between which the clock goes on and other processes run.  *)
(***************************************************************************)
EXTENDS Integers

CONSTANTS
    HOURS, MINUTES, SECONDS,         \* of a day, an hour and a minute
    MIN_GMT, MAX_GMT, DEFAULT_GMT,
    Typed                            \* the numbers that are typed

VARIABLES
    clock,   \* the seconds of the day, in the clock's own time
    GMT,     \* of all the processes: user land has one copy of its variables
    step,    \* "idle", "set" (the offset), or what was read last: "hour",
             \* "minutes" or "seconds"
    h, m, s, \* what was read
    offset,  \* history: the GMT that the hour was read with
    passed   \* history: the seconds since the hour was read

vars == <<clock, GMT, step, h, m, s, offset, passed>>

Hour == MINUTES * SECONDS
Day == HOURS * Hour

Init ==
    /\ clock \in 0 .. Day - 1 /\ GMT = DEFAULT_GMT
    /\ step = "idle" /\ h = 0 /\ m = 0 /\ s = 0
    /\ offset = DEFAULT_GMT /\ passed = 0

(* Bound: less than a minute goes by while the time is read.               *)
Passes ==
    /\ step # "seconds" /\ passed < SECONDS - 1
    /\ clock' = (clock + 1) % Day
    /\ passed' = IF step \in {"idle", "set"} THEN 0 ELSE passed + 1
    /\ UNCHANGED <<GMT, step, h, m, s, offset>>

(* The register that the processor asks the clock for.                     *)
extract(register) ==
    CASE register = 0 -> clock % SECONDS
      [] register = 2 -> (clock \div SECONDS) % MINUTES
      [] register = 4 -> clock \div Hour

sys_time(selection) == extract(2 * selection)

hour_OneWay ==
    LET local == sys_time(2) + GMT
    IN  IF local < 0 THEN local + HOURS ELSE local

hour ==
    LET local == sys_time(2) + GMT
    IN  IF local \in 0 .. HOURS - 1 THEN local
        ELSE IF local < 0 THEN local + HOURS ELSE local - HOURS

(* What is not an offset is refused; otherwise whoever sets it reads the   *)
(* time too, unless that is another process, which may come at any time.   *)
set_GMT(gmt) ==
    /\ gmt \in MIN_GMT .. MAX_GMT
    /\ GMT' = gmt
    /\ step' = IF step = "idle" THEN "set" ELSE step
    /\ UNCHANGED <<clock, h, m, s, offset, passed>>

getTime ==
    /\ step \in {"idle", "set"} /\ step' = "hour"
    /\ h' = hour /\ offset' = GMT /\ passed' = 0
    /\ UNCHANGED <<clock, GMT, m, s>>

minutes ==
    /\ step = "hour" /\ step' = "minutes"
    /\ m' = sys_time(1)
    /\ UNCHANGED <<clock, GMT, h, s, offset, passed>>

seconds ==
    /\ step = "minutes" /\ step' = "seconds"
    /\ s' = sys_time(0)
    /\ UNCHANGED <<clock, GMT, h, m, offset, passed>>

Prints ==
    /\ step = "seconds" /\ step' = "idle"
    /\ h' = 0 /\ m' = 0 /\ s' = 0 /\ offset' = DEFAULT_GMT /\ passed' = 0
    /\ UNCHANGED <<clock, GMT>>

Next ==
    \/ Passes \/ getTime \/ minutes \/ seconds \/ Prints
    \/ \E gmt \in Typed : set_GMT(gmt)

Spec == Init /\ [][Next]_vars
-----------------------------------------------------------------------------
(* Properties. *)

(* The time that is shown is a time of the day, and the one that it is at  *)
(* the offset that was set when it began to be read, even if another       *)
(* process sets another one meanwhile; or, when an hour or a minute ended  *)
(* while it was being read, just that hour or minute late: it never runs   *)
(* ahead, and never mixes a new hour or offset with an old one             *)
(* (commands.c:264-300, time.c:37-42, rtc.asm:7-58).                       *)
TimeShownIsNotAhead ==
    step = "seconds" =>
      LET now == (clock + offset * Hour) % Day
          late == (now - (h * Hour + m * SECONDS + s)) % Day
      IN  /\ h \in 0 .. HOURS - 1
          /\ \/ late = 0
             \/ late = SECONDS /\ clock % SECONDS < passed
             \/ late = Hour /\ clock % Hour < passed
=============================================================================
