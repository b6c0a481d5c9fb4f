------------------------------ MODULE Services ------------------------------
(***************************************************************************)
(* The services of the kernel, and the part of the libraries that reaches  *)
(* them, whose properties are proved for instances of any size.  They      *)
(* share no state.                                                         *)
(***************************************************************************)
EXTENDS Integers

CONSTANTS
    TableSize, MAX_COND_VAR, MAX_MUTEXES, MAX_FIFOS,
    HOURS, MINUTES, SECONDS,
    West, East, Home,   \* -MIN_GMT, MAX_GMT and -DEFAULT_GMT
    Word, Light,
    COLUMNS, ROWS, LINE_SIZE, Char, Color

VARIABLES
    process_table, n_processes, left, ps, shown, stayed, seen,
    objects, kinds, ipcs, lines, kept, met,
    clock, GMT, part, hh, mm, ss, offset, passed,
    asked, handled, key, fd,
    cursor, screen, char_color, bg_color, line, clearing, chosen, mixed, turned

Ps == INSTANCE ProcessList WITH MAX_PROCESSES <- TableSize
Ipcs == INSTANCE ObjectList WITH left <- kinds, shown <- lines, stayed <- kept, seen <- met
Time == INSTANCE Clock WITH
    MIN_GMT <- -West, MAX_GMT <- East, DEFAULT_GMT <- -Home, Typed <- -West - 1 .. East + 1,
    step <- part, h <- hh, m <- mm, s <- ss
Sys == INSTANCE SystemCalls
Screen == INSTANCE Console WITH WIDTH <- COLUMNS, HEIGHT <- ROWS, BUFFER_SIZE <- LINE_SIZE

(* ps and ipcs: they show what was there all along.                        *)
ListsShowWhatStays == Ps!PsShowsWhoStays /\ Ipcs!IpcsShowsWhatStays

(* Clock: the time that is shown is not ahead.                             *)
TimeShownIsNotAhead == Time!TimeShownIsNotAhead

(* System calls: each reaches its handler with its arguments.              *)
CallsReachTheirHandlers == Sys!CallsReachTheirHandlers

(* Screen: the line as edited, on the background that was asked for.       *)
EchoIsTheLine == Screen!EchoIsTheLine
=============================================================================
