----------------------------- MODULE MCPrograms -----------------------------
(***************************************************************************)
(* Small instances of the programs of user land, and of the services that  *)
(* each of them uses.  They share no state, so a behaviour is about one of *)
(* them, chosen at the start.                                              *)
(***************************************************************************)
EXTENDS Programs, Services, Loader, Sequences

VARIABLES
    program,  \* what the behaviour is about
    buffer_size, index, waiters, paused,
    format, args, numeral, got, stage

philvars == <<philosopherCount, philo, listener, toAdd, toRemove, pause, surprised>>
prodvars == <<buf_size, empty, full, prod, cons, overrun>>
prod2vars == <<buffer_size, index, waiters, paused>>
shellvars == <<buffer, filling, str, text, cut, ran>>
execvars == <<free, mem, caller, child>>
consvars == <<cursor, screen, char_color, bg_color, line, clearing, chosen, mixed, turned>>
imagevars == <<files, image, memory, booting, file, written, moduleCount, loaded, module, moduleSize>>
callvars == <<asked, handled, key, fd>>
numvars == <<format, args, numeral, got, stage>>
psvars == <<process_table, n_processes, left, ps, shown, stayed, seen>>
ipcvars == <<objects, kinds, ipcs, lines, kept, met>>
clockvars == <<clock, GMT, part, hh, mm, ss, offset, passed>>
cpuvars == <<current, cpu, stack, rsp, registers, xmm, floats>>
fgvars == <<foreground, ppid, marked, runs, started, orphans>>

vars == <<program, philvars, prodvars, prod2vars, shellvars, execvars,
          consvars, imagevars, callvars, numvars, psvars, ipcvars, clockvars,
          cpuvars, fgvars>>

Program == {"phylo", "prodcon", "prodcon2", "shell", "execp", "console",
            "image", "syscalls", "printf", "ps", "ipcs", "time", "switch",
            "fg"}

(* The names of two commands.                                              *)
Names == {<<"a">>, <<"a", "a">>}

Prod2 == INSTANCE ProducerConsumer2 WITH MaxSize <- 3
Num == INSTANCE Numerals WITH
    WIDTH <- 6, MaxText <- 4, Typed <- {32, 43, 45, 48, 50, 57}, text <- numeral, step <- stage,
    Format <- {<<37, 100>>, <<37, 98>>, <<37, 120>>, <<37, 100, 58, 37, 100>>,
               <<97, 37, 37, 37, 100>>, <<37, 99, 37, 100, 37, 122>>, <<37, 100, 32, 37, 115>>}

(* A program that the behaviour is not about starts in one way only.       *)
Init ==
    /\ program \in Program
    /\ Phil!Init /\ (program # "phylo" => toAdd = 1)
    /\ Prod!Init /\ Prod2!Init
    /\ Shell!Init /\ Screen!Init /\ Sys!Init /\ Ps!Init
    /\ Ipcs!Init /\ Switch!Init /\ Fg!Init
    /\ Exec!Init /\ (program # "execp" => mem[1] = CHOOSE f \in Command : TRUE)
    /\ Packed!Init /\ (program # "image" => files = <<[b \in 1 .. endOfKernelBinary |-> CHOOSE c \in Cell : TRUE]>>)
    /\ Num!Init /\ (program # "printf" => stage = "print" /\ format = <<37, 98>> /\ args = <<0>>)
    /\ Time!Init /\ (program # "time" => clock = 0)

Next ==
    /\ UNCHANGED program
    /\ IF program = "phylo" THEN Phil!Next ELSE UNCHANGED philvars
    /\ IF program = "prodcon" THEN Prod!Next ELSE UNCHANGED prodvars
    /\ IF program = "prodcon2" THEN Prod2!Next ELSE UNCHANGED prod2vars
    /\ IF program = "shell" THEN Shell!Next ELSE UNCHANGED shellvars
    /\ IF program = "execp" THEN Exec!Next ELSE UNCHANGED execvars
    /\ IF program = "console" THEN Screen!Next ELSE UNCHANGED consvars
    /\ IF program = "image" THEN Packed!Next ELSE UNCHANGED imagevars
    /\ IF program = "syscalls" THEN Sys!Next ELSE UNCHANGED callvars
    /\ IF program = "printf" THEN Num!Next ELSE UNCHANGED numvars
    /\ IF program = "ps" THEN Ps!Next ELSE UNCHANGED psvars
    /\ IF program = "ipcs" THEN Ipcs!Next ELSE UNCHANGED ipcvars
    /\ IF program = "time" THEN Time!Next ELSE UNCHANGED clockvars
    /\ IF program = "switch" THEN Switch!Next ELSE UNCHANGED cpuvars
    /\ IF program = "fg" THEN Fg!Next ELSE UNCHANGED fgvars

Spec == Init /\ [][Next]_vars /\ Phil!Fairness /\ Prod2!Fairness
-----------------------------------------------------------------------------
(* Properties, as their modules state them. *)

(* Philosophers: nothing but a neighbour that eats holds up who was marked.*)
MarkedLeavesUnsurprised == Phil!MarkedLeavesUnsurprised

(* Producer and consumer, with a condition: neither sleeps for ever.       *)
NobodyIsLeftWaiting == Prod2!NobodyIsLeftWaiting

(* Numbers: a number is the one that its text says.                        *)
NumbersAreWhatTheySay == Num!NumbersAreWhatTheySay
=============================================================================
