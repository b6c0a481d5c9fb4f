------------------------------ MODULE Programs ------------------------------
(***************************************************************************)
(* The programs of user land, and the switch between processes, whose      *)
(* properties are proved for instances of any size.  They share no state.  *)
(***************************************************************************)
EXTENDS Integers

CONSTANTS
    BUF_SIZE, ITEM, MaxSlots,
    MAX_PHILOSOPHERS,
    MAX_PROCESSES,
    Command, MaxChild, NPages,
    Process,
    LINE_BUFFER,   \* BUFFER_SIZE of getchar
    MAX_CMD_SIZE, MAX_ARGS, CommandName, MaxTyped

VARIABLES
    buf_size, empty, full, prod, cons, overrun,
    philosopherCount, philo, listener, toAdd, toRemove, pause, surprised,
    foreground, ppid, marked, runs, started, orphans,
    free, mem, caller, child,
    current, cpu, stack, rsp, registers, xmm, floats,
    buffer, filling, str, text, cut, ran

Prod == INSTANCE ProducerConsumer
Phil == INSTANCE Philosophers
Fg == INSTANCE Foreground
Exec == INSTANCE Executer
Switch == INSTANCE ContextSwitch WITH left <- registers
Shell == INSTANCE CommandLine WITH
    BUFFER_SIZE <- LINE_BUFFER, MaxText <- MaxTyped, Command <- CommandName

(* Producer and consumer: slots and items add up.                          *)
SlotsAreConserved == Prod!SlotsAreConserved

(* Philosophers: neighbours never eat together.                            *)
NeighboursEatApart == Phil!NeighboursEatApart

(* Philosophers: who is hungry waits for a neighbour that eats.            *)
HungryHasAReason == Phil!HungryHasAReason

(* Foreground: the keyboard comes back to the shell.                       *)
KeyboardComesBack == Fg!KeyboardComesBack

(* Executer: the process runs what was asked.                              *)
CommandRunsWhatWasAsked == Exec!CommandRunsWhatWasAsked

(* Context switch: a process finds in the registers of its frame what it   *)
(* left there.                                                             *)
RegistersSurvive == Switch!RegistersSurvive

(* Shell: a command gets the words that were typed, if its table holds     *)
(* them.                                                                   *)
CommandGetsTheWords == Shell!CommandGetsTheWords
=============================================================================
