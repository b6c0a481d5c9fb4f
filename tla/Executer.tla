------------------------------ MODULE Executer ------------------------------
(***************************************************************************)
(* How a command is handed to its process: execp and executer of Userland/ *)
(* SampleCodeModule/executer.c, with the pages of malloc.                  *)
(*                                                                         *)
(* The caller writes the function and the arguments in a page and frees it *)
(* when it is back from one yield.  The process copies the page, but the   *)
(* pointers of the copied argv still lead into the caller's page.          *)
(***************************************************************************)
EXTENDS Integers, Sequences, SequencesExt

CONSTANTS
    Command,    \* a function with its arguments
    MaxChild,   \* bound: the processes of commands at a time
    NPages      \* bound: the pages that malloc has

VARIABLES
    free,       \* the stack of free pages
    mem,        \* the command that is written in each page
    caller,     \* in the yield of execp: the page that it frees when it is
                \* back (0 when there is none), and the process it started
    child       \* of each process: its place, its two pages, what was
                \* asked and what it has copied, and whether the page was
                \* freed before it was copied

vars == <<free, mem, caller, child>>

Page == 1 .. NPages
Child == 1 .. MaxChild
None == [pc |-> "none", params |-> 0, memory |-> 0, late |-> FALSE]

Init ==
    /\ free = [i \in Page |-> i]
    /\ mem \in [Page -> Command] /\ \A i, j \in Page : mem[i] = mem[j]
    /\ caller = [page |-> 0, child |-> 1]
    /\ child = [c \in Child |-> None]

(* Up to the yield.                                                        *)
execp(c, f) ==
    /\ caller.page = 0 /\ child[c].pc = "none" /\ free # <<>>
    /\ free' = Front(free)
    /\ mem' = [mem EXCEPT ![Last(free)] = f]
    /\ child' = [child EXCEPT ![c] =
         [pc |-> "starts", params |-> Last(free), memory |-> 0, late |-> FALSE,
          asked |-> f, copied |-> f]]
    /\ caller' = [page |-> Last(free), child |-> c]

(* The process has normally had its first turn, but nothing makes that     *)
(* last until the copy.                                                    *)
YieldReturns ==
    /\ caller.page # 0
    /\ free' = Append(free, caller.page)
    /\ child' = [child EXCEPT ![caller.child].late = child[caller.child].pc \in {"starts", "copies"}]
    /\ caller' = [caller EXCEPT !.page = 0]
    /\ UNCHANGED mem

executer_malloc(c) ==
    /\ child[c].pc = "starts" /\ free # <<>>
    /\ free' = Front(free)
    /\ child' = [child EXCEPT ![c].pc = "copies", ![c].memory = Last(free)]
    /\ UNCHANGED <<mem, caller>>

executer_memcpy(c) ==
    /\ child[c].pc = "copies"
    /\ mem' = [mem EXCEPT ![child[c].memory] = mem[child[c].params]]
    /\ child' = [child EXCEPT ![c].pc = "runs", ![c].copied = mem[child[c].params]]
    /\ UNCHANGED <<free, caller>>

end_FreesParams(c) ==
    /\ child[c].pc # "none"
    /\ free' = Append(free, child[c].params)
    /\ child' = [child EXCEPT ![c] = None]
    /\ UNCHANGED <<mem, caller>>

(* free(memory) and end; or kill, after which the page comes back too.     *)
end(c) ==
    /\ child[c].pc # "none"
    /\ free' = IF child[c].memory = 0 THEN free ELSE Append(free, child[c].memory)
    /\ child' = [child EXCEPT ![c] = None]
    /\ UNCHANGED <<mem, caller>>

Next ==
    \/ \E c \in Child, f \in Command : execp(c, f)
    \/ YieldReturns
    \/ \E c \in Child :
         executer_malloc(c) \/ executer_memcpy(c) \/ end(c)

Spec == Init /\ [][Next]_vars
-----------------------------------------------------------------------------
(* Properties. *)

(* A process calls the function that was asked of it, unless it came to    *)
(* its copy after the caller's yield; and the arguments it finds are those *)
(* that were asked as long as the caller has not come back, after which    *)
(* they are in a page that is free (executer.c:20-61).                     *)
CommandRunsWhatWasAsked ==
    \A c \in Child : child[c].pc = "runs" =>
        /\ child[c].late \/ child[c].copied = child[c].asked
        /\ caller = [page |-> child[c].params, child |-> c] => mem[caller.page] = child[c].asked
=============================================================================
