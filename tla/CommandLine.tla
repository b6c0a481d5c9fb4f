----------------------------- MODULE CommandLine -----------------------------
(***************************************************************************)
(* From the keys to a command: the line editing of Userland/               *)
(* SampleCodeModule/stdio.c, the prompt of shell.c, and the arguments that *)
(* executer.c hands to the process of a command.                           *)
(*                                                                         *)
(* A character is what these routines tell apart: a letter, a space, a     *)
(* tab, the background mark, a backspace, or the end of the line.          *)
(***************************************************************************)
EXTENDS Integers, Sequences, SequencesExt, FiniteSetsExt, Arguments

CONSTANTS
    BUFFER_SIZE,   \* of the buffer of getchar
    MAX_CMD_SIZE,  \* of the line of the shell
    MAX_ARGS,      \* places in the table of execp
    Command,       \* the names of the table of commands
    MaxText        \* bound: the characters typed before an end of line

VARIABLES
    buffer,   \* what fill_buffer has put in, or what getchar has yet to give
    filling,  \* is fill_buffer running?
    str,      \* what readline_no_spaces has kept of the line
    text,     \* history: the line as it was edited
    cut,      \* history: a part of the line was taken for a line
    ran       \* the command that the shell has just run

vars == <<buffer, filling, str, text, cut, ran>>

Tab == "tab"
Mark == "&"
Backspace == "backspace"
Newline == "eol"
Nul == "nul"
Other == {"a", Mark}
isspace(c) == c \in {Space, Tab}

Nothing == [name |-> <<>>, args |-> <<>>, foreground |-> TRUE]

Init ==
    /\ buffer = <<>> /\ filling = TRUE
    /\ str = <<>> /\ text = <<>> /\ cut = FALSE
    /\ ran = Nothing

(* read(STDIN) gives c.  A full buffer ends a line too, and getchar then   *)
(* also gives its last place, which is never written.                      *)
fill_buffer(c) ==
    /\ filling
    /\ IF c = Backspace
       THEN /\ buffer' = IF buffer = <<>> THEN <<>> ELSE Front(buffer)
            /\ text' = IF buffer = <<>> THEN text ELSE Front(text)
            /\ UNCHANGED filling
       ELSE LET full == Len(buffer) + 1 = BUFFER_SIZE - 1
            IN  /\ buffer' = Append(buffer, c) \o (IF full /\ c # Newline THEN <<Nul>> ELSE <<>>)
                /\ filling' = ~(full \/ c = Newline)
                /\ text' = Append(text, c)
    /\ ran' = Nothing
    /\ UNCHANGED <<str, cut>>

(* What readline_no_spaces keeps of c: no space at the start or after      *)
(* another.                                                                *)
Keeps(c) ==
    IF isspace(c) /\ (str = <<>> \/ isspace(Last(str))) THEN str ELSE Append(str, c)

Trimmed_Kept(s) == s

Trimmed(s) == IF s # <<>> /\ isspace(Last(s)) THEN Front(s) ELSE s

-----------------------------------------------------------------------------
(* The shell. *)

UpTo(s, c) ==
    SubSeq(s, 1, Min({i - 1 : i \in {j \in DOMAIN s : s[j] = c}} \cup {Len(s)}))

extract_cmd_name(line) == UpTo(line, Space)

(* Of what follows the name.                                               *)
IsBackground_Anywhere(rest) == rest # <<>> /\ Last(rest) = Mark

IsBackground(rest) ==
    /\ rest # <<>> /\ Last(rest) = Mark
    /\ Len(rest) = 1 \/ rest[Len(rest) - 1] = Space

WithoutMark(rest) == SubSeq(rest, 1, Len(rest) - (IF Len(rest) = 1 THEN 1 ELSE 2))

(* The table has a place for the function, one for each string and one for *)
(* the NULL.  The strings come right after it: what does not fit is        *)
(* written over them, and which words the command then gets is not said.   *)
Fits(strings) == Len(strings) + 2 <= MAX_ARGS
Garbled == <<<<"garbled">>>>

build_arguments(arg) == IF Fits(Strings(arg)) THEN Strings(arg) ELSE Garbled

(* An unknown name runs nothing.                                           *)
execute(name, args, foreground) ==
    IF name \in Command
    THEN [name |-> name, args |-> build_arguments(args), foreground |-> foreground]
    ELSE Nothing

(* What the shell does with a line.                                        *)
shell(s) ==
    LET name == extract_cmd_name(s)
        rest == SubSeq(s, Len(name) + 1, Len(s))
        arg == IF IsBackground(rest) THEN WithoutMark(rest) ELSE rest
    IN  execute(name, SubSeq(arg, 2, Len(arg)), ~IsBackground(rest))

getchar == buffer' = Tail(buffer) /\ filling' = (Len(buffer) = 1)

(* Past the size of the line the character is lost and the line ends.      *)
readline_no_spaces ==
    /\ ~filling
    /\ getchar
    /\ LET c == Head(buffer)
           ends == c = Newline \/ Len(str) = MAX_CMD_SIZE - 1
       IN  /\ str' = IF ends THEN <<>> ELSE Keeps(c)
           /\ ran' = IF ends THEN shell(UpTo(Trimmed(str), Nul)) ELSE ran
           /\ cut' = IF c = Newline THEN FALSE ELSE (cut \/ ends \/ c = Nul)
           /\ text' = IF c = Newline THEN <<>> ELSE text

Next ==
    \/ Len(text) < MaxText /\ \E c \in Other \cup {Space, Tab, Backspace, Newline} : fill_buffer(c)
    \/ readline_no_spaces

Spec == Init /\ [][Next]_vars
-----------------------------------------------------------------------------
(* Properties. *)

(* What the shell runs at the end of a line that has come whole.           *)
GetsTheWords ==
    LET t == Front(text)
        words == Words(t)
        mark == Len(words) > 1 /\ Last(words) = <<Mark>>
        args == IF mark THEN Tail(Front(words)) ELSE Tail(words)
    IN  (~filling /\ Head(buffer) = Newline /\ ~cut
           /\ Tab \notin ToSet(t) /\ words # <<>> /\ Head(words) \in Command /\ Fits(args))
        => ran' = [name |-> Head(words), args |-> args, foreground |-> ~mark]

(* A command gets the words of the line that was typed, however it was     *)
(* spaced and edited, and "&" as the last word, after the name, runs it in *)
(* the background ("toda palabra se encuentra separada por un unico        *)
(* espacio", commands.c:210-219), unless the line has tabs, which stay     *)
(* inside words, or is too long, which makes two lines of it, or has more  *)
(* words after the name than the table of execp holds, which nothing       *)
(* counts: it holds 30, and 31 take 62 of the 255 characters of a line     *)
(* (stdio.c:100-119, shell.c:32-66, executer.c:20-37, 63-88).              *)
CommandGetsTheWords == [][GetsTheWords]_vars
=============================================================================
