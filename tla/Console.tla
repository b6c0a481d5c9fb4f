------------------------------- MODULE Console -------------------------------
(***************************************************************************)
(* The text screen of Kernel/videoDriver.c, what sys_write puts on it, and *)
(* the echo of the line that is typed (fill_buffer of Userland/            *)
(* SampleCodeModule/stdio.c), and the commands that change its colors      *)
(* (commands.c).                                                           *)
(*                                                                         *)
(* A cell has a character, its color and the one behind it, in place of    *)
(* the pixels of its drawing.                                              *)
(***************************************************************************)
EXTENDS Integers, Sequences, FiniteSets, SequencesExt

CONSTANTS
    WIDTH, HEIGHT,
    BUFFER_SIZE,   \* of the line that fill_buffer keeps
    Char,          \* what has a drawing, the blank included
    Color          \* what a command may ask for

VARIABLES
    cursor, screen, char_color, bg_color,
    line,     \* the buffer of fill_buffer
    clearing, \* what clear has still to write, the return included
    chosen,   \* history: the last color that a program has asked for
    mixed,    \* history: a program has written since the line was begun
    turned    \* history: the cursor was moved back since clear began

vars == <<cursor, screen, char_color, bg_color, line, clearing, chosen, mixed, turned>>

CURSOR_LIMIT == WIDTH * HEIGHT
Position == 0 .. CURSOR_LIMIT - 1

(* A blank shows no color.                                                 *)
Ink(c, color) == IF c = " " THEN "any" ELSE color

(* print_char_line: the letter in its color, the rest in the background's. *)
Drawn(c, color) == [char |-> c, color |-> Ink(c, color), back |-> bg_color]

Blank == Drawn(" ", char_color)
Controls == {"newline", "return", "tab"}

Init ==
    /\ cursor = 0 /\ char_color = "white" /\ bg_color = "black"
    /\ screen = [p \in Position |-> Blank]
    /\ line = <<>> /\ clearing = 0
    /\ chosen = "white" /\ mixed = FALSE /\ turned = FALSE

(* Nothing is printed outside of the screen.                               *)
print_char(scr, cell, p) == [q \in Position |-> IF q = p THEN cell ELSE scr[q]]

scroll(scr) ==
    [p \in Position |-> IF p + WIDTH < CURSOR_LIMIT THEN scr[p + WIDTH] ELSE Blank]

(* The end of put_char: the cursor goes back into the screen.              *)
Settled(scr, p) ==
    CASE p < 0 -> <<scr, 0>>
      [] p >= CURSOR_LIMIT -> <<scroll(scr), CURSOR_LIMIT - WIDTH>>
      [] OTHER -> <<scr, p>>

(* The screen and the cursor after c.                                      *)
put_char(c, color) ==
    CASE c = "backspace" -> Settled(print_char(screen, Blank, cursor - 1), cursor - 1)
      [] c = "newline" -> Settled(screen, (cursor \div WIDTH + 1) * WIDTH)
      [] c = "return" -> <<screen, 0>>
      [] c = "tab" -> <<screen, cursor>>
      [] OTHER -> Settled(print_char(screen, Drawn(c, color), cursor), cursor + 1)

Puts(c, color) ==
    /\ screen' = put_char(c, color)[1]
    /\ cursor' = put_char(c, color)[2]
    /\ turned' = (clearing > 0 /\ (turned \/ c \in {"return", "backspace"}))
    /\ UNCHANGED bg_color

sys_write_KeepsRed(fds, c) ==
    /\ Puts(c, IF fds = "stderr" THEN "red" ELSE char_color)
    /\ char_color' = IF fds = "stderr" THEN "red" ELSE char_color

(* The color is set to red and back around what goes to stderr.            *)
sys_write(fds, c) ==
    /\ Puts(c, IF fds = "stderr" THEN "red" ELSE char_color)
    /\ UNCHANGED char_color

-----------------------------------------------------------------------------
(* A program. *)

Writes(fds, c) ==
    /\ sys_write(fds, c)
    /\ mixed' = (mixed \/ line # <<>>)
    /\ UNCHANGED <<line, clearing, chosen>>

(* Three numbers that are no color change nothing.                         *)
set_color(color, c) == IF c = "none" THEN color ELSE c

change_char_color(c) ==
    /\ char_color' = set_color(char_color, c)
    /\ chosen' = IF c = "none" THEN chosen ELSE c
    /\ UNCHANGED <<cursor, screen, bg_color, line, clearing, mixed, turned>>

(* The screen is cleared too.                                              *)
change_bg_color(c) ==
    /\ clearing = 0
    /\ bg_color' = c
    /\ clearing' = 2 * HEIGHT + 1 /\ turned' = FALSE
    /\ UNCHANGED <<cursor, screen, char_color, line, chosen, mixed>>

(* A character at a time: ends of line that scroll everything out, and a   *)
(* return to the first place.                                              *)
clear_OneScreen ==
    /\ clearing > 0 /\ clearing' = IF clearing > HEIGHT THEN HEIGHT - 1 ELSE clearing - 1
    /\ Puts(IF clearing = 1 THEN "return" ELSE "newline", char_color)
    /\ mixed' = (mixed \/ line # <<>>)
    /\ UNCHANGED <<char_color, line, chosen>>

clear ==
    /\ clearing > 0 /\ clearing' = clearing - 1
    /\ Puts(IF clearing = 1 THEN "return" ELSE "newline", char_color)
    /\ mixed' = (mixed \/ line # <<>>)
    /\ UNCHANGED <<char_color, line, chosen>>

-----------------------------------------------------------------------------
(* The reader of a line. *)

Begins(l) == line' = l /\ mixed' = (mixed /\ l # <<>>)

(* A backspace takes the last character away, and a tab, which shows       *)
(* nothing, only from the buffer.                                          *)
fill_buffer(c) ==
    /\ IF c # "backspace"
       THEN LET l == Append(line, [char |-> c, color |-> Ink(c, chosen)])
            IN  /\ sys_write("stdout", c)
                /\ Begins(IF c = "newline" \/ Len(l) = BUFFER_SIZE - 1 THEN <<>> ELSE l)
       ELSE IF line = <<>> THEN UNCHANGED <<cursor, screen, char_color, bg_color, line, mixed, turned>>
       ELSE /\ Begins(Front(line))
            /\ IF Last(line).char = "tab"
               THEN UNCHANGED <<cursor, screen, char_color, bg_color, turned>>
               ELSE sys_write("stdout", c)
    /\ UNCHANGED <<clearing, chosen>>

Next ==
    \/ \E c \in Char \cup Controls : Writes("stdout", c)
    \/ \E c \in Char : Writes("stderr", c)
    \/ \E c \in Color \cup {"none"} : change_char_color(c)
    \/ \E c \in Color : change_bg_color(c)
    \/ clear
    \/ \E c \in Char \cup {"newline", "tab", "backspace"} : fill_buffer(c)

Spec == Init /\ [][Next]_vars
-----------------------------------------------------------------------------
(* Properties. *)

(* How many characters of the line the screen shows, from the j-th on.     *)
ShownFrom(j) == Cardinality({k \in j .. Len(line) : line[k].char # "tab"})

(* What is before the cursor is the line as it has been edited, in the     *)
(* color that was asked for, through wraps, scrolls, tabs and backspaces,  *)
(* unless a program has written in the middle of it.  And the whole screen *)
(* gets the background that bg_color was given, whatever else is written   *)
(* while it is cleared, unless that moves the cursor back (stdio.c:211-229,*)
(* videoDriver.c:102-118, 194-216, systemCalls.c:147-152,                  *)
(* commands.c:310-316, 374-393).                                           *)
EchoIsTheLine ==
    LET At(p) == [char |-> screen[p].char, color |-> screen[p].color]
    IN  /\ ~mixed => \A j \in DOMAIN line :
                       line[j].char # "tab" /\ ShownFrom(j) <= cursor
                         => At(cursor - ShownFrom(j)) = line[j]
        /\ (clearing = 1 /\ ~turned) => \A p \in Position : screen[p].back = bg_color
=============================================================================
