----------------------------- MODULE SystemCalls -----------------------------
(***************************************************************************)
(* The way of a system call: the library (Userland/SampleCodeModule/       *)
(* syscalls.c), the registers of int80h.asm and _syscallHandler, the table *)
(* and the wrappers of Kernel/systemCalls.c, and what a file descriptor    *)
(* leads to.  What the handlers do is in the other modules.                *)
(***************************************************************************)
EXTENDS Integers, Sequences

CONSTANTS
    MAX_FIFOS,
    Word,      \* what an argument may be
    Light      \* the strength of red, green or blue, a byte

VARIABLES
    asked,     \* the last call: the function, and the arguments given to it
    handled,   \* what the kernel did for it: the function, and its arguments
    key, fd    \* the last fifo that was opened, and what the program got

vars == <<asked, handled, key, fd>>

STDOUT == 0
STDIN == 1
STDERR == 2
FILE_DESCRIPTORS == 3

Call(f, args) == [function |-> f, args |-> args]

Init ==
    /\ asked = Call("none", <<>>) /\ handled = Call("none", <<>>)
    /\ key = -1 /\ fd = STDERR

(* The number of each function, and how many arguments it passes.          *)
Library ==
    [read |-> <<3, 3>>, write |-> <<4, 3>>, time |-> <<5, 1>>, paint |-> <<6, 3>>,
     wait |-> <<7, 1>>, reserve |-> <<10, 1>>, free_reserve |-> <<11, 1>>,
     data_address |-> <<12, 0>>, set_char_color |-> <<13, 3>>, set_bg_color |-> <<14, 3>>,
     exec |-> <<15, 3>>, end |-> <<16, 0>>, yield |-> <<17, 0>>, mutex_open |-> <<18, 1>>,
     mutex_close |-> <<19, 1>>, mutex_lock |-> <<20, 1>>, mutex_unlock |-> <<21, 1>>,
     set_foreground |-> <<22, 1>>, fifo_open |-> <<23, 1>>, fifo_close |-> <<24, 1>>,
     kill |-> <<25, 1>>, pid |-> <<26, 0>>, ppid |-> <<27, 0>>,
     get_process_info |-> <<28, 2>>, cond_open |-> <<29, 1>>, cond_wait |-> <<30, 2>>,
     cond_signal |-> <<31, 1>>, cond_broadcast |-> <<32, 1>>, cond_close |-> <<33, 1>>,
     get_current_pids |-> <<34, 1>>, get_conds_info |-> <<35, 1>>,
     get_mutexes_info |-> <<36, 1>>, get_fifos_info |-> <<37, 1>>]

(* Those that share a call, and choose with its argument.                  *)
Selections ==
    [screen_Xresolution |-> <<8, 0>>, screen_Yresolution |-> <<8, 1>>,
     text_rows |-> <<9, 0>>, text_cols |-> <<9, 1>>]

sys_screen_res(selection) ==
    IF selection = 0 THEN "screen_Xresolution" ELSE "screen_Yresolution"

sys_text_space(selection) == IF selection = 0 THEN "text_rows" ELSE "text_cols"

(* The handlers from the third on, by the name of the function they serve. *)
syscalls ==
    <<"read", "write", "time", "paint", "wait", "screen_res", "text_space",
      "reserve", "free_reserve", "data_address", "set_char_color", "set_bg_color",
      "exec", "end", "yield", "mutex_open", "mutex_close", "mutex_lock",
      "mutex_unlock", "set_foreground", "fifo_open", "fifo_close", "kill", "pid",
      "ppid", "get_process_info", "cond_open", "cond_wait", "cond_signal",
      "cond_broadcast", "cond_close", "get_current_pids", "get_conds_info",
      "get_mutexes_info", "get_fifos_info">>

fifo_to_fds(k) == k + FILE_DESCRIPTORS
fds_to_fifo(fds) == fds - FILE_DESCRIPTORS

(* Where the bytes of a descriptor go, and come from.                      *)
sys_write(fds) ==
    CASE fds = STDERR -> "red"
      [] fds = STDOUT -> "screen"
      [] fds >= FILE_DESCRIPTORS -> fds_to_fifo(fds)
      [] OTHER -> "nowhere"

sys_read(fds) ==
    CASE fds = STDIN -> "keyboard"
      [] fds >= FILE_DESCRIPTORS -> fds_to_fifo(fds)
      [] OTHER -> "nowhere"

INIT == 0
SHELL == 1

(* red, green and blue, a byte each.                                       *)
Byte(n, place) == (n \div place) % 256

(* What the handlers ask of the rest of the kernel.                        *)
Handler(f, args) ==
    CASE f = "screen_res" -> Call(sys_screen_res(args[1]), <<>>)
      [] f = "text_space" -> Call(sys_text_space(args[1]), <<>>)
      [] f = "write" -> Call(f, <<sys_write(args[1]), args[2], args[3]>>)
      [] f = "read" -> Call(f, <<sys_read(args[1]), args[2], args[3]>>)
      [] f = "paint" ->
           Call(f, <<Byte(args[1], 256 * 256), Byte(args[1], 256), Byte(args[1], 1), args[2], args[3]>>)
      [] f = "fifo_close" -> Call(f, <<fds_to_fifo(args[1])>>)
      [] f = "kill" /\ args[1] \in {INIT, SHELL} -> Call("none", <<>>)
      [] OTHER -> Call(f, args)

(* A wrapper leaves out the arguments that its handler does not take.      *)
Wrapper(f, args) ==
    Handler(f, IF f \in {"screen_res", "text_space"} THEN <<args[1]>>
               ELSE SubSeq(args, 1, Library[f][2]))

syscallDispatcher(rax, rbx, rdx, rcx) ==
    IF rax >= 3 /\ rax < Len(syscalls) + 3
    THEN Wrapper(syscalls[rax - 2], <<rbx, rcx, rdx>>)
    ELSE Call("none", <<>>)

(* The registers that int 80h finds become the arguments in their order.   *)
_syscallHandler(r) == syscallDispatcher(r.rax, r.rbx, r.rdx, r.rcx)

int80h_Swapped(rdi, rsi, rdx, rcx) ==
    _syscallHandler([rax |-> rdi, rbx |-> rsi, rcx |-> rcx, rdx |-> rdx])

int80h(rdi, rsi, rdx, rcx) ==
    _syscallHandler([rax |-> rdi, rbx |-> rsi, rcx |-> rdx, rdx |-> rcx])

(* A char has a sign.                                                      *)
paint_pixel(r, g, b) ==
    LET Signed(c) == IF c > 127 THEN c - 256 ELSE c
    IN  (Signed(r) * 256 + Signed(g)) * 256 + Signed(b)

Or0(args, i) == IF i <= Len(args) THEN args[i] ELSE 0

Calls(f, number, args) ==
    /\ handled' = int80h(number, Or0(args, 1), Or0(args, 2), Or0(args, 3))
    /\ UNCHANGED <<key, fd>>

LibraryCall(f, args) ==
    /\ Len(args) = Library[f][2]
    /\ f \notin {"read", "write", "paint", "fifo_close", "fifo_open"}
    /\ asked' = Call(f, args)
    /\ Calls(f, Library[f][1], args)

Paints(r, g, b, x, y) ==
    /\ asked' = Call("paint", <<r, g, b, x, y>>)
    /\ Calls("paint", Library["paint"][1], <<paint_pixel(r, g, b), x, y>>)

Selects(f) ==
    /\ asked' = Call(f, <<>>)
    /\ Calls(f, Selections[f][1], <<Selections[f][2]>>)

(* With what fifo_open has returned, or one of the first descriptors.      *)
UsesDescriptor(f, d, args) ==
    /\ asked' = Call(f, <<d>> \o args)
    /\ Calls(f, Library[f][1], <<d>> \o args)

(* The kernel opens fifo k, or fails with -1 (see Fifo).                   *)
OpensFifo(name, k) ==
    /\ asked' = Call("fifo_open", <<name>>)
    /\ handled' = int80h(Library["fifo_open"][1], name, 0, 0)
    /\ key' = k /\ fd' = fifo_to_fds(k)

Next ==
    \/ \E f \in DOMAIN Library : \E n \in 0 .. 3 : \E args \in [1 .. n -> Word] : LibraryCall(f, args)
    \/ \E f \in DOMAIN Selections : Selects(f)
    \/ \E r, g, b \in Light, x, y \in Word : Paints(r, g, b, x, y)
    \/ \E d \in {fd, STDOUT, STDIN, STDERR}, a, b \in Word :
         \/ UsesDescriptor("read", d, <<a, b>>)
         \/ UsesDescriptor("write", d, <<a, b>>)
    \/ UsesDescriptor("fifo_close", fd, <<>>)
    \/ \E name \in Word, k \in -1 .. MAX_FIFOS - 1 : OpensFifo(name, k)

Spec == Init /\ [][Next]_vars
-----------------------------------------------------------------------------
(* Properties. *)

(* What leads to the right place, for the descriptor d.                    *)
Meant(f, d) ==
    CASE d = fd /\ key >= 0 -> key
      [] f = "read" /\ d = STDIN -> "keyboard"
      [] f = "write" /\ d = STDOUT -> "screen"
      [] f = "write" /\ d = STDERR -> "red"
      [] OTHER -> "nowhere"

(* Each function of the library gets its own handler, with its arguments   *)
(* in the order they were given; a descriptor that fifo_open gave leads to *)
(* the fifo it opened, a pixel gets its color unless a green or blue above *)
(* 127 takes one from what is on its left, and init and the shell are not  *)
(* killed (syscalls.c:9-167, int80h.asm:5-28, paint.c:4-19,                *)
(* systemCalls.c:62-115, 181-187, 194-214, 293-302, 359-485).              *)
CallsReachTheirHandlers ==
    LET f == asked.function
        bleeds == f = "paint" /\ (asked.args[2] > 127 \/ asked.args[3] > 127)
        refused == f = "kill" /\ asked.args[1] \in {0, 1}
    IN  /\ handled.function = IF refused THEN "none" ELSE f
        /\ IF refused \/ bleeds THEN TRUE
           ELSE IF f \in {"read", "write"}
           THEN handled.args = <<Meant(f, asked.args[1])>> \o Tail(asked.args)
           ELSE IF f = "fifo_close"
           THEN key >= 0 => handled.args = <<key>>
           ELSE handled.args = asked.args
=============================================================================
