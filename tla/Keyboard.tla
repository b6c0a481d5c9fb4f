------------------------------ MODULE Keyboard ------------------------------
(***************************************************************************)
(* The key buffer of Kernel/keyboardDriver.c, filled by the interrupt and  *)
(* emptied by the sys_read of the foreground process.                      *)
(*                                                                         *)
(* sys_read runs with interrupts off until it first finds nothing; from    *)
(* then on a key may come at any point of it, between finding nothing and  *)
(* blocking as well as inside the decrement of get_char, which is a load   *)
(* and a store.  The foreground itself is in Scheduler.                    *)
(***************************************************************************)
EXTENDS Integers, Sequences

CONSTANTS
    BUFFSIZE,
    Char, NoChar,  \* the keys that are pressed, with and without a character
    MaxRead        \* bound: the bytes that a sys_read asks for

Shift == {"LSHIFT", "RSHIFT"}
CAPSLOCK == "CAPSLOCK"
Scancode == Char \cup NoChar
None == "none"

VARIABLES
    keys_buffer, ret_index, store_index, buff_size,
    shiftPressed, capsLockPressedCount, capsLockActivated,
    pc,        \* where the foreground process is in sys_read
    left,      \* the bytes it still has to read
    sti,       \* are interrupts on in this sys_read?
    loaded,    \* the buff_size that get_char is about to decrement
    ready,     \* is it not BLOCKED_READ?
    down,      \* the modifier keys that are pressed (external)
    unread,    \* history: the keys stored and not read, in order
    dropped, missed, raced  \* history: a modifier's event was dropped; a key
                            \* came before the block; a count was lost

driver == <<keys_buffer, ret_index, store_index, buff_size>>
modifiers == <<shiftPressed, capsLockPressedCount, capsLockActivated, down>>
reader == <<pc, left, sti, loaded>>
history == <<unread, dropped, missed, raced>>
vars == <<driver, modifiers, reader, ready, history>>

Init ==
    /\ keys_buffer = [i \in 0 .. BUFFSIZE - 1 |-> None]
    /\ ret_index = 0 /\ store_index = 0 /\ buff_size = 0
    /\ shiftPressed = FALSE /\ capsLockPressedCount = 0 /\ capsLockActivated = FALSE
    /\ pc = "user" /\ left = 0 /\ sti = FALSE /\ loaded = 0 /\ ready = TRUE
    /\ down = {}
    /\ unread = <<>> /\ dropped = FALSE /\ missed = FALSE /\ raced = FALSE

(* A scancode byte may come.                                               *)
Interruptible == pc = "user" \/ sti

IsFull == buff_size = BUFFSIZE

-----------------------------------------------------------------------------
(* store_scancode *)

KeyPress_IfEmpty(k) ==
    /\ Interruptible /\ ~IsFull
    /\ keys_buffer' = [keys_buffer EXCEPT ![store_index] = k]
    /\ store_index' = (store_index + 1) % BUFFSIZE
    /\ buff_size' = buff_size + 1
    /\ ready' = (ready \/ buff_size = 0)
    /\ missed' = (missed \/ pc = "window")
    /\ raced' = (raced \/ pc = "decrement")
    /\ unread' = IF raced' THEN <<>> ELSE Append(unread, k)
    /\ UNCHANGED <<modifiers, reader, ret_index, dropped>>

(* With a full buffer the key is lost and wakes nobody.                    *)
KeyPress(k) ==
    /\ Interruptible /\ ~IsFull
    /\ keys_buffer' = [keys_buffer EXCEPT ![store_index] = k]
    /\ store_index' = (store_index + 1) % BUFFSIZE
    /\ buff_size' = buff_size + 1
    /\ ready' = TRUE
    /\ missed' = (missed \/ pc = "window")
    /\ raced' = (raced \/ pc = "decrement")
    /\ unread' = IF raced' THEN <<>> ELSE Append(unread, k)
    /\ UNCHANGED <<modifiers, reader, ret_index, dropped>>

processKeyScanCode_WhenPressed(k) ==
    /\ shiftPressed' = (shiftPressed # (k \in Shift /\ k \notin down))
    /\ capsLockPressedCount' = (capsLockPressedCount + (IF k = CAPSLOCK THEN 1 ELSE 0)) % 2
    /\ capsLockActivated' = (capsLockActivated # (k = CAPSLOCK /\ capsLockPressedCount = 1))

(* The flags are turned over by presses and releases alike.                *)
processKeyScanCode(k) ==
    /\ shiftPressed' = (shiftPressed # (k \in Shift))
    /\ capsLockPressedCount' = (capsLockPressedCount + (IF k = CAPSLOCK THEN 1 ELSE 0)) % 2
    /\ capsLockActivated' = (capsLockActivated # (k = CAPSLOCK /\ capsLockPressedCount = 1))

(* A modifier goes down or up.  Keyboards that repeat a held modifier are  *)
(* left out (external).                                                    *)
ModifierEvent(k) ==
    /\ Interruptible
    /\ down' = IF k \in down THEN down \ {k} ELSE down \cup {k}
    /\ IF IsFull
       THEN /\ dropped' = TRUE
            /\ UNCHANGED <<shiftPressed, capsLockPressedCount, capsLockActivated>>
       ELSE processKeyScanCode(k) /\ UNCHANGED dropped
    /\ UNCHANGED <<driver, reader, ready, unread, missed, raced>>

-----------------------------------------------------------------------------
(* The tables, for a key of each kind: a letter, a digit, the two keys that*)
(* CAPS LOCK changes beside the letters, and one without a character.  A   *)
(* key is named by what kbdus has for it.                                  *)

kbdus(k) == IF k = "F1" THEN None ELSE k

shiftkbdus(k) ==
    CASE k = "q" -> "Q" [] k = "1" -> "!" [] k = "backquote" -> "|"
      [] k = "backslash" -> ">"
      [] OTHER -> kbdus(k)

capskbdus(k) ==
    CASE k = "q" -> "Q" [] k = "backquote" -> "backslash" [] k = "backslash" -> "<"
      [] OTHER -> kbdus(k)

isAlpha(k) == k = "q"

(* By the flags when the key is read, not when it was pressed.             *)
chooseKeyboard(k) ==
    CASE kbdus(k) = None -> None
      [] capsLockActivated /\ ~shiftPressed -> capskbdus(k)
      [] ~capsLockActivated /\ shiftPressed -> shiftkbdus(k)
      [] capsLockActivated /\ shiftPressed /\ ~isAlpha(k) -> shiftkbdus(k)
      [] OTHER -> kbdus(k)

-----------------------------------------------------------------------------
(* sys_read *)

sys_read(n) ==
    /\ pc = "user"
    /\ pc' = "loop" /\ left' = n /\ sti' = FALSE
    /\ UNCHANGED <<driver, modifiers, loaded, ready, history>>

(* get_char up to its decrement of buff_size.                              *)
get_char ==
    /\ pc = "loop" /\ left > 0 /\ buff_size > 0
    /\ pc' = "decrement" /\ loaded' = buff_size
    /\ UNCHANGED <<driver, modifiers, left, sti, ready, history>>

(* chooseKeyboard does not answer -1.                                      *)
HasChar(k) == chooseKeyboard(k) # None

get_charReturns_NoWrap ==
    /\ pc = "decrement"
    /\ buff_size' = loaded - 1
    /\ ret_index' = IF ret_index + 1 < BUFFSIZE THEN ret_index + 1 ELSE ret_index
    /\ loaded' = 0
    /\ unread' = IF raced THEN <<>> ELSE Tail(unread)
    /\ IF HasChar(keys_buffer[ret_index])
       THEN pc' = "loop" /\ left' = left - 1 /\ UNCHANGED sti
       ELSE pc' = "window" /\ sti' = TRUE /\ UNCHANGED left
    /\ UNCHANGED <<keys_buffer, store_index, modifiers, ready, dropped, missed, raced>>

(* A key without a character is taken for an empty buffer.                 *)
get_charReturns ==
    /\ pc = "decrement"
    /\ buff_size' = loaded - 1
    /\ ret_index' = (ret_index + 1) % BUFFSIZE
    /\ loaded' = 0
    /\ unread' = IF raced THEN <<>> ELSE Tail(unread)
    /\ IF HasChar(keys_buffer[ret_index])
       THEN pc' = "loop" /\ left' = left - 1 /\ UNCHANGED sti
       ELSE pc' = "window" /\ sti' = TRUE /\ UNCHANGED left
    /\ UNCHANGED <<keys_buffer, store_index, modifiers, ready, dropped, missed, raced>>

FindsNothing ==
    /\ pc = "loop" /\ left > 0 /\ buff_size = 0
    /\ pc' = "window" /\ sti' = TRUE
    /\ UNCHANGED <<driver, modifiers, left, loaded, ready, history>>

block_read_process ==
    /\ pc = "window"
    /\ pc' = "blocked" /\ ready' = FALSE
    /\ UNCHANGED <<driver, modifiers, left, sti, loaded, history>>

(* The scheduler runs it again (Scheduler, ReadyRuns).                     *)
GoesOn ==
    /\ pc = "blocked" /\ ready
    /\ pc' = "loop"
    /\ UNCHANGED <<driver, modifiers, left, sti, loaded, ready, history>>

Returns ==
    /\ pc = "loop" /\ left = 0
    /\ pc' = "user" /\ sti' = FALSE
    /\ UNCHANGED <<driver, modifiers, left, loaded, ready, history>>

Read == get_char \/ get_charReturns \/ FindsNothing \/ block_read_process \/ GoesOn \/ Returns

Next ==
    \/ \E k \in Scancode : KeyPress(k)
    \/ \E k \in Shift \cup {CAPSLOCK} : ModifierEvent(k)
    \/ \E n \in 1 .. MaxRead : sys_read(n)
    \/ Read

Fairness == WF_vars(Read)

Spec == Init /\ [][Next]_vars /\ Fairness
-----------------------------------------------------------------------------
(* Properties. *)

(* Unless a key came inside get_char's decrement, what is left to read is  *)
(* every key that was stored, once, in the order they were pressed         *)
(* (keyboardDriver.c:35-60).                                               *)
KeysInOrder ==
    ~raced =>
        /\ Len(unread) = buff_size
        /\ \A i \in 1 .. buff_size :
             unread[i] = keys_buffer[(ret_index + i - 1) % BUFFSIZE]

(* A letter is read as a capital if CAPS LOCK is on or a shift is down and *)
(* not both, a digit as its symbol if a shift is down; as long as no event *)
(* of a modifier was dropped by a full buffer, which would leave shift     *)
(* turned over from then on (keyboardDriver.c:25, 68-106).                 *)
ModifiersFollowKeys ==
    LET shifted == \E k \in Shift : down \cap Shift = {k}
    IN  ~dropped =>
            /\ (capsLockPressedCount = 1) = (CAPSLOCK \in down)
            /\ chooseKeyboard("q") = IF capsLockActivated # shifted THEN "Q" ELSE "q"
            /\ chooseKeyboard("1") = IF shifted THEN "!" ELSE "1"

(* A sys_read returns if characters go on being typed (those that a full   *)
(* buffer drops as well), also when it blocks with keys left because one   *)
(* had no character, unless a key came inside get_char or between its      *)
(* finding nothing and its block (systemCalls.c:126-135).                  *)
KeysEndARead ==
    (/\ [](~missed /\ ~raced)
     /\ []<><<\E k \in Char : KeyPress(k)>>_vars \/ <>[]IsFull)
      => (pc # "user" ~> pc = "user")
=============================================================================
