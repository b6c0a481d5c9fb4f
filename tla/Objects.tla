------------------------------- MODULE Objects -------------------------------
(***************************************************************************)
(* What processes of this kernel wait for: condition variables, fifos and  *)
(* the keyboard.  They share no state but that of the processes.           *)
(***************************************************************************)
CONSTANTS
    Proc, NULL,
    PageReuse, MAX_MUTEXES, MAX_COND_VAR,
    MAX_FIFOS, MAX_FDS, INT_BITS, BUF_SIZE, Name, Byte, MaxBytes, WriteWhenFull,
    File, MaxFiles, FileBits,  \* of the fifos that are never read or written
    BUFFSIZE, Char, NoChar, MaxRead

VARIABLES
    object,  \* what a behaviour is about
    alive, st,
    state, locked, queue, at, holds, lost, misused, cstate, process_queue, waits,
    open_fifos, open_fds, reads, want, got, holed, shut, call, halted,
    keys_buffer, ret_index, store_index, buff_size,
    shiftPressed, capsLockPressedCount, capsLockActivated, down,
    pc, left, sti, loaded, ready, unread, dropped, missed, raced

Conds == INSTANCE CondVariable

Fifos == INSTANCE Fifo

(* Fifos that are opened and closed, never read or written.                *)
Names == INSTANCE Fifo WITH
    Name <- File, MAX_FIFOS <- MaxFiles, MAX_FDS <- MaxFiles, INT_BITS <- FileBits, MaxBytes <- 0

Keys == INSTANCE Keyboard
-----------------------------------------------------------------------------
(* Properties, as their modules state them. *)

(* Who sleeps in cond_wait is in the queue of its condition, once.         *)
SleeperIsQueued == Conds!SleeperIsQueued

(* One owner for a mutex, and none that sleeps, whatever cond_wait does.   *)
MutexSurvivesWaiting == Conds!MutexSurvivesWaiting

(* Who sleeps in fifo_read is in the queue of its open fifo, once.         *)
ReaderIsQueued == Fifos!ReaderIsQueued

(* A fifo is a bounded queue of bytes whose readers are served in order.   *)
ImplementsByteQueues == Fifos!ImplementsByteQueues

(* A name leads to one fifo, unless one before an open one was closed.     *)
NameHasOneFifo == object = "name" => Names!NameHasOneFifo

(* Keys are read once, in order, unless one comes inside get_char.         *)
KeysInOrder == Keys!KeysInOrder

(* The modifier flags agree with the keys that are down.                   *)
ModifiersFollowKeys == Keys!ModifiersFollowKeys
=============================================================================
