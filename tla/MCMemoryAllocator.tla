------------------------- MODULE MCMemoryAllocator -------------------------
(***************************************************************************)
(* Small instances of MemoryAllocator for TLC.                             *)
(***************************************************************************)
EXTENDS MemoryAllocator, TLC

(* Processes are interchangeable.                                          *)
Processes == Permutations(Proc)
=============================================================================
