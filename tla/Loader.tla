------------------------------- MODULE Loader -------------------------------
(***************************************************************************)
(* The packed image, in a state where nothing else is: what its property   *)
(* is proved about, for binaries of any size and content.                  *)
(***************************************************************************)
EXTENDS Integers, Sequences

CONSTANTS
    BLOCK,     \* BUFFER_SIZE of the packer
    endOfKernelBinary, bss, endOfKernel,
    sampleCodeModuleAddress, sampleDataModuleAddress, MaxSize, Cell

VARIABLES
    files, image, memory, booting, file, written, moduleCount, loaded, module, moduleSize

Packed == INSTANCE Image WITH
    BUFFER_SIZE <- BLOCK, mem <- memory, step <- booting, position <- written

(* Image: the binaries are where they belong when main begins.             *)
ModulesAreLoaded == Packed!ModulesAreLoaded
=============================================================================
