-------------------------------- MODULE Image --------------------------------
(***************************************************************************)
(* How the binaries of user land reach their addresses: the packer         *)
(* (Toolchain/ModulePacker/main.c) appends them to the kernel's, and the   *)
(* kernel, which the boot loader has put in memory, copies them from its   *)
(* own tail (Kernel/moduleLoader.c, initializeKernelBinary of kernel.c).   *)
(*                                                                         *)
(* A cell stands for a byte of a binary, or for the four of a number.  The *)
(* kernel is at address 0.                                                 *)
(***************************************************************************)
EXTENDS Integers, Sequences

CONSTANTS
    BUFFER_SIZE,    \* the block of the packer
    endOfKernelBinary, bss, endOfKernel,                \* of kernel.ld
    sampleCodeModuleAddress, sampleDataModuleAddress,
    MaxSize,        \* bound: the largest binary of user land
    Cell

VARIABLES
    files,       \* the binaries, the kernel first
    image,       \* what the packer has written
    mem,
    step,        \* what is next: "write" or "next" (the packer), "boot", or
                 \* "start", "load", "copy" or "main" (the kernel)
    file,        \* the file that the packer is at
    position,    \* how much of the file it has written, or memcpy has copied
    moduleCount,
    loaded,      \* the modules that have been copied
    module,      \* where the loader is in the image
    moduleSize

vars == <<files, image, mem, step, file, position, moduleCount, loaded, module, moduleSize>>

moduleAddresses == <<sampleCodeModuleAddress, sampleDataModuleAddress>>
Address == 0 .. sampleDataModuleAddress + MaxSize

Binary(size) == [1 .. size -> Cell]
Modules ==
    UNION {[1 .. n -> UNION {Binary(size) : size \in 0 .. MaxSize}] : n \in 0 .. Len(moduleAddresses)}

Init ==
    /\ \E kernel \in Binary(endOfKernelBinary), modules \in Modules : files = <<kernel>> \o modules
    /\ image = <<>> /\ mem = [a \in Address |-> 0]
    /\ step = "write" /\ file = 1 /\ position = 0
    /\ moduleCount = 0 /\ loaded = 0 /\ module = 0 /\ moduleSize = 0

-----------------------------------------------------------------------------
(* The packer. *)

(* A turn of the loop: the last block is the first that is not full.       *)
write_file ==
    /\ step = "write"
    /\ LET rest == Len(files[file]) - position
           read == IF rest < BUFFER_SIZE THEN rest ELSE BUFFER_SIZE
       IN  /\ image' = image \o SubSeq(files[file], position + 1, position + read)
           /\ position' = position + read
           /\ step' = IF read < BUFFER_SIZE THEN "next" ELSE "write"
    /\ UNCHANGED <<files, mem, file, moduleCount, loaded, module, moduleSize>>

write_size(f) == <<Len(f)>>

(* After the kernel, the count; before each of the others, its size.       *)
buildImage ==
    /\ step = "next"
    /\ LET extraBinaries == IF file = 1 THEN <<Len(files) - 1>> ELSE <<>>
           size == IF file < Len(files) THEN write_size(files[file + 1]) ELSE <<>>
       IN  image' = image \o (extraBinaries \o size)
    /\ step' = IF file < Len(files) THEN "write" ELSE "boot"
    /\ file' = file + 1 /\ position' = 0
    /\ UNCHANGED <<files, mem, moduleCount, loaded, module, moduleSize>>

-----------------------------------------------------------------------------
(* The kernel. *)

(* External: the boot loader reads the image to the kernel's address.      *)
Boot ==
    /\ step = "boot"
    /\ mem' = [a \in Address |-> IF a < Len(image) THEN image[a + 1] ELSE 0]
    /\ step' = "start"
    /\ UNCHANGED <<files, image, file, position, moduleCount, loaded, module, moduleSize>>

(* The count is just before the first module.                              *)
loadModules ==
    /\ step = "start"
    /\ moduleCount' = mem[endOfKernelBinary] /\ module' = endOfKernelBinary + 1
    /\ step' = "load"
    /\ UNCHANGED <<files, image, mem, file, position, loaded, moduleSize>>

loadModule ==
    /\ step = "load" /\ loaded < moduleCount
    /\ moduleSize' = mem[module] /\ module' = module + 1
    /\ position' = 0
    /\ step' = "copy"
    /\ UNCHANGED <<files, image, mem, file, moduleCount, loaded>>

Copied_AllButLast == position >= moduleSize - 1

Copied == position = moduleSize

(* A turn of the loop: forwards, whatever overlaps.                        *)
memcpy ==
    /\ step = "copy" /\ ~Copied
    /\ mem' = [mem EXCEPT ![moduleAddresses[loaded + 1] + position] = mem[module + position]]
    /\ position' = position + 1
    /\ UNCHANGED <<files, image, step, file, moduleCount, loaded, module, moduleSize>>

ModuleLoaded ==
    /\ step = "copy" /\ Copied
    /\ module' = module + moduleSize
    /\ loaded' = loaded + 1
    /\ step' = "load"
    /\ UNCHANGED <<files, image, mem, file, position, moduleCount, moduleSize>>

(* When they are all copied.  The bss is where they were.                  *)
clearBSS ==
    /\ step = "load" /\ loaded = moduleCount
    /\ mem' = [a \in Address |-> IF a \in bss .. endOfKernel - 1 THEN 0 ELSE mem[a]]
    /\ step' = "main"
    /\ UNCHANGED <<files, image, file, position, moduleCount, loaded, module, moduleSize>>

initializeKernelBinary == loadModules \/ loadModule \/ memcpy \/ ModuleLoaded \/ clearBSS

Next == write_file \/ buildImage \/ Boot \/ initializeKernelBinary

Spec == Init /\ [][Next]_vars
-----------------------------------------------------------------------------
(* Properties. *)

At(address, binary) == \A b \in DOMAIN binary : mem[address + b - 1] = binary[b]

(* When main begins the binaries of user land are at their addresses as    *)
(* they were packed, and the kernel is whole, as long as the image ends    *)
(* before the first address and the first binary before the second         *)
(* (modulePacker's main.c:52-119, moduleLoader.c:9-43, kernel.c:63-71: the *)
(* bss, which is where the image was, is cleared after they are copied).   *)
ModulesAreLoaded ==
    step = "main"
      /\ Len(image) <= sampleCodeModuleAddress
      /\ (Len(files) > 1 => sampleCodeModuleAddress + Len(files[2]) <= sampleDataModuleAddress)
    => /\ At(0, files[1])
       /\ \A i \in 2 .. Len(files) : At(moduleAddresses[i - 1], files[i])
=============================================================================
