---------------------------- MODULE ContextSwitch ----------------------------
(***************************************************************************)
(* How a process leaves the processor and gets it back: the stubs of       *)
(* Kernel/asm/interrupts.asm, the first frame of a stack (fill_stack in    *)
(* process.c), and the stack pointer that next_process and end_process     *)
(* keep in the control block (processManager.c).                           *)
(*                                                                         *)
(* Which process comes next is the Scheduler's: here it may be any.        *)
(***************************************************************************)
EXTENDS Integers, Sequences, SequencesExt

CONSTANT Process   \* numbers; 0 is init

VARIABLES
    current,
    cpu,     \* what each register holds
    stack,   \* of each process, from its base
    rsp,     \* the stack pointer in its control block: how much of it is used
    left,    \* history: what the code of each process last had in its
             \* registers, as user and, within a system call, as kernel
    xmm,     \* what the SSE registers hold: whose numbers
    floats   \* history: of the last process that computed with them, if it has
             \* not ended, what it had there

ssevars == <<xmm, floats>>
vars == <<current, cpu, stack, rsp, left, ssevars>>

(* From the lowest address on.  The SSE registers are not in it.           *)
StackFrame ==
    <<"gs", "fs", "r15", "r14", "r13", "r12", "r11", "r10", "r9", "r8", "rsi",
      "rdi", "rbp", "rdx", "rcx", "rbx", "rax", "rip", "eflags">>

Register == ToSet(StackFrame)

pushState_notRax ==
    <<"rbx", "rcx", "rdx", "rbp", "rdi", "rsi", "r8", "r9", "r10", "r11", "r12",
      "r13", "r14", "r15", "fs", "gs">>

pushState == <<"rax">> \o pushState_notRax

popState_notRax ==
    <<"gs", "fs", "r15", "r14", "r13", "r12", "r11", "r10", "r9", "r8", "rsi",
      "rdi", "rbp", "rdx", "rcx", "rbx">>

popState == popState_notRax \o <<"rax">>
iretq == <<"rip", "eflags">>

On == <<"interrupts", TRUE>>
Off == <<"interrupts", FALSE>>

(* What code leaves in the registers.                                      *)
Computed(p, who, n, interrupts) ==
    [r \in Register |-> IF r = "eflags" THEN interrupts ELSE <<p, who, n, r>>]

(* The entry point and the parameters; the rest is of no meaning.          *)
Filled(p) ==
    [Computed(p, "filled", 0, On) EXCEPT
        !["rip"] = <<p, "entry", 0, "rip">>, !["rdi"] = <<p, "params", 0, "rdi">>]

fill_stack(p) == Reverse([i \in DOMAIN StackFrame |-> Filled(p)[StackFrame[i]]])

-----------------------------------------------------------------------------
(* The processor.                                                          *)

Pushed(s, names) == s \o [i \in DOMAIN names |-> cpu[names[i]]]

Popped(s, names) ==
    [r \in ToSet(names) |-> s[Len(s) + 1 - CHOOSE i \in DOMAIN names : names[i] = r]]

Dropped(s, names) == SubSeq(s, 1, Len(s) - Len(names))

(* A gate keeps the flags and the program counter.                         *)
Entered(state) == Pushed(stack[current], <<"eflags", "rip">> \o state)

Has == Len(left[current])
InCall == Has = 2
Live == {p \in Process : left[p] # <<>>}

(* mov rsp, popState, iretq: what remains below is p's.                    *)
_change_process(p, stacks, sp) ==
    LET top == SubSeq(stacks[p], 1, sp)
    IN  /\ cpu' = Popped(top, popState \o iretq)
        /\ stack' = [stacks EXCEPT ![p] = Dropped(top, popState \o iretq)]
        /\ current' = p

next_process_KeepsOld(p, s) ==
    /\ rsp' = rsp
    /\ _change_process(p, [stack EXCEPT ![current] = s], IF p = current THEN Len(s) ELSE rsp[p])

next_process(p, s) ==
    /\ rsp' = [rsp EXCEPT ![current] = Len(s)]
    /\ _change_process(p, [stack EXCEPT ![current] = s], rsp'[p])

Unused == <<>>

-----------------------------------------------------------------------------
(* The kernel has just changed to init.                                    *)
Init ==
    /\ current = 0
    /\ cpu = Popped(fill_stack(0), popState \o iretq)
    /\ stack = [p \in Process |-> <<>>]
    /\ rsp = [p \in Process |-> IF p = 0 THEN Len(StackFrame) ELSE 0]
    /\ left = [p \in Process |-> IF p = 0 THEN <<Filled(0)>> ELSE <<>>]
    /\ xmm = Unused /\ floats = [p \in {} |-> Unused]

Computes ==
    /\ \E n \in 0 .. 1 :
         cpu' = Computed(current, IF InCall THEN "kernel" ELSE "user", n, cpu["eflags"])
    /\ left' = [left EXCEPT ![current][Has] = cpu']
    /\ UNCHANGED <<current, stack, rsp, ssevars>>

(* User land is compiled for SSE, the kernel without it.  (init, which is  *)
(* kernel code, may here too: the switch treats it as it does the others.) *)
ComputesWithFloats ==
    /\ ~InCall
    /\ xmm' = <<current>>
    /\ floats' = [p \in {current} |-> xmm']
    /\ UNCHANGED <<current, cpu, stack, rsp, left>>

(* The call and its first argument go on to syscallDispatcher.             *)
_syscallHandler ==
    /\ ~InCall
    /\ stack' = [stack EXCEPT ![current] = Entered(pushState_notRax)]
    /\ cpu' = [cpu EXCEPT !["rdi"] = cpu["rax"], !["rsi"] = cpu["rbx"],
                          !["rip"] = <<current, "dispatcher", 0, "rip">>, !["eflags"] = Off]
    /\ left' = [left EXCEPT ![current] = Append(@, cpu')]
    /\ UNCHANGED <<current, rsp, ssevars>>

SyscallReturns ==
    LET result == <<current, "result", 0, "rax">>
        names == popState_notRax \o iretq
    IN  /\ InCall
        /\ cpu' = [r \in Register |->
                     IF r = "rax" THEN result ELSE Popped(stack[current], names)[r]]
        /\ stack' = [stack EXCEPT ![current] = Dropped(@, names)]
        /\ left' = [left EXCEPT ![current] = <<[Head(@) EXCEPT !["rax"] = result]>>]
        /\ UNCHANGED <<current, rsp, ssevars>>

(* sys_read does so before it blocks.                                      *)
_sti ==
    /\ InCall /\ cpu["eflags"] = Off
    /\ cpu' = [cpu EXCEPT !["eflags"] = On]
    /\ left' = [left EXCEPT ![current][Has] = cpu']
    /\ UNCHANGED <<current, stack, rsp, ssevars>>

(* A tick, which may find quantum left or the superlock taken.             *)
_irq00Handler ==
    /\ cpu["eflags"] = On
    /\ \E p \in Live : next_process(p, Entered(pushState))
    /\ UNCHANGED <<left, ssevars>>

(* A key: the handler works on the stack of whom it interrupts.            *)
_irq01Handler ==
    /\ cpu["eflags"] = On
    /\ _change_process(current, [stack EXCEPT ![current] = Entered(pushState)],
                       Len(Entered(pushState)))
    /\ UNCHANGED <<rsp, left, ssevars>>

_yield_process ==
    /\ InCall
    /\ \E p \in Live : next_process(p, Entered(pushState))
    /\ UNCHANGED <<left, ssevars>>

create_process ==
    /\ InCall
    /\ \E p \in Process \ Live :
         /\ stack' = [stack EXCEPT ![p] = fill_stack(p)]
         /\ rsp' = [rsp EXCEPT ![p] = Len(stack'[p])]
         /\ left' = [left EXCEPT ![p] = <<Filled(p)>>]
    /\ UNCHANGED <<current, cpu, ssevars>>

end_process ==
    /\ InCall /\ current # 0
    /\ \E p \in Live \ {current} :
         _change_process(p, [stack EXCEPT ![current] = <<>>], rsp[p])
    /\ left' = [left EXCEPT ![current] = <<>>]
    /\ floats' = [p \in DOMAIN floats \ {current} |-> floats[p]]
    /\ UNCHANGED <<rsp, xmm>>

Next ==
    \/ Computes \/ ComputesWithFloats \/ _syscallHandler \/ SyscallReturns \/ _sti
    \/ _irq00Handler \/ _irq01Handler \/ _yield_process
    \/ create_process \/ end_process

Spec == Init /\ [][Next]_vars
-----------------------------------------------------------------------------
(* Properties. *)

(* Whoever has the processor finds in the registers of the stack frame     *)
(* what it left there, or what a new process must start with, and the      *)
(* interrupts on or off as they were, with the result of the call in rax   *)
(* when one has returned: whatever ran in between, and however deep in the *)
(* kernel it was when it was interrupted or gave way                       *)
(* (interrupts.asm:127-163, 186-231, process.c:364-394,                    *)
(* processManager.c:44-68).  The SSE registers are nobody's: no stub saves *)
(* them (interrupts.asm:30-68), so a process that computes with floats     *)
(* finds its own there only until another one does, and two fractals       *)
(* (fractals.c:56-87) that take turns spoil each other's.                  *)
RegistersSurvive ==
    /\ cpu = left[current][Has]
    /\ current \in DOMAIN floats => xmm = floats[current]
=============================================================================
