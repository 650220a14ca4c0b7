--------------------------- MODULE CompilerProps ---------------------------
(* What the compiled functions do to the core, to memory and to their caller. *)
EXTENDS Compiler

\* The core executes the IR, line by line: RISCVEmitter's instruction
\* selection, its frame and its block layout implement what the IR means.
Implements == IR!Spec

\* A `return;` is a RET without an operand, which RISCVEmitter asks for all the same.
ReturnsNothing(f) ==
    \E b \in BlockIDs(f) : \E id \in InstrIDs(f) :
        Lists(f, b, id) /\ Instr(f, id).opcode = "RET" /\ Instr(f, id).operands = <<>>

\* What IRGenVisitor finishes, RISCVEmitter prints to the end: its .at() throws
\* at a `return;` and at a ninth parameter, and at no other operand, whatever
\* was stored, loaded, compared or patched before.
EmissionSucceeds ==
    thrown => ReturnsNothing(NextFunction) \/ Len(NextFunction.params) > 8

HasReturned == func # NoFunction /\ pc = 0

\* On return, the stack pointer is the caller's and `ret` went to it,
\* whatever the slots of the frame were used for.
ReturnsToCaller == HasReturned => regs["sp"] = StackTop /\ regs["ra"] = CallerRA

\* "restore old frame pointer"
FramePointerRestored == HasReturned => regs["s0"] = CallerFP

\* A function writes its own frame and the globals, and nothing of its
\* caller's, wherever the allocas are.
StoresStayInFrame ==
    [][pc # 0 =>
         \A a \in Addresses : mem'[a] # mem[a] =>
            \/ a \in GlobalAddresses
            \/ a \in regs["sp"] .. StackTop - 1]_compilerVars

\* Every call returns.
CallsReturn == pc # 0 ~> pc = 0
=============================================================================
