------------------------------ MODULE Compiler ------------------------------
(***************************************************************************)
(* The compiler's back half, and what comes out of it at work: IRGen       *)
(* builds a module, RISCVEmitter prints its functions one after the other, *)
(* and when all are printed the program is linked and its functions called.*)
(***************************************************************************)
EXTENDS IRGenProps, RISCVMachine

CONSTANTS Arguments,  \* the values passed to functions
          MaxCalls    \* bound on the number of calls

ASSUME ArgumentsAssumption == Arguments \subseteq Word

VARIABLES
    asm,     \* what emitModule has printed: the assembly of each function
    thrown,  \* whether it threw
    calls    \* how many calls may still be made

compilerVars == <<vars, asm, thrown, calls, machineVars>>

CompilerInit ==
    /\ Init /\ MachineInit
    /\ asm = <<>> /\ thrown = FALSE /\ calls = MaxCalls

GenerateIR == status = "visiting" /\ Next /\ UNCHANGED <<asm, thrown, calls, machineVars>>

Emitting == status = "done" /\ ~thrown /\ Len(asm) < Len(module.functions)
NextFunction == module.functions[Len(asm) + 1]
EmitFunction ==
    /\ Emitting /\ Emittable(NextFunction, module.globals)
    /\ asm' = Append(asm, emitFunction(NextFunction))
    /\ UNCHANGED <<vars, thrown, calls, machineVars>>
\* The exception ends the process; the file holds what was printed.
EmitterThrows ==
    /\ Emitting /\ ~Emittable(NextFunction, module.globals)
    /\ thrown' = TRUE
    /\ UNCHANGED <<vars, asm, calls, machineVars>>

\* All functions are printed, and .data has a word for every global.
Executable ==
    /\ status = "done" /\ ~thrown /\ Len(asm) = Len(module.functions)
    /\ 0 .. Len(module.globals) - 1 \subseteq GlobalIDs
CallCompiled ==
    /\ Executable /\ calls > 0
    /\ calls' = calls - 1
    /\ \E i \in DOMAIN asm :
         \E arguments \in [DOMAIN module.functions[i].params -> Arguments] :
            CallFunction(module.functions[i], asm[i], arguments)
    /\ UNCHANGED <<vars, asm, thrown>>

Execute == Step /\ UNCHANGED <<vars, asm, thrown, calls>>

CompilerNext == GenerateIR \/ EmitFunction \/ EmitterThrows \/ CallCompiled \/ Execute
CompilerSpec == CompilerInit /\ [][CompilerNext]_compilerVars
\* The core never stops in the middle of a function.
FairCompilerSpec == CompilerSpec /\ WF_compilerVars(Execute)
=============================================================================
