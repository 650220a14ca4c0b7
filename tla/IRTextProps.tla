------------------------------ MODULE IRTextProps ------------------------------
(* What the LLVM text of the functions that IRGen has finished tells its reader. *)
EXTENDS IRGenProps

LLVM == INSTANCE IREmitter

\* IREmitter never throws, so the file it has begun to write is completed.
LLVMEmissionSucceeds ==
    \A f \in Functions : \A b \in BlockIDs(f), i \in InstrIDs(f) :
        Lists(f, b, i) => ~LLVM!InstructionThrows(f, module.globals, Instr(f, i))

\* Every name the text uses is defined by it, once: a global, a label, or the
\* result of an earlier line.  The instruction that an id stands for is printed,
\* before its uses, and has a result.
TextDefinesItsNames ==
    \A f \in Functions :
        LET text == LLVM!emitFunction(f, module.globals)
            Defining(name) == {i \in DOMAIN text : text[i].dest = name}
        IN \A i \in DOMAIN text : \A name \in text[i].uses :
            CASE name[1] = "" -> TRUE
              [] name[1] = "@" ->
                    Cardinality({g \in DOMAIN module.globals : module.globals[g] = name[2]}) = 1
              [] OTHER -> \E line \in DOMAIN text :
                    Defining(name) = {line} /\ (name[1] = "label" \/ line < i)
=============================================================================
