----------------------------- MODULE MCCompiler -----------------------------
(* The generated assembly at work, compared with the C it was compiled from. *)
EXTENDS CompilerProps, CSemantics

CONSTANTS x, y

FunctionNodes == {i \in DOMAIN program : program[i].node = "function"}
DefinitionOf(f) == CHOOSE i \in FunctionNodes : program[i].arg = f.name

\* The first call returns what C says, and leaves that in the globals, where
\* C defines it.
ComputesSource ==
    HasReturned /\ calls = MaxCalls - 1 =>
        LET c == RunSource(DefinitionOf(func), params)
        IN c.defined =>
              /\ c.value # Undefined => regs["a0"] = Wrap(c.value[1])
              /\ \A i \in DOMAIN c.globals :
                    c.globals[i] # Undefined => mem[GlobalAddress(i - 1)] = Wrap(c.globals[i][1])
=============================================================================
