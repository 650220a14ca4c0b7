----------------------------- MODULE MCCompile -----------------------------
(* Compiled functions compared with the C they were compiled from. *)
EXTENDS CSemantics, IRTextProps

CONSTANTS x, y, Arguments
Symmetry == Permutations(VarNames)

FunctionNodes == {i \in DOMAIN program : program[i].node = "function"}
DefinitionOf(f) == CHOOSE i \in FunctionNodes : program[i].arg = f.name

\* Where C defines what a call returns and leaves in the globals, the IR
\* returns and leaves the same.
CompiledMeansSource ==
    status = "done" =>
        \A f \in Functions : \A args \in [1 .. Len(f.params) -> Arguments] :
            LET c  == RunSource(DefinitionOf(f), args)
                ir == RunIR(f, args)
            IN c.defined =>
                  /\ ir.defined
                  /\ c.value # Undefined => ir.value = c.value
                  /\ \A i \in DOMAIN c.globals :
                        c.globals[i] # Undefined => ir.globals[i] = c.globals[i]
=============================================================================
