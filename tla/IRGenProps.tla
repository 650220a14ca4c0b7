----------------------------- MODULE IRGenProps -----------------------------
(***************************************************************************)
(* What makes the IR that IRGen builds usable by the two emitters, which   *)
(* read it without checking it.                                            *)
(***************************************************************************)
EXTENDS IRGen

Functions == {module.functions[i] : i \in DOMAIN module.functions}
\* Every function so far, the one under construction included.
AllFunctions == Functions \cup (IF InFunction THEN {function} ELSE {})

Place == Owing \cup {"params", "decls", "stmts", "store", "rvalue", "binary",
                     "assign", "endScope", "ifElse", "ifEnd", "return"}
FrameArg == Position \cup BinaryOperator \cup AssignmentOperator \cup {""}
FrameType ==
    [at : Place, arg : FrameArg, type : CType, ids : Seq(Nat \cup {NPos})]
SymbolType == [type : CType, storage : LLVMValueID]
FunctionType == LLVMFunction(FuncNames \cup {NoFunctionName}, Names, Literals \cup {0})

\* The types of the variables.
TypeOK ==
    /\ function \in FunctionType
    /\ global \in {<<>>} \cup {<<n>> : n \in VarNames \cup {NoName}}
    /\ module \in [functions : Seq(FunctionType), globals : Seq(VarNames \cup {NoName})]
    /\ IsStackOf(identifiers, Names, LLVMValueID)
    /\ initialising \in Names \cup {NoName}
    /\ todo \in Seq(FrameType)
    /\ status \in {"visiting", "done", "threw", "crashed"}
    /\ IsStackOf(table, Names, SymbolType)
    /\ evaluated \in CType
    /\ budget \in 0 .. MaxNodes

IsConditionalBranch(instr) == instr.opcode = "BR" /\ Len(instr.operands) = 3

\* Operand v of instruction i of f can be looked up and, if it is the result
\* of an instruction, of an earlier one; or it was taken as `size() - 1`
\* before any instruction existed.
OperandOK(f, globals, i, v) ==
    \/ v = Value("INSTR", NPos)
    \/ InArena(f, globals, v) /\ (v.kind = "INSTR" => v.id < i)
FunctionOK(f, globals) ==
    \A i \in InstrIDs(f) : \A k \in DOMAIN Instr(f, i).operands :
        OperandOK(f, globals, i, Instr(f, i).operands[k])

\* Every operand indexes an existing element of its arena and an instruction
\* only uses the results of earlier ones, but for that exception: no .at() of
\* getValueLabel, getTypeOf, getInstr or loadValue throws.
OperandsInArena == \A f \in AllFunctions : FunctionOK(f, module.globals)

\* The inductive invariant behind OperandsInArena.  A suspended visit holds ids
\* of instructions of f, and a suspended visit(IfStatement) those of its
\* branches.
BranchTo(f, id, k) ==
    /\ id \in InstrIDs(f)
    /\ k \in DOMAIN Instr(f, id).operands
    /\ Instr(f, id).operands[k].kind = "BLOCK"
FrameOK(f, frame) ==
    /\ frame.at \in {"binary", "assign"} =>
         Len(frame.ids) = 1 /\ frame.ids[1] \in NPos .. LastInstr(f)
    /\ frame.at \in {"binary", "binaryLhs"} => frame.arg \in BinaryOperator
    /\ frame.at \in {"assign", "assignLhs"} => frame.arg \in AssignmentOperator
    /\ frame.at \in {"list", "expr"} => frame.arg \in Position
    /\ frame.at \in {"ifElse", "ifEnd"} =>
         /\ Len(frame.ids) = (IF frame.at = "ifElse" THEN 2 ELSE 3)
         /\ BranchTo(f, frame.ids[1], 3)
         /\ \A j \in 2 .. Len(frame.ids) : BranchTo(f, frame.ids[j], 1)
FramesOK == \A j \in DOMAIN todo : FrameOK(function, todo[j])

\* An identifier layer holds globals that are (or are about to be) in the
\* module or, the innermost one of a function, instructions of the function.
StorageOK(i, v) ==
    \/ v.kind = "GLOBAL" /\ v.id \in 0 .. Len(module.globals) + Len(global) - 1
    \/ InFunction /\ i = Len(identifiers) /\ v.kind = "INSTR" /\ v.id \in InstrIDs(function)
LayersOK ==
    \A i \in DOMAIN identifiers : \A n \in DOMAIN identifiers[i] :
        StorageOK(i, identifiers[i][n])

\* A function under construction has its entry block and constant 0, and the
\* call stack is empty outside of it.
ContextOK ==
    /\ InFunction => /\ function.blocks # <<>> /\ function.consts # <<>>
                     /\ global = <<>> /\ identifiers # <<>>
    /\ todo # <<>> => InFunction

IndInv == TypeOK /\ OperandsInArena /\ ContextOK /\ FramesOK /\ LayersOK

\* Where every expression has a handler, that exception does not occur.
NoWrappedIndex ==
    \A f \in AllFunctions : \A i \in InstrIDs(f) : \A v \in Operands(f, i) : v.id # NPos

\* emitFunction prints instructions block by block: that order is the order
\* of emission, each instruction appears once, and the only ones left out are
\* the jumps visit(IfStatement) pushes right after a conditional branch.
PlacedInOrder ==
    \A f \in AllFunctions :
        /\ \A b, c \in BlockIDs(f) :
             \A k \in DOMAIN Block(f, b).instrIDs, l \in DOMAIN Block(f, c).instrIDs :
                b < c \/ (b = c /\ k < l) => Block(f, b).instrIDs[k] < Block(f, c).instrIDs[l]
        /\ \A i \in InstrIDs(f) :
             Placed(f, i) <=> ~(i > 0 /\ IsConditionalBranch(Instr(f, i - 1)))

\* There is no phi: a value that does not live in memory is used in the block
\* that computes it, so it is defined on every path to its use.
ValuesUsedInTheirBlock ==
    \A f \in AllFunctions : \A b \in BlockIDs(f) : \A i \in InstrIDs(f) :
        Lists(f, b, i) =>
            \A v \in Operands(f, i) :
                v.kind = "INSTR" /\ Instr(f, v.id).opcode # "ALLOCA" => Lists(f, b, v.id)

\* Every branch of a finished function was patched, and goes forward.
BranchesGoForward ==
    \A f \in Functions : \A i \in InstrIDs(f) : \A v \in Operands(f, i) :
        v.kind = "BLOCK" =>
            /\ v.id # 0
            /\ \A b \in BlockIDs(f) : Lists(f, b, i) => b < v.id

\* A branch to block 0 is one that a suspended visit(IfStatement) will patch,
\* and every such visit has branches to patch.
UnpatchedIDs ==
    {i \in InstrIDs(function) : \E v \in Operands(function, i) : v = Value("BLOCK", 0)}
IfFrames == {todo[i] : i \in {j \in DOMAIN todo : todo[j].at \in {"ifElse", "ifEnd"}}}
UnpatchedAreOwned ==
    UnpatchedIDs =
        UNION {LET ids == {frame.ids[k] : k \in DOMAIN frame.ids}
               IN IF frame.at = "ifElse" THEN ids ELSE ids \ {frame.ids[1]} :
               frame \in IfFrames}

\* The two jumps of an if statement agree, and its branches and join are the
\* blocks created for it, whatever was nested in its branches: a false
\* condition goes to the else branch if there is one.
IfBlocksMatch ==
    \A f \in Functions : \A i \in InstrIDs(f) :
        IsConditionalBranch(Instr(f, i)) =>
            LET target(k) == Block(f, Instr(f, i).operands[k].id).label
                end       == Block(f, Instr(f, i + 1).operands[1].id).label
                part(role) == [role |-> role, id |-> i]
                hasElse   == \E b \in BlockIDs(f) : Block(f, b).label = part("if_false")
            IN /\ target(2) = part("if_true")
               /\ target(3) = part(IF hasElse THEN "if_false" ELSE "if_end")
               /\ end = part("if_end")

\* "ASSUMES LHS ALWAYS RETURNS A POINTER": the destination of every store
\* is an address.
StoresToAddresses ==
    \A f \in AllFunctions : \A i \in InstrIDs(f) :
        Instr(f, i).opcode = "STORE" =>
            LET v == Instr(f, i).operands[2]
            IN v.kind = "GLOBAL" \/ Instr(f, v.id).opcode = "ALLOCA"
                                 \/ Instr(f, v.id).type = "ptr"

\* Arithmetic and comparisons are done on loaded values, never on an address
\* or on an instruction without a result.
ArithmeticOnValues ==
    \A f \in AllFunctions : \A i \in InstrIDs(f) :
        Instr(f, i).opcode \notin {"ALLOCA", "LOAD", "STORE", "BR", "RET"}
        /\ Instr(f, i).type # "ptr" =>
            \A v \in Operands(f, i) :
                v.kind = "INSTR" => Instr(f, v.id).type \notin {"ptr", "void"}

\* A program SemaVisitor accepts is compiled: no name it resolved is unknown
\* to the identifier layers, no evaluation finds the function empty.
NeverFails == status \notin {"threw", "crashed"}

\* An identifier gets the storage of the declaration that SemaVisitor
\* resolved it to, the innermost one that is visible.
ResolvesLexically ==
    \A n \in Names : HasOrd(table, n) =>
        Resolvable(n) /\ ResolveIdentifier(n) = GetOrd(table, n).storage

\* Instructions are only appended, and an emitted one changes only when one
\* of its branch targets is patched, once, from 0 to its block.
PatchedOnce(old, new) ==
    /\ [new EXCEPT !.operands = old.operands] = old
    /\ Len(new.operands) = Len(old.operands)
    /\ \A k \in DOMAIN old.operands :
         new.operands[k] # old.operands[k] =>
            old.operands[k] = Value("BLOCK", 0) /\ new.operands[k].kind = "BLOCK"
AppendOnly ==
    [][function' # NoFunction =>
         \A i \in InstrIDs(function) :
            i \in InstrIDs(function') /\ PatchedOnce(Instr(function, i), Instr(function', i))]_vars

\* The parameters come first: parameter k is stored to the k-th alloca before
\* anything else runs, so that no later code can have overwritten its register.
ParametersFirst ==
    \A f \in AllFunctions : \A k \in 0 .. Len(f.params) - 1 :
        /\ Instr(f, 2 * k).opcode = "ALLOCA"
        /\ Instr(f, 2 * k + 1).opcode = "STORE"
        /\ Instr(f, 2 * k + 1).operands = <<Value("PARAM", k), Value("INSTR", 2 * k)>>
=============================================================================
