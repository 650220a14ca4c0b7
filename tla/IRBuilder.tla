----------------------------- MODULE IRBuilder -----------------------------
(***************************************************************************)
(* What the handlers of IRGenVisitor do to the function under              *)
(* construction: blocks and instructions are pushed, branches are patched. *)
(* Nothing here depends on where in the program the visitor is.            *)
(***************************************************************************)
EXTENDS LLVMModule

CType == {"void", "char", "short", "int", "long", "float", "double", "ptr"}

AddMultOperator == {"+", "-", "*", "/", "%"}
BitwiseOperator == {"&", "|", "^"}
EqualityOperator == {"==", "!="}
CompoundOperator ==
    {"*=", "/=", "%=", "+=", "-=", "<<=", ">>=", "&=", "^=", "|="}
BinaryOperator == AddMultOperator \cup BitwiseOperator \cup EqualityOperator
AssignmentOperator == {"="} \cup CompoundOperator

-----------------------------------------------------------------------------
(* The function and its blocks *)

\* Mutant: the number is left out of the label.
CreateBlockUnnumbered(f, role, id) ==
    [f EXCEPT !.blocks =
        Append(@, [label |-> [role |-> role, id |-> 0], instrIDs |-> <<>>])]
CreateBlock(f, role, id) ==
    [f EXCEPT !.blocks =
        Append(@, [label |-> [role |-> role, id |-> id], instrIDs |-> <<>>])]

AddInstr(f, instr) == [f EXCEPT !.instructions = Append(@, instr)]

\* Mutant: the id is taken after push_back.
EmitInstrLateID(f, instr) ==
    [f EXCEPT !.instructions = Append(@, instr),
              !.blocks[Len(f.blocks)].instrIDs = Append(@, Len(f.instructions) + 1)]
EmitInstr(f, instr) ==
    [f EXCEPT !.instructions = Append(@, instr),
              !.blocks[Len(f.blocks)].instrIDs = Append(@, Len(f.instructions))]

\* function->instructions[id].operands[k].id = target
PatchOperand(f, id, k, target) ==
    [f EXCEPT !.instructions[id + 1].operands[k + 1].id = target]

\* Mutant: without constant 0.
NewFunctionNoConstant == CreateBlock(NoFunction, "entry", 0)
\* func as visit(FunctionDefinition) sets it up: the entry block, constant 0.
NewFunction ==
    [CreateBlock(NoFunction, "entry", 0) EXCEPT !.consts = <<0>>]

-----------------------------------------------------------------------------
(* Types *)

LLVMTypeOf ==
    [void |-> "void", char |-> "i8", short |-> "i16", int |-> "i32",
     long |-> "i64", float |-> "float", double |-> "double", ptr |-> "ptr"]
toLLVMType(type) == LLVMTypeOf[type]

-----------------------------------------------------------------------------
(* The instructions the expression handlers emit *)

\* Mutant: the operands are swapped.
AddMultInstrSwapped(op, lhs, rhs, type) ==
    Instruction(CASE op = "+" -> "ADD"  [] op = "-" -> "SUB" [] op = "*" -> "MUL"
                  [] op = "/" -> "SDIV" [] OTHER -> "SREM",
                toLLVMType(type), <<Value("INSTR", rhs), Value("INSTR", lhs)>>)
AddMultInstr(op, lhs, rhs, type) ==
    Instruction(CASE op = "+" -> "ADD"  [] op = "-" -> "SUB" [] op = "*" -> "MUL"
                  [] op = "/" -> "SDIV" [] OTHER -> "SREM",
                toLLVMType(type), <<Value("INSTR", lhs), Value("INSTR", rhs)>>)

BitwiseInstr(op, lhs, rhs, type) ==
    Instruction(CASE op = "&" -> "AND" [] op = "|" -> "OR" [] OTHER -> "XOR",
                toLLVMType(type), <<Value("INSTR", lhs), Value("INSTR", rhs)>>)

EqualityInstr(op, lhs, rhs) ==
    [opcode |-> "ICMP", type |-> "i1",
     operands |-> <<Value("INSTR", lhs), Value("INSTR", rhs)>>,
     cond |-> IF op = "!=" THEN "NE" ELSE "EQ"]

CompoundOpcode(op) ==
    CASE op = "*=" -> "MUL" [] op = "/=" -> "UDIV" [] op = "%=" -> "UREM"
      [] op = "+=" -> "ADD" [] op = "-=" -> "SUB"
      [] op \in {"<<=", ">>=", "&="} -> "AND"
      [] op = "^=" -> "XOR" [] OTHER -> "OR"

\* Mutant: the operands of the store are swapped.
AssignSwapped(f, op, lhs, rhs) ==
    EmitInstr(f, Instruction("STORE", "void", <<Value("INSTR", lhs), Value("INSTR", rhs)>>))

\* The tail of visit(AssignmentExpression): the compound operation, if any,
\* then the store; it stores rhs in both cases.  (rhs comes from
\* _evaluateAsRValue, so it is an instruction.)
Assign(f, op, lhs, rhs) ==
    LET type   == IF rhs = NPos THEN "void" ELSE Instr(f, rhs).type
        loaded == EmitInstr(f, Instruction("LOAD", type, <<Value("INSTR", lhs)>>))
        result == EmitInstr(loaded,
                    Instruction(CompoundOpcode(op), type,
                                <<Value("INSTR", LastInstr(loaded)), Value("INSTR", rhs)>>))
    IN EmitInstr(IF op = "=" THEN f ELSE result,
                 Instruction("STORE", "void", <<Value("INSTR", rhs), Value("INSTR", lhs)>>))

\* The parts of visit(IfStatement): after the condition; after the first
\* branch; where the else branch starts; and after the last branch.
JumpEnd == Instruction("BR", "void", <<Value("BLOCK", 0)>>)

\* Mutant: the branch is emitted once the block it jumps to is there.
StartIfLateBranch(f) ==
    LET ifID   == Len(f.instructions)
        branch == Instruction("BR", "void",
                    <<Value("INSTR", LastInstr(f)), Value("BLOCK", Len(f.blocks)),
                      Value("BLOCK", 0)>>)
    IN AddInstr(EmitInstr(CreateBlock(f, "if_true", ifID), branch), JumpEnd)
StartIf(f) ==
    LET ifID   == Len(f.instructions)
        branch == Instruction("BR", "void",
                    <<Value("INSTR", LastInstr(f)), Value("BLOCK", Len(f.blocks)),
                      Value("BLOCK", 0)>>)
    IN CreateBlock(AddInstr(EmitInstr(f, branch), JumpEnd), "if_true", ifID)

\* Mutants: the branch is not patched; its first target is.
StartElseUnpatched(f, ifID) == CreateBlock(f, "if_false", ifID)
StartElseFirstTarget(f, ifID) ==
    LET g == CreateBlock(f, "if_false", ifID) IN PatchOperand(g, ifID, 1, LastBlock(g))
StartElse(f, ifID) ==
    LET g == CreateBlock(f, "if_false", ifID) IN PatchOperand(g, ifID, 2, LastBlock(g))

\* Mutants: the index of the last block is taken before there is a new one;
\* the first jump is not patched; the else branch is disconnected.
EndIfOffByOne(f, ifID, startJumpEnd, endIndex) ==
    LET g == CreateBlock(f, "if_end", ifID)
        h == IF Instr(g, ifID).operands[3].id = 0
             THEN PatchOperand(g, ifID, 2, LastBlock(f))
             ELSE g
    IN PatchOperand(PatchOperand(h, endIndex, 0, LastBlock(f)),
                    startJumpEnd, 0, LastBlock(f))
EndIfUnpatched(f, ifID, startJumpEnd, endIndex) ==
    LET g == CreateBlock(f, "if_end", ifID)
        h == IF Instr(g, ifID).operands[3].id = 0
             THEN PatchOperand(g, ifID, 2, LastBlock(g))
             ELSE g
    IN PatchOperand(h, endIndex, 0, LastBlock(g))
EndIfUnchecked(f, ifID, startJumpEnd, endIndex) ==
    LET g == CreateBlock(f, "if_end", ifID)
    IN PatchOperand(PatchOperand(PatchOperand(g, ifID, 2, LastBlock(g)),
                                 endIndex, 0, LastBlock(g)),
                    startJumpEnd, 0, LastBlock(g))
EndIf(f, ifID, startJumpEnd, endIndex) ==
    LET g == CreateBlock(f, "if_end", ifID)
        h == IF Instr(g, ifID).operands[3].id = 0
             THEN PatchOperand(g, ifID, 2, LastBlock(g))
             ELSE g
    IN PatchOperand(PatchOperand(h, endIndex, 0, LastBlock(g)),
                    startJumpEnd, 0, LastBlock(g))

-----------------------------------------------------------------------------
(* Declarations *)

Alloca(type) == Instruction("ALLOCA", toLLVMType(type), <<>>)

\* Mutants: the parameter's index is taken after push_back; the parameter is
\* stored to the instruction with its index.
AddParameterLateID(f, n) ==
    EmitInstr([f EXCEPT !.params = Append(@, n)],
              Instruction("STORE", "void",
                <<Value("PARAM", Len(f.params) + 1), Value("INSTR", LastInstr(f))>>))
AddParameterToIndex(f, n) ==
    EmitInstr([f EXCEPT !.params = Append(@, n)],
              Instruction("STORE", "void",
                <<Value("PARAM", Len(f.params)), Value("INSTR", Len(f.params))>>))

\* The end of visit(ParameterDeclaration): the parameter is pushed and stored
\* to whatever instruction is the last.
AddParameter(f, n) ==
    EmitInstr([f EXCEPT !.params = Append(@, n)],
              Instruction("STORE", "void",
                <<Value("PARAM", Len(f.params)), Value("INSTR", LastInstr(f))>>))
=============================================================================
