----------------------------- MODULE LLVMModule -----------------------------
(***************************************************************************)
(* The intermediate representation that IRGenVisitor builds and both       *)
(* emitters read: a function owns four arenas (instructions, parameters,   *)
(* constants, blocks) and every operand is an index into one of them.      *)
(*                                                                         *)
(* Ids are the 0-based std::size_t indices of the code; TLA+ sequences are *)
(* 1-based, so id i is element i + 1.  The value of `size() - 1` on an     *)
(* empty arena is a wrapped std::size_t; it is NPos here, an id of no      *)
(* element of any arena.                                                   *)
(***************************************************************************)
EXTENDS Integers, Sequences

NPos == -1

LLVMValueKind == {"PARAM", "INSTR", "CONST", "BLOCK", "GLOBAL"}
LLVMValueID == [kind : LLVMValueKind, id : Nat \cup {NPos}]
Value(kind, id) == [kind |-> kind, id |-> id]

LLVMOpcode ==
    {"ADD", "SUB", "MUL", "UDIV", "SDIV", "UREM", "SREM", "AND", "OR", "XOR",
     "ICMP", "ALLOCA", "LOAD", "STORE", "BR", "RET"}
LLVMCmpCond == {"EQ", "NE", "UGT", "UGE", "ULT", "SGT", "SGE", "SLT", "SLE"}

\* LLVMBasicType together with its intSize.
LLVMType ==
    {"void", "i1", "i8", "i16", "i32", "i64", "float", "double", "ptr"}

LLVMInstruction ==
    [opcode : LLVMOpcode, type : LLVMType, operands : Seq(LLVMValueID),
     cond : LLVMCmpCond]

\* An instruction that compares nothing: `.cond{}` is the first condition.
Instruction(opcode, type, operands) ==
    [opcode |-> opcode, type |-> type, operands |-> operands, cond |-> "EQ"]

\* A block's label: the text before the number, and the number.
LabelRole == {"entry", "if_true", "if_false", "if_end"}
Label == [role : LabelRole, id : Nat]
LLVMBasicBlock == [label : Label, instrIDs : Seq(Nat)]

\* A function; a parameter is represented by its name and a constant (all of
\* them are of type i32) by its value.
LLVMFunction(FuncNames, ParamNames, ConstValues) ==
    [name : FuncNames, blocks : Seq(LLVMBasicBlock),
     instructions : Seq(LLVMInstruction),
     params : Seq(ParamNames), consts : Seq(ConstValues)]

\* No function: a null pointer to one.
NoFunctionName == ""
NoFunction ==
    [name |-> NoFunctionName, blocks |-> <<>>, instructions |-> <<>>,
     params |-> <<>>, consts |-> <<>>]

Instr(f, id) == f.instructions[id + 1]
Block(f, id) == f.blocks[id + 1]
LastInstr(f) == Len(f.instructions) - 1
LastBlock(f) == Len(f.blocks) - 1
InstrIDs(f) == 0 .. LastInstr(f)
BlockIDs(f) == 0 .. LastBlock(f)
Operands(f, id) == {Instr(f, id).operands[k] : k \in DOMAIN Instr(f, id).operands}

\* Whether instruction id is listed by block b, and whether by no block.
Lists(f, b, id) == \E k \in DOMAIN Block(f, b).instrIDs : Block(f, b).instrIDs[k] = id
Placed(f, id) == \E b \in BlockIDs(f) : Lists(f, b, id)

\* Whether operand v of f can be looked up: getValueLabel and loadValue index
\* the arena of its kind with .at(), which throws outside of it.
InArena(f, globals, v) ==
    /\ v.kind = "INSTR" => v.id \in 0 .. Len(f.instructions) - 1
    /\ v.kind = "PARAM" => v.id \in 0 .. Len(f.params) - 1
    /\ v.kind = "CONST" => v.id \in 0 .. Len(f.consts) - 1
    /\ v.kind = "BLOCK" => v.id \in 0 .. Len(f.blocks) - 1
    /\ v.kind = "GLOBAL" => v.id \in 0 .. Len(globals) - 1
=============================================================================
