---------------------------- MODULE RISCVEmitter ----------------------------
(***************************************************************************)
(* RISCVEmitter: the assembly of a function, a sequence of instructions    *)
(* and labels.  `id` is the IR instruction a line is emitted for, NPos for *)
(* the frame and the labels; the code prints no such thing.                *)
(***************************************************************************)
EXTENDS LLVMModule, Frame, SequencesExt

Asm(op, args) == [op |-> op, args |-> args, id |-> NPos]

Epilogue == [role |-> "epilogue", id |-> 0]
ArgReg(id) == <<"a0", "a1", "a2", "a3", "a4", "a5", "a6", "a7">>[id + 1]

pushStack(id, reg) == <<Asm("sw", <<reg, -getSlotOffset(id), "s0">>)>>
loadFromStack(id, reg) == <<Asm("lw", <<reg, -getSlotOffset(id), "s0">>)>>

\* An alloca is the address of its slot, any other instruction what its slot
\* holds; a global is its address.
loadValue(f, v, reg) ==
    CASE v.kind = "PARAM"  -> <<Asm("mv", <<reg, ArgReg(v.id)>>)>>
      [] v.kind = "CONST"  -> <<Asm("li", <<reg, f.consts[v.id + 1]>>)>>
      [] v.kind = "GLOBAL" -> <<Asm("la", <<reg, v.id>>)>>
      [] v.kind = "INSTR"  ->
           IF Instr(f, v.id).opcode = "ALLOCA"
           THEN <<Asm("addi", <<reg, "s0", -getSlotOffset(v.id)>>)>>
           ELSE loadFromStack(v.id, reg)

\* Mutant: SREM shares the line of UREM.
OperationUnsigned ==
    [ADD |-> "add", SUB |-> "sub", MUL |-> "mul", UDIV |-> "divu", SDIV |-> "div",
     UREM |-> "remu", SREM |-> "remu", AND |-> "and", OR |-> "or", XOR |-> "xor"]
Operation ==
    [ADD |-> "add", SUB |-> "sub", MUL |-> "mul", UDIV |-> "divu", SDIV |-> "div",
     UREM |-> "remu", SREM |-> "rem", AND |-> "and", OR |-> "or", XOR |-> "xor"]

Comparison(cond) ==
    LET less(op, a, b) == <<Asm(op, <<"t2", a, b>>)>>
        inverted       == <<Asm("xori", <<"t2", "t2", 1>>)>>
        difference     == <<Asm("sub", <<"t2", "t0", "t1">>)>>
    IN CASE cond = "EQ"  -> difference \o <<Asm("seqz", <<"t2", "t2">>)>>
         [] cond = "NE"  -> difference \o <<Asm("snez", <<"t2", "t2">>)>>
         [] cond = "UGT" -> less("sltu", "t1", "t0")
         [] cond = "UGE" -> less("sltu", "t0", "t1") \o inverted
         [] cond = "ULT" -> less("sltu", "t0", "t1")
         [] cond = "SGT" -> less("slt", "t1", "t0")
         [] cond = "SGE" -> less("slt", "t0", "t1") \o inverted
         [] cond = "SLT" -> less("slt", "t0", "t1")
         [] cond = "SLE" -> less("slt", "t1", "t0") \o inverted

BlockLabel(f, v) == Block(f, v.id).label
jump(f, v) == <<Asm("j", <<BlockLabel(f, v)>>)>>

\* Mutant: the targets are swapped.
emitBranchSwapped(f, ops) ==
    IF Len(ops) = 1 THEN jump(f, ops[1])
    ELSE loadValue(f, ops[1], "t0")
         \o <<Asm("bnez", <<"t0", BlockLabel(f, ops[3])>>)>> \o jump(f, ops[2])
emitBranch(f, ops) ==
    IF Len(ops) = 1 THEN jump(f, ops[1])
    ELSE loadValue(f, ops[1], "t0")
         \o <<Asm("bnez", <<"t0", BlockLabel(f, ops[2])>>)>> \o jump(f, ops[3])

emitInstruction(f, id) ==
    LET instr         == Instr(f, id)
        load(k, reg)  == loadValue(f, instr.operands[k], reg)
        both          == load(1, "t0") \o load(2, "t1")
        lines ==
          CASE instr.opcode \in DOMAIN Operation ->
                 both \o <<Asm(Operation[instr.opcode], <<"t2", "t0", "t1">>)>>
                      \o pushStack(id, "t2")
            [] instr.opcode = "ICMP" -> both \o Comparison(instr.cond) \o pushStack(id, "t2")
            [] instr.opcode = "ALLOCA" -> <<>>
            [] instr.opcode = "LOAD" ->
                 load(1, "t0") \o <<Asm("lw", <<"t1", 0, "t0">>)>> \o pushStack(id, "t1")
            [] instr.opcode = "STORE" -> both \o <<Asm("sw", <<"t0", 0, "t1">>)>>
            [] instr.opcode = "BR" -> emitBranch(f, instr.operands)
            [] instr.opcode = "RET" -> load(1, "a0") \o <<Asm("j", <<Epilogue>>)>>
    IN [k \in DOMAIN lines |-> [lines[k] EXCEPT !.id = id]]

emitBlock(f, block) ==
    (IF block.label.role = "entry" THEN <<>>
     ELSE <<Asm("label", <<block.label>>), Asm("nop", <<>>)>>)
    \o FlattenSeq([k \in DOMAIN block.instrIDs |-> emitInstruction(f, block.instrIDs[k])])

prologue(size) ==
    <<Asm("addi", <<"sp", "sp", -size>>),
      Asm("sw", <<"ra", size - SavedRA, "sp">>),
      Asm("sw", <<"s0", size - SavedFP, "sp">>),
      Asm("addi", <<"s0", "sp", size>>)>>
epilogue(size) ==
    <<Asm("label", <<Epilogue>>),
      Asm("lw", <<"ra", size - SavedRA, "sp">>),
      Asm("lw", <<"s0", size - SavedFP, "sp">>),
      Asm("addi", <<"sp", "sp", size>>),
      Asm("ret", <<>>)>>

emitFunction(f) ==
    LET size == totalFrameSize(Len(f.instructions))
    IN prologue(size)
       \o FlattenSeq([b \in DOMAIN f.blocks |-> emitBlock(f, f.blocks[b])])
       \o epilogue(size)

\* What emitInstruction reads with .at(), which throws: the operands that it
\* loads or jumps to.  `ret void` has none; nine parameters are unimplemented.
Needed(instr) ==
    CASE instr.opcode = "ALLOCA" -> 0
      [] instr.opcode = "BR" -> Len(instr.operands)
      [] instr.opcode \in {"LOAD", "RET"} -> 1
      [] OTHER -> 2
Loadable(f, globals, v) == InArena(f, globals, v) /\ (v.kind = "PARAM" => v.id < 8)
Emittable(f, globals) ==
    \A b \in BlockIDs(f) : \A id \in InstrIDs(f) : Lists(f, b, id) =>
        \A k \in 1 .. Needed(Instr(f, id)) :
            /\ k \in DOMAIN Instr(f, id).operands
            /\ Loadable(f, globals, Instr(f, id).operands[k])
=============================================================================
