----------------------------- MODULE IRGenProofs -----------------------------
(***************************************************************************)
(* Proofs about IRGen, for every set of names, literals and operators and  *)
(* programs of any size: the invariant IndInv is inductive, so the types   *)
(* of the state and OperandsInArena hold in every reachable state.         *)
(***************************************************************************)
EXTENDS IRGenProps, SequenceTheorems, WellFoundedInduction, TLAPS

-----------------------------------------------------------------------------
(* Growing a function *)

\* g holds everything f holds, but for the targets of f's branches.
ArenasGrow(f, g) ==
    /\ Len(f.instructions) <= Len(g.instructions)
    /\ Len(f.params) <= Len(g.params)
    /\ Len(f.consts) <= Len(g.consts)
    /\ Len(f.blocks) <= Len(g.blocks)
Extends(f, g) ==
    /\ ArenasGrow(f, g)
    /\ \A id \in InstrIDs(f) :
         /\ Len(Instr(g, id).operands) = Len(Instr(f, id).operands)
         /\ \A k \in DOMAIN Instr(f, id).operands :
              Instr(g, id).operands[k].kind = Instr(f, id).operands[k].kind

\* The fields of a function and the elements of its arenas.
LEMMA FunctionFields ==
    ASSUME NEW f \in FunctionType
    PROVE  /\ f.instructions \in Seq(LLVMInstruction)
           /\ f.blocks \in Seq(LLVMBasicBlock)
           /\ f.params \in Seq(Names)
           /\ f.consts \in Seq(Literals \cup {0})
           /\ Len(f.instructions) \in Nat /\ Len(f.blocks) \in Nat
           /\ Len(f.params) \in Nat /\ Len(f.consts) \in Nat
BY DEF FunctionType, LLVMFunction

\* An instruction of a function is well-typed, and so are its operands.
LEMMA InstrFields ==
    ASSUME NEW f \in FunctionType, NEW id \in InstrIDs(f)
    PROVE  /\ Instr(f, id) \in LLVMInstruction
           /\ Instr(f, id).operands \in Seq(LLVMValueID)
           /\ DOMAIN Instr(f, id).operands = 1 .. Len(Instr(f, id).operands)
           /\ \A k \in DOMAIN Instr(f, id).operands :
                Instr(f, id).operands[k] \in LLVMValueID
<1>1. f.instructions \in Seq(LLVMInstruction) /\ id + 1 \in 1 .. Len(f.instructions)
  BY FunctionFields DEF InstrIDs, LastInstr
<1>2. Instr(f, id) \in LLVMInstruction
  BY <1>1 DEF Instr
<1> QED
  BY <1>2 DEF LLVMInstruction

\* Pushing an instruction changes only the instruction arena.
LEMMA AddInstrShape ==
    ASSUME NEW f \in FunctionType, NEW instr \in LLVMInstruction
    PROVE  LET g == AddInstr(f, instr)
           IN /\ g \in FunctionType
              /\ g.instructions = Append(f.instructions, instr)
              /\ g.params = f.params /\ g.consts = f.consts
              /\ g.blocks = f.blocks
<1>1. Append(f.instructions, instr) \in Seq(LLVMInstruction)
  BY FunctionFields
<1> QED
  BY <1>1 DEF AddInstr, FunctionType, LLVMFunction

\* _emitInstr pushes the instruction and lists its id in the last block.
LEMMA EmitInstrShape ==
    ASSUME NEW f \in FunctionType, f.blocks # <<>>, NEW instr \in LLVMInstruction
    PROVE  LET g == EmitInstr(f, instr)
           IN /\ g \in FunctionType
              /\ g.instructions = Append(f.instructions, instr)
              /\ g.params = f.params /\ g.consts = f.consts
              /\ Len(g.blocks) = Len(f.blocks)
<1> DEFINE block == [f.blocks[Len(f.blocks)] EXCEPT
                        !.instrIDs = Append(@, Len(f.instructions))]
           blocks == [f.blocks EXCEPT ![Len(f.blocks)] = block]
<1>1. Append(f.instructions, instr) \in Seq(LLVMInstruction)
  BY FunctionFields
<1>2. blocks \in Seq(LLVMBasicBlock) /\ Len(blocks) = Len(f.blocks)
  <2>1. /\ f.blocks \in Seq(LLVMBasicBlock) /\ Len(f.blocks) \in 1 .. Len(f.blocks)
        /\ f.blocks[Len(f.blocks)] \in LLVMBasicBlock
    BY FunctionFields
  <2>2. Append(f.blocks[Len(f.blocks)].instrIDs, Len(f.instructions)) \in Seq(Nat)
    BY <2>1, FunctionFields DEF LLVMBasicBlock
  <2>3. block \in LLVMBasicBlock
    BY <2>1, <2>2 DEF LLVMBasicBlock
  <2> HIDE DEF block
  <2> QED
    BY <2>1, <2>3, ExceptSeq
<1>3. EmitInstr(f, instr) = [f EXCEPT !.instructions = Append(@, instr), !.blocks = blocks]
  BY DEF EmitInstr, FunctionType, LLVMFunction
<1> HIDE DEF blocks
<1> QED
  BY <1>1, <1>2, <1>3 DEF FunctionType, LLVMFunction

\* _createBlock only pushes an empty block.
LEMMA CreateBlockShape ==
    ASSUME NEW f \in FunctionType, NEW role \in LabelRole, NEW id \in Nat
    PROVE  LET g == CreateBlock(f, role, id)
           IN /\ g \in FunctionType
              /\ g.instructions = f.instructions
              /\ g.params = f.params /\ g.consts = f.consts
              /\ Len(g.blocks) = Len(f.blocks) + 1
<1> DEFINE block == [label |-> [role |-> role, id |-> id], instrIDs |-> <<>>]
<1>1. block \in LLVMBasicBlock
  BY DEF LLVMBasicBlock, Label
<1>2. Append(f.blocks, block) \in Seq(LLVMBasicBlock)
      /\ Len(Append(f.blocks, block)) = Len(f.blocks) + 1
  BY <1>1, FunctionFields
<1> QED
  BY <1>2 DEF CreateBlock, FunctionType, LLVMFunction

\* The instructions of g are those of f, with operand k of one retargeted.
Patched(f, g, id, k, target) ==
    \A i \in InstrIDs(f) :
        /\ DOMAIN Instr(g, i).operands = DOMAIN Instr(f, i).operands
        /\ Len(Instr(g, i).operands) = Len(Instr(f, i).operands)
        /\ \A l \in DOMAIN Instr(f, i).operands :
             Instr(g, i).operands[l] =
               IF i = id /\ l = k + 1
               THEN [Instr(f, i).operands[l] EXCEPT !.id = target]
               ELSE Instr(f, i).operands[l]

\* Patching a branch changes the id of one operand of one instruction.
LEMMA PatchOperandShape ==
    ASSUME NEW f \in FunctionType, NEW id \in InstrIDs(f), NEW target \in Nat,
           NEW k \in Nat, k + 1 \in DOMAIN Instr(f, id).operands
    PROVE  LET g == PatchOperand(f, id, k, target)
           IN /\ g \in FunctionType
              /\ Len(g.instructions) = Len(f.instructions)
              /\ g.params = f.params /\ g.consts = f.consts
              /\ g.blocks = f.blocks
              /\ Patched(f, g, id, k, target)
<1> DEFINE operands == [Instr(f, id).operands EXCEPT ![k + 1] = [@ EXCEPT !.id = target]]
           instr == [Instr(f, id) EXCEPT !.operands = operands]
           instructions == [f.instructions EXCEPT ![id + 1] = instr]
<1>1. operands \in Seq(LLVMValueID) /\ Len(operands) = Len(Instr(f, id).operands)
  <2>1. /\ Instr(f, id).operands \in Seq(LLVMValueID)
        /\ k + 1 \in 1 .. Len(Instr(f, id).operands)
        /\ Instr(f, id).operands[k + 1] \in LLVMValueID
    BY InstrFields
  <2>2. [Instr(f, id).operands[k + 1] EXCEPT !.id = target] \in LLVMValueID
    BY <2>1 DEF LLVMValueID
  <2> QED
    BY <2>1, <2>2, ExceptSeq
<1>2. instr \in LLVMInstruction
  <2> HIDE DEF operands
  <2> QED
    BY <1>1, InstrFields DEF LLVMInstruction
<1>3. /\ f.instructions \in Seq(LLVMInstruction)
      /\ id + 1 \in 1 .. Len(f.instructions)
  BY FunctionFields DEF InstrIDs, LastInstr
<1>4. /\ instructions \in Seq(LLVMInstruction)
      /\ Len(instructions) = Len(f.instructions)
      /\ \A j \in 1 .. Len(f.instructions) :
           instructions[j] = IF j = id + 1 THEN instr ELSE f.instructions[j]
  <2> HIDE DEF instr
  <2> QED
    BY <1>2, <1>3, ExceptSeq
<1>5. PatchOperand(f, id, k, target) = [f EXCEPT !.instructions = instructions]
  BY DEF PatchOperand, Instr
<1>6. /\ PatchOperand(f, id, k, target) \in FunctionType
      /\ PatchOperand(f, id, k, target).instructions = instructions
      /\ PatchOperand(f, id, k, target).params = f.params
      /\ PatchOperand(f, id, k, target).consts = f.consts
      /\ PatchOperand(f, id, k, target).blocks = f.blocks
  <2> HIDE DEF instructions
  <2> QED
    BY <1>4, <1>5 DEF FunctionType, LLVMFunction
<1>7. \A i \in InstrIDs(f) :
        Instr(PatchOperand(f, id, k, target), i) = IF i = id THEN instr ELSE Instr(f, i)
  BY <1>4, <1>6, <1>3, FunctionFields DEF Instr, InstrIDs, LastInstr
<1>8. instr.operands = operands
  BY InstrFields DEF LLVMInstruction
<1> HIDE DEF instr, instructions
<1>9. \A i \in InstrIDs(f) :
        /\ DOMAIN Instr(PatchOperand(f, id, k, target), i).operands = DOMAIN Instr(f, i).operands
        /\ Len(Instr(PatchOperand(f, id, k, target), i).operands) = Len(Instr(f, i).operands)
        /\ \A l \in DOMAIN Instr(f, i).operands :
             Instr(PatchOperand(f, id, k, target), i).operands[l] =
               IF i = id /\ l = k + 1
               THEN [Instr(f, i).operands[l] EXCEPT !.id = target]
               ELSE Instr(f, i).operands[l]
  BY <1>7, <1>8, <1>1, InstrFields
<1> QED
  BY <1>4, <1>6, <1>9 DEF Patched

-----------------------------------------------------------------------------
(* Growing a function keeps its operands in their arenas *)

\* A function under construction whose operands are all in their arenas.
Sound(f, globals) ==
    /\ f \in FunctionType /\ f.blocks # <<>> /\ f.consts # <<>>
    /\ FunctionOK(f, globals)
Grows(f, g, globals) == Sound(g, globals) /\ Extends(f, g)

\* Arenas that grow twice have grown.
LEMMA ArenasGrowTransitive ==
    ASSUME NEW f \in FunctionType, NEW g \in FunctionType, NEW h \in FunctionType,
           ArenasGrow(f, g), ArenasGrow(g, h)
    PROVE  ArenasGrow(f, h)
<1>1. Len(f.instructions) <= Len(h.instructions)
  BY FunctionFields DEF ArenasGrow
<1>2. Len(f.params) <= Len(h.params)
  BY FunctionFields DEF ArenasGrow
<1>3. Len(f.consts) <= Len(h.consts)
  BY FunctionFields DEF ArenasGrow
<1>4. Len(f.blocks) <= Len(h.blocks)
  BY FunctionFields DEF ArenasGrow
<1> QED
  BY <1>1, <1>2, <1>3, <1>4 DEF ArenasGrow

\* A function that has grown still has its entry block and constant 0.
LEMMA NonEmptyGrow ==
    ASSUME NEW f \in FunctionType, NEW g \in FunctionType, ArenasGrow(f, g),
           f.blocks # <<>>, f.consts # <<>>
    PROVE  g.blocks # <<>> /\ g.consts # <<>>
<1>1. Len(f.blocks) > 0
  BY FunctionFields
<1>2. Len(f.consts) > 0
  BY FunctionFields
<1>3. Len(g.blocks) > 0
  BY <1>1, FunctionFields DEF ArenasGrow
<1>4. Len(g.consts) > 0
  BY <1>2, FunctionFields DEF ArenasGrow
<1> QED
  BY <1>3, <1>4, FunctionFields

\* An operand that can be looked up still can be once the arenas have grown.
LEMMA OperandMonotone ==
    ASSUME NEW f \in FunctionType, NEW g \in FunctionType, ArenasGrow(f, g),
           NEW gs, NEW hs, Len(gs) \in Nat, Len(hs) \in Nat, Len(gs) <= Len(hs),
           NEW i \in Nat, NEW v \in LLVMValueID, OperandOK(f, gs, i, v)
    PROVE  OperandOK(g, hs, i, v)
<1>1. v.id \in Int
  BY DEF LLVMValueID, NPos
<1>2. CASE v.kind = "INSTR"
  BY <1>1, <1>2, FunctionFields DEF OperandOK, InArena, ArenasGrow
<1>3. CASE v.kind = "PARAM"
  BY <1>1, <1>3, FunctionFields DEF OperandOK, InArena, ArenasGrow, Value
<1>4. CASE v.kind = "CONST"
  BY <1>1, <1>4, FunctionFields DEF OperandOK, InArena, ArenasGrow, Value
<1>5. CASE v.kind = "BLOCK"
  BY <1>1, <1>5, FunctionFields DEF OperandOK, InArena, ArenasGrow, Value
<1>6. CASE v.kind = "GLOBAL"
  BY <1>1, <1>6 DEF OperandOK, InArena, Value
<1> QED
  BY <1>2, <1>3, <1>4, <1>5, <1>6 DEF LLVMValueID, LLVMValueKind

\* Extending a function twice extends it.
LEMMA ExtendsTransitive ==
    ASSUME NEW f \in FunctionType, NEW g \in FunctionType, NEW h \in FunctionType,
           Extends(f, g), Extends(g, h)
    PROVE  Extends(f, h)
<1>1. InstrIDs(f) \subseteq InstrIDs(g)
  BY FunctionFields DEF Extends, ArenasGrow, InstrIDs, LastInstr
<1>2. ArenasGrow(f, h)
  BY ArenasGrowTransitive DEF Extends
<1>3. ASSUME NEW id \in InstrIDs(f)
      PROVE  /\ Len(Instr(h, id).operands) = Len(Instr(f, id).operands)
             /\ \A k \in DOMAIN Instr(f, id).operands :
                  Instr(h, id).operands[k].kind = Instr(f, id).operands[k].kind
  <2>1. id \in InstrIDs(g)
    BY <1>1
  <2>2. DOMAIN Instr(f, id).operands = DOMAIN Instr(g, id).operands
    BY <2>1, InstrFields DEF Extends
  <2> QED
    BY <2>1, <2>2 DEF Extends
<1> QED
  BY <1>2, <1>3 DEF Extends

\* One instruction more, whose operands are in the arenas.
LEMMA AppendInstr ==
    ASSUME NEW f \in FunctionType, NEW g \in FunctionType, NEW instr \in LLVMInstruction,
           g.instructions = Append(f.instructions, instr),
           ArenasGrow(f, g)
    PROVE  /\ Extends(f, g)
           /\ InstrIDs(g) = InstrIDs(f) \cup {Len(f.instructions)}
           /\ \A id \in InstrIDs(f) : Instr(g, id) = Instr(f, id)
           /\ Instr(g, Len(f.instructions)) = instr
<1>1. /\ Len(g.instructions) = Len(f.instructions) + 1
      /\ \A j \in 1 .. Len(f.instructions) : g.instructions[j] = f.instructions[j]
      /\ g.instructions[Len(f.instructions) + 1] = instr
  BY FunctionFields, AppendProperties
<1>2. InstrIDs(g) = InstrIDs(f) \cup {Len(f.instructions)}
  BY <1>1, FunctionFields DEF InstrIDs, LastInstr
<1>3. \A id \in InstrIDs(f) : Instr(g, id) = Instr(f, id)
  BY <1>1, FunctionFields DEF InstrIDs, LastInstr, Instr
<1>4. Instr(g, Len(f.instructions)) = instr
  BY <1>1 DEF Instr
<1> QED
  BY <1>1, <1>2, <1>3, <1>4, FunctionFields DEF Extends

\* Pushing an instruction with good operands keeps every operand in its
\* arena.
LEMMA AppendSound ==
    ASSUME NEW gs, Len(gs) \in Nat, NEW f, Sound(f, gs), NEW g \in FunctionType,
           NEW instr \in LLVMInstruction,
           g.instructions = Append(f.instructions, instr),
           ArenasGrow(f, g),
           \A k \in DOMAIN instr.operands :
               OperandOK(f, gs, Len(f.instructions), instr.operands[k])
    PROVE  Grows(f, g, gs)
<1>1. /\ f \in FunctionType /\ FunctionOK(f, gs)
      /\ f.blocks # <<>> /\ f.consts # <<>>
  BY DEF Sound
<1>2. /\ Extends(f, g)
      /\ InstrIDs(g) = InstrIDs(f) \cup {Len(f.instructions)}
      /\ \A id \in InstrIDs(f) : Instr(g, id) = Instr(f, id)
      /\ Instr(g, Len(f.instructions)) = instr
  BY <1>1, AppendInstr
<1>3. ASSUME NEW i \in InstrIDs(g), NEW k \in DOMAIN Instr(g, i).operands
      PROVE  OperandOK(g, gs, i, Instr(g, i).operands[k])
  <2>1. Instr(g, i).operands[k] \in LLVMValueID /\ i \in Nat
    BY InstrFields, FunctionFields DEF InstrIDs, LastInstr
  <2>2. OperandOK(f, gs, i, Instr(g, i).operands[k])
    <3>1. CASE i \in InstrIDs(f)
      BY <3>1, <1>1, <1>2 DEF FunctionOK
    <3>2. CASE i = Len(f.instructions)
      BY <3>2, <1>2
    <3> QED
      BY <3>1, <3>2, <1>2
  <2> QED
    BY <2>1, <2>2, <1>1, <1>2, OperandMonotone
<1>4. g.blocks # <<>> /\ g.consts # <<>>
  BY <1>1, NonEmptyGrow
<1> QED
  BY <1>2, <1>3, <1>4 DEF Grows, Sound, FunctionOK

\* Emitting an instruction with good operands keeps every operand in its
\* arena.
LEMMA EmitSound ==
    ASSUME NEW gs, Len(gs) \in Nat, NEW f, Sound(f, gs), NEW instr \in LLVMInstruction,
           \A k \in DOMAIN instr.operands :
               OperandOK(f, gs, Len(f.instructions), instr.operands[k])
    PROVE  /\ Grows(f, EmitInstr(f, instr), gs)
           /\ Len(EmitInstr(f, instr).instructions) = Len(f.instructions) + 1
           /\ Instr(EmitInstr(f, instr), Len(f.instructions)) = instr
<1> DEFINE g == EmitInstr(f, instr)
<1>1. f \in FunctionType /\ f.blocks # <<>>
  BY DEF Sound
<1>2. /\ g \in FunctionType
      /\ g.instructions = Append(f.instructions, instr)
      /\ g.params = f.params /\ g.consts = f.consts
      /\ Len(g.blocks) = Len(f.blocks)
  BY <1>1, EmitInstrShape
<1> HIDE DEF g
<1>3. ArenasGrow(f, g)
  BY <1>1, <1>2, FunctionFields DEF ArenasGrow
<1>4. Grows(f, g, gs)
  BY <1>2, <1>3, AppendSound
<1>5. Instr(g, Len(f.instructions)) = instr /\ Len(g.instructions) = Len(f.instructions) + 1
  BY <1>1, <1>2, FunctionFields, AppendProperties DEF Instr
<1> QED
  BY <1>4, <1>5 DEF g

-----------------------------------------------------------------------------
(* What each builder of IRGen does to a sound function *)

\* Two sound steps of a handler are one.
LEMMA GrowsTransitive ==
    ASSUME NEW gs, NEW f, NEW g, NEW h, Sound(f, gs), Grows(f, g, gs), Grows(g, h, gs)
    PROVE  Grows(f, h, gs)
BY ExtendsTransitive DEF Grows, Sound

\* A handler that does nothing is sound.
LEMMA GrowsReflexive ==
    ASSUME NEW gs, NEW f, Sound(f, gs)
    PROVE  Grows(f, f, gs)
BY FunctionFields DEF Grows, Sound, Extends, ArenasGrow

\* The result of any instruction so far, or a wrapped index, is an operand.
LEMMA SavedOperand ==
    ASSUME NEW gs, NEW f, Sound(f, gs), NEW id \in NPos .. LastInstr(f)
    PROVE  /\ Value("INSTR", id) \in LLVMValueID
           /\ OperandOK(f, gs, Len(f.instructions), Value("INSTR", id))
<1>1. Len(f.instructions) \in Nat /\ id \in Int
  BY FunctionFields DEF Sound, LastInstr, NPos
<1> QED
  BY <1>1 DEF LLVMValueID, LLVMValueKind, Value, NPos, LastInstr, OperandOK, InArena

\* `instructions.size() - 1` is a good operand of the next instruction.
LEMMA LatestOperand ==
    ASSUME NEW gs, NEW f, Sound(f, gs)
    PROVE  /\ LastInstr(f) \in NPos .. LastInstr(f)
           /\ Value("INSTR", LastInstr(f)) \in LLVMValueID
           /\ OperandOK(f, gs, Len(f.instructions), Value("INSTR", LastInstr(f)))
<1>1. LastInstr(f) \in NPos .. LastInstr(f)
  BY FunctionFields DEF Sound, LastInstr, NPos
<1> QED
  BY <1>1, SavedOperand

\* Constant 0 is a good operand of every instruction.
LEMMA ConstantZero ==
    ASSUME NEW gs, NEW f, Sound(f, gs)
    PROVE  /\ Value("CONST", 0) \in LLVMValueID
           /\ OperandOK(f, gs, Len(f.instructions), Value("CONST", 0))
<1>1. 0 \in 0 .. Len(f.consts) - 1
  BY FunctionFields DEF Sound
<1> QED
  BY <1>1 DEF LLVMValueID, LLVMValueKind, Value, OperandOK, InArena

\* An instruction that compares nothing is well-typed.
LEMMA InstructionType ==
    ASSUME NEW opcode \in LLVMOpcode, NEW type \in LLVMType,
           NEW operands \in Seq(LLVMValueID)
    PROVE  /\ Instruction(opcode, type, operands) \in LLVMInstruction
           /\ Instruction(opcode, type, operands).operands = operands
           /\ Instruction(opcode, type, operands).type = type
BY DEF Instruction, LLVMInstruction, LLVMCmpCond

\* Emitting an instruction without operands is sound.
LEMMA EmitNullary ==
    ASSUME NEW gs, Len(gs) \in Nat, NEW f, Sound(f, gs),
           NEW opcode \in LLVMOpcode, NEW type \in LLVMType
    PROVE  Grows(f, EmitInstr(f, Instruction(opcode, type, <<>>)), gs)
<1>1. <<>> \in Seq(LLVMValueID) /\ DOMAIN <<>> = {}
  OBVIOUS
<1>2. Instruction(opcode, type, <<>>) \in LLVMInstruction
      /\ Instruction(opcode, type, <<>>).operands = <<>>
  BY <1>1 DEF Instruction, LLVMInstruction, LLVMCmpCond
<1> QED
  BY <1>1, <1>2, EmitSound

\* Emitting an instruction with one good operand is sound.
LEMMA EmitUnary ==
    ASSUME NEW gs, Len(gs) \in Nat, NEW f, Sound(f, gs),
           NEW opcode \in LLVMOpcode, NEW type \in LLVMType, NEW v \in LLVMValueID,
           OperandOK(f, gs, Len(f.instructions), v)
    PROVE  LET instr == Instruction(opcode, type, <<v>>)
           IN /\ Grows(f, EmitInstr(f, instr), gs)
              /\ Len(EmitInstr(f, instr).instructions) = Len(f.instructions) + 1
              /\ Instr(EmitInstr(f, instr), Len(f.instructions)) = instr
              /\ instr.type = type /\ instr.operands = <<v>>
<1>1. <<v>> \in Seq(LLVMValueID)
  OBVIOUS
<1>2. DOMAIN <<v>> = {1} /\ <<v>>[1] = v
  OBVIOUS
<1>3. Instruction(opcode, type, <<v>>) \in LLVMInstruction
      /\ Instruction(opcode, type, <<v>>).operands = <<v>>
      /\ Instruction(opcode, type, <<v>>).type = type
  BY <1>1, InstructionType
<1> QED
  BY <1>2, <1>3, EmitSound

\* Emitting an instruction with two good operands is sound.
LEMMA EmitBinary ==
    ASSUME NEW gs, Len(gs) \in Nat, NEW f, Sound(f, gs),
           NEW v \in LLVMValueID, OperandOK(f, gs, Len(f.instructions), v),
           NEW w \in LLVMValueID, OperandOK(f, gs, Len(f.instructions), w),
           NEW instr \in LLVMInstruction, instr.operands = <<v, w>>
    PROVE  /\ Grows(f, EmitInstr(f, instr), gs)
           /\ Len(EmitInstr(f, instr).instructions) = Len(f.instructions) + 1
           /\ Instr(EmitInstr(f, instr), Len(f.instructions)) = instr
<1>1. DOMAIN <<v, w>> = {1, 2} /\ <<v, w>>[1] = v /\ <<v, w>>[2] = w
  OBVIOUS
<1> QED
  BY <1>1, EmitSound

\* An instruction on two operands is well-typed.
LEMMA PairInstruction ==
    ASSUME NEW opcode \in LLVMOpcode, NEW type \in LLVMType,
           NEW v \in LLVMValueID, NEW w \in LLVMValueID
    PROVE  /\ Instruction(opcode, type, <<v, w>>) \in LLVMInstruction
           /\ Instruction(opcode, type, <<v, w>>).operands = <<v, w>>
           /\ Instruction(opcode, type, <<v, w>>).type = type
<1>1. <<v, w>> \in Seq(LLVMValueID)
  OBVIOUS
<1> QED
  BY <1>1, InstructionType

\* Changing no instruction while arenas grow.
LEMMA SameInstructions ==
    ASSUME NEW gs, Len(gs) \in Nat, NEW f, Sound(f, gs), NEW g \in FunctionType,
           g.instructions = f.instructions, ArenasGrow(f, g)
    PROVE  Grows(f, g, gs)
<1>1. f \in FunctionType /\ FunctionOK(f, gs) /\ f.blocks # <<>> /\ f.consts # <<>>
  BY DEF Sound
<1>2. \A id : Instr(g, id) = Instr(f, id)
  BY DEF Instr
<1>3. InstrIDs(g) = InstrIDs(f)
  BY DEF InstrIDs, LastInstr
<1>4. Extends(f, g)
  BY <1>2 DEF Extends
<1>5. ASSUME NEW i \in InstrIDs(g), NEW k \in DOMAIN Instr(g, i).operands
      PROVE  OperandOK(g, gs, i, Instr(g, i).operands[k])
  <2>1. Instr(g, i).operands[k] \in LLVMValueID /\ i \in Nat
    BY InstrFields, FunctionFields DEF InstrIDs, LastInstr
  <2>2. OperandOK(f, gs, i, Instr(g, i).operands[k])
    BY <1>1, <1>2, <1>3 DEF FunctionOK
  <2> QED
    BY <2>1, <2>2, <1>1, OperandMonotone
<1>6. g.blocks # <<>> /\ g.consts # <<>>
  BY <1>1, NonEmptyGrow
<1> QED
  BY <1>4, <1>5, <1>6 DEF Grows, Sound, FunctionOK

\* Creating a block is sound.
LEMMA CreateBlockSound ==
    ASSUME NEW gs, Len(gs) \in Nat, NEW f, Sound(f, gs),
           NEW role \in LabelRole, NEW id \in Nat
    PROVE  /\ Grows(f, CreateBlock(f, role, id), gs)
           /\ LastBlock(CreateBlock(f, role, id)) \in BlockIDs(CreateBlock(f, role, id))
<1> DEFINE g == CreateBlock(f, role, id)
<1>1. f \in FunctionType
  BY DEF Sound
<1>2. /\ g \in FunctionType
      /\ g.instructions = f.instructions
      /\ g.params = f.params /\ g.consts = f.consts
      /\ Len(g.blocks) = Len(f.blocks) + 1
  BY <1>1, CreateBlockShape
<1> HIDE DEF g
<1>3. ArenasGrow(f, g)
  BY <1>1, <1>2, FunctionFields DEF ArenasGrow
<1>4. LastBlock(g) \in BlockIDs(g)
  BY <1>1, <1>2, FunctionFields DEF LastBlock, BlockIDs
<1> QED
  BY <1>2, <1>3, <1>4, SameInstructions DEF g

\* Patching a branch target with an existing block is sound.
LEMMA PatchSound ==
    ASSUME NEW gs, Len(gs) \in Nat, NEW f, Sound(f, gs),
           NEW id, NEW k \in Nat, BranchTo(f, id, k + 1), NEW target \in BlockIDs(f)
    PROVE  /\ Grows(f, PatchOperand(f, id, k, target), gs)
           /\ PatchOperand(f, id, k, target).blocks = f.blocks
<1> DEFINE g == PatchOperand(f, id, k, target)
<1>1. /\ f \in FunctionType /\ FunctionOK(f, gs)
      /\ f.blocks # <<>> /\ f.consts # <<>>
      /\ id \in InstrIDs(f) /\ k + 1 \in DOMAIN Instr(f, id).operands
      /\ Instr(f, id).operands[k + 1].kind = "BLOCK"
      /\ target \in Nat /\ target \in 0 .. Len(f.blocks) - 1
  BY FunctionFields DEF Sound, BranchTo, BlockIDs, LastBlock
<1>2. /\ g \in FunctionType
      /\ Len(g.instructions) = Len(f.instructions)
      /\ g.params = f.params /\ g.consts = f.consts
      /\ g.blocks = f.blocks
  BY <1>1, PatchOperandShape
<1>3. Patched(f, g, id, k, target)
  BY <1>1, PatchOperandShape
<1> HIDE DEF g
<1>4. ArenasGrow(f, g)
  BY <1>1, <1>2, FunctionFields DEF ArenasGrow
<1>5. InstrIDs(g) = InstrIDs(f)
  BY <1>2 DEF InstrIDs, LastInstr
<1>6. ASSUME NEW i \in InstrIDs(f), NEW l \in DOMAIN Instr(f, i).operands
      PROVE  /\ Instr(g, i).operands[l].kind = Instr(f, i).operands[l].kind
             /\ OperandOK(g, gs, i, Instr(g, i).operands[l])
  <2>1. Instr(f, i).operands[l] \in LLVMValueID /\ i \in Nat
    BY <1>1, InstrFields, FunctionFields DEF InstrIDs, LastInstr
  <2>2. OperandOK(f, gs, i, Instr(f, i).operands[l])
    BY <1>1 DEF FunctionOK
  <2>3. CASE i = id /\ l = k + 1
    <3>1. /\ Instr(g, i).operands[l].kind = "BLOCK"
          /\ Instr(g, i).operands[l].id = target
      BY <2>1, <2>3, <1>1, <1>3 DEF LLVMValueID, Patched
    <3> QED
      BY <3>1, <2>3, <1>1, <1>2 DEF OperandOK, InArena
  <2>4. CASE ~(i = id /\ l = k + 1)
    <3>1. Instr(g, i).operands[l] = Instr(f, i).operands[l]
      BY <2>4, <1>3 DEF Patched
    <3> QED
      BY <3>1, <2>1, <2>2, <1>1, <1>2, <1>4, OperandMonotone
  <2> QED
    BY <2>3, <2>4
<1>7. Extends(f, g)
  BY <1>3, <1>4, <1>6 DEF Extends, Patched
<1>8. FunctionOK(g, gs)
  BY <1>3, <1>5, <1>6 DEF FunctionOK, Patched
<1> QED
  BY <1>1, <1>2, <1>7, <1>8 DEF Grows, Sound, g

\* toLLVMType is defined on every C type.
LEMMA ToLLVMType == \A t \in CType : toLLVMType(t) \in LLVMType
BY DEF CType, toLLVMType, LLVMTypeOf, LLVMType

\* getPromotedType returns one of its arguments' types.
LEMMA Promotion ==
    ASSUME NEW lhs \in CType, NEW rhs \in CType
    PROVE  PromotedType(lhs, rhs) \in CType
BY DEF PromotedType

\* The instruction of a binary operator is well-typed and uses its two sides.
LEMMA BinaryInstrType ==
    ASSUME NEW op \in BinaryOperator, NEW type \in CType, NEW lhs, NEW rhs,
           Value("INSTR", lhs) \in LLVMValueID, Value("INSTR", rhs) \in LLVMValueID
    PROVE  /\ BinaryInstr(op, lhs, rhs, type) \in LLVMInstruction
           /\ BinaryInstr(op, lhs, rhs, type).operands =
                <<Value("INSTR", lhs), Value("INSTR", rhs)>>
<1> DEFINE operands == <<Value("INSTR", lhs), Value("INSTR", rhs)>>
<1>1. operands \in Seq(LLVMValueID)
  OBVIOUS
<1>2. CASE op \in AddMultOperator
  <2>1. BinaryInstr(op, lhs, rhs, type) = AddMultInstr(op, lhs, rhs, type)
    BY <1>2 DEF BinaryInstr, AddMultOperator, BitwiseOperator
  <2> DEFINE opcode == CASE op = "+" -> "ADD"  [] op = "-" -> "SUB" [] op = "*" -> "MUL"
                         [] op = "/" -> "SDIV" [] OTHER -> "SREM"
  <2>2. opcode \in LLVMOpcode
    BY DEF LLVMOpcode
  <2>3. AddMultInstr(op, lhs, rhs, type) = Instruction(opcode, toLLVMType(type), operands)
    BY DEF AddMultInstr
  <2> HIDE DEF opcode, operands
  <2>4. /\ Instruction(opcode, toLLVMType(type), operands) \in LLVMInstruction
        /\ Instruction(opcode, toLLVMType(type), operands).operands = operands
    BY <1>1, <2>2, ToLLVMType, InstructionType
  <2> QED
    BY <2>1, <2>3, <2>4 DEF operands
<1>3. CASE op \in BitwiseOperator
  <2>1. BinaryInstr(op, lhs, rhs, type) = BitwiseInstr(op, lhs, rhs, type)
    BY <1>3 DEF BinaryInstr, AddMultOperator, BitwiseOperator
  <2> DEFINE opcode == CASE op = "&" -> "AND" [] op = "|" -> "OR" [] OTHER -> "XOR"
  <2>2. opcode \in LLVMOpcode
    BY DEF LLVMOpcode
  <2>3. BitwiseInstr(op, lhs, rhs, type) = Instruction(opcode, toLLVMType(type), operands)
    BY DEF BitwiseInstr
  <2> HIDE DEF opcode, operands
  <2>4. /\ Instruction(opcode, toLLVMType(type), operands) \in LLVMInstruction
        /\ Instruction(opcode, toLLVMType(type), operands).operands = operands
    BY <1>1, <2>2, ToLLVMType, InstructionType
  <2> QED
    BY <2>1, <2>3, <2>4 DEF operands
<1>4. CASE op \in EqualityOperator
  <2>1. BinaryInstr(op, lhs, rhs, type) = EqualityInstr(op, lhs, rhs)
    BY <1>4 DEF BinaryInstr, AddMultOperator, BitwiseOperator, EqualityOperator
  <2>2. /\ "ICMP" \in LLVMOpcode /\ "i1" \in LLVMType
        /\ (IF op = "!=" THEN "NE" ELSE "EQ") \in LLVMCmpCond
    BY DEF LLVMOpcode, LLVMType, LLVMCmpCond
  <2> QED
    BY <1>1, <2>1, <2>2 DEF EqualityInstr, LLVMInstruction
<1> QED
  BY <1>2, <1>3, <1>4 DEF BinaryOperator

\* Pushing a parameter and storing it is sound.
LEMMA AddParameterSound ==
    ASSUME NEW gs, Len(gs) \in Nat, NEW f, Sound(f, gs), NEW n \in Names
    PROVE  Grows(f, AddParameter(f, n), gs)
<1> DEFINE g == [f EXCEPT !.params = Append(@, n)]
           v == Value("PARAM", Len(f.params))
           w == Value("INSTR", LastInstr(f))
<1>1. f \in FunctionType /\ Len(f.params) \in Nat
  BY FunctionFields DEF Sound
<1>2. Append(f.params, n) \in Seq(Names) /\ Len(Append(f.params, n)) = Len(f.params) + 1
  BY <1>1, FunctionFields
<1>3. /\ g \in FunctionType
      /\ g.instructions = f.instructions /\ g.consts = f.consts /\ g.blocks = f.blocks
      /\ g.params = Append(f.params, n)
  BY <1>1, <1>2 DEF FunctionType, LLVMFunction
<1>4. AddParameter(f, n) = EmitInstr(g, Instruction("STORE", "void", <<v, w>>))
  BY DEF AddParameter
<1> HIDE DEF g
<1>5. ArenasGrow(f, g)
  BY <1>1, <1>2, <1>3, FunctionFields DEF ArenasGrow
<1>6. Grows(f, g, gs)
  BY <1>3, <1>5, SameInstructions
<1>7. v \in LLVMValueID /\ OperandOK(g, gs, Len(g.instructions), v)
  BY <1>1, <1>2, <1>3 DEF LLVMValueID, LLVMValueKind, Value, OperandOK, InArena
<1>8. w \in LLVMValueID /\ OperandOK(g, gs, Len(g.instructions), w)
  BY <1>3, <1>6, LatestOperand DEF LastInstr, Grows
<1>9. Instruction("STORE", "void", <<v, w>>) \in LLVMInstruction
      /\ Instruction("STORE", "void", <<v, w>>).operands = <<v, w>>
  <2>1. "STORE" \in LLVMOpcode /\ "void" \in LLVMType
    BY DEF LLVMOpcode, LLVMType
  <2> HIDE DEF v, w
  <2> QED
    BY <2>1, <1>7, <1>8, PairInstruction
<1>10. Grows(g, EmitInstr(g, Instruction("STORE", "void", <<v, w>>)), gs)
  <2> HIDE DEF v, w
  <2> QED
    BY <1>6, <1>7, <1>8, <1>9, EmitBinary DEF Grows
<1> QED
  BY <1>4, <1>6, <1>10, GrowsTransitive

\* Pushing a constant is sound.
LEMMA PushConstant ==
    ASSUME NEW gs, Len(gs) \in Nat, NEW f, Sound(f, gs), NEW c \in Literals
    PROVE  LET g == [f EXCEPT !.consts = Append(@, c)]
           IN /\ Grows(f, g, gs)
              /\ g.instructions = f.instructions
              /\ Value("CONST", Len(f.consts)) \in LLVMValueID
              /\ OperandOK(g, gs, Len(f.instructions), Value("CONST", Len(f.consts)))
<1> DEFINE g == [f EXCEPT !.consts = Append(@, c)]
<1>1. f \in FunctionType /\ Len(f.consts) \in Nat
  BY FunctionFields DEF Sound
<1>2. /\ Append(f.consts, c) \in Seq(Literals \cup {0})
      /\ Len(Append(f.consts, c)) = Len(f.consts) + 1
  BY <1>1, FunctionFields
<1>3. /\ g \in FunctionType
      /\ g.instructions = f.instructions /\ g.params = f.params /\ g.blocks = f.blocks
      /\ g.consts = Append(f.consts, c)
  BY <1>1, <1>2 DEF FunctionType, LLVMFunction
<1> HIDE DEF g
<1>4. ArenasGrow(f, g)
  BY <1>1, <1>2, <1>3, FunctionFields DEF ArenasGrow
<1>5. Grows(f, g, gs)
  BY <1>3, <1>4, SameInstructions
<1>6. /\ Value("CONST", Len(f.consts)) \in LLVMValueID
      /\ OperandOK(g, gs, Len(f.instructions), Value("CONST", Len(f.consts)))
  BY <1>1, <1>2, <1>3 DEF LLVMValueID, LLVMValueKind, Value, OperandOK, InArena
<1> QED
  BY <1>3, <1>5, <1>6 DEF g

\* An operand stays one as the function grows.
LEMMA OperandGrows ==
    ASSUME NEW gs, Len(gs) \in Nat, NEW f, Sound(f, gs), NEW g, Grows(f, g, gs),
           NEW v \in LLVMValueID, OperandOK(f, gs, Len(f.instructions), v)
    PROVE  OperandOK(g, gs, Len(g.instructions), v)
<1>1. f \in FunctionType /\ g \in FunctionType /\ ArenasGrow(f, g)
  BY DEF Sound, Grows, Extends
<1>2. OperandOK(g, gs, Len(f.instructions), v)
  BY <1>1, OperandMonotone, FunctionFields
<1> QED
  BY <1>1, <1>2, FunctionFields DEF OperandOK, ArenasGrow, LLVMValueID, NPos

\* The tail of visit(AssignmentExpression) is sound for all eleven operators.
LEMMA AssignSound ==
    ASSUME NEW gs, Len(gs) \in Nat, NEW f, Sound(f, gs), NEW op,
           NEW lhs \in NPos .. LastInstr(f), NEW rhs \in NPos .. LastInstr(f)
    PROVE  Grows(f, Assign(f, op, lhs, rhs), gs)
<1> DEFINE v == Value("INSTR", lhs)
           w == Value("INSTR", rhs)
           type == IF rhs = NPos THEN "void" ELSE Instr(f, rhs).type
           load == Instruction("LOAD", type, <<v>>)
           loaded == EmitInstr(f, load)
           last == Value("INSTR", LastInstr(loaded))
           operation == Instruction(CompoundOpcode(op), type, <<last, w>>)
           result == EmitInstr(loaded, operation)
           store == Instruction("STORE", "void", <<w, v>>)
           computed == IF op = "=" THEN f ELSE result
<1>1. /\ v \in LLVMValueID /\ OperandOK(f, gs, Len(f.instructions), v)
      /\ w \in LLVMValueID /\ OperandOK(f, gs, Len(f.instructions), w)
  BY SavedOperand
<1>2. type \in LLVMType
  <2>1. CASE rhs = NPos
    BY <2>1 DEF LLVMType
  <2>2. CASE rhs # NPos
    <3>1. f \in FunctionType /\ rhs \in InstrIDs(f)
      BY <2>2, FunctionFields DEF Sound, InstrIDs, LastInstr, NPos
    <3> QED
      BY <3>1, <2>2, InstrFields DEF LLVMInstruction
  <2> QED
    BY <2>1, <2>2
<1>3. /\ "LOAD" \in LLVMOpcode /\ "STORE" \in LLVMOpcode /\ "void" \in LLVMType
      /\ CompoundOpcode(op) \in LLVMOpcode
  BY DEF LLVMOpcode, LLVMType, CompoundOpcode
<1> HIDE DEF v, w, type
<1>4. Grows(f, loaded, gs)
  BY <1>1, <1>2, <1>3, EmitUnary
<1> HIDE DEF loaded
<1>5. /\ Sound(loaded, gs)
      /\ last \in LLVMValueID /\ OperandOK(loaded, gs, Len(loaded.instructions), last)
      /\ OperandOK(loaded, gs, Len(loaded.instructions), w)
  BY <1>1, <1>4, LatestOperand, OperandGrows DEF Grows
<1> HIDE DEF last
<1>6. operation \in LLVMInstruction /\ operation.operands = <<last, w>>
  BY <1>1, <1>2, <1>3, <1>5, PairInstruction
<1> HIDE DEF operation
<1>7. Grows(loaded, result, gs)
  BY <1>1, <1>5, <1>6, EmitBinary
<1>8. Grows(f, computed, gs)
  BY <1>4, <1>7, GrowsTransitive, GrowsReflexive
<1> HIDE DEF computed, result
<1>9. /\ Sound(computed, gs)
      /\ OperandOK(computed, gs, Len(computed.instructions), v)
      /\ OperandOK(computed, gs, Len(computed.instructions), w)
  BY <1>1, <1>8, OperandGrows DEF Grows
<1>10. store \in LLVMInstruction /\ store.operands = <<w, v>>
  BY <1>1, <1>3, PairInstruction
<1> HIDE DEF store
<1>11. Grows(computed, EmitInstr(computed, store), gs)
  BY <1>1, <1>9, <1>10, EmitBinary
<1>12. Assign(f, op, lhs, rhs) = EmitInstr(computed, store)
  BY DEF Assign, computed, result, operation, last, loaded, store, v, w, type
<1> QED
  BY <1>8, <1>11, <1>12, GrowsTransitive

\* A branch stays a branch while the function grows.
LEMMA BranchGrows ==
    ASSUME NEW f \in FunctionType, NEW g \in FunctionType, Extends(f, g),
           NEW id, NEW k, BranchTo(f, id, k)
    PROVE  BranchTo(g, id, k)
<1>1. id \in InstrIDs(f) /\ id \in InstrIDs(g)
  BY FunctionFields DEF BranchTo, Extends, ArenasGrow, InstrIDs, LastInstr
<1>2. DOMAIN Instr(g, id).operands = DOMAIN Instr(f, id).operands
  BY <1>1, InstrFields DEF Extends
<1> QED
  BY <1>1, <1>2 DEF BranchTo, Extends

\* A branch to block 0, the entry block, which is there.
LEMMA EmitJumpEnd ==
    ASSUME NEW gs, Len(gs) \in Nat, NEW f, Sound(f, gs)
    PROVE  LET g == EmitInstr(f, JumpEnd)
           IN /\ Grows(f, g, gs)
              /\ Len(f.instructions) \in Nat
              /\ BranchTo(g, Len(f.instructions), 1)
<1>1. /\ f \in FunctionType /\ f.blocks # <<>>
      /\ Len(f.instructions) \in Nat /\ 0 \in 0 .. Len(f.blocks) - 1
  BY FunctionFields DEF Sound
<1>2. /\ Value("BLOCK", 0) \in LLVMValueID
      /\ OperandOK(f, gs, Len(f.instructions), Value("BLOCK", 0))
  BY <1>1 DEF LLVMValueID, LLVMValueKind, Value, OperandOK, InArena
<1>3. "BR" \in LLVMOpcode /\ "void" \in LLVMType
  BY DEF LLVMOpcode, LLVMType
<1>4. /\ Grows(f, EmitInstr(f, JumpEnd), gs)
      /\ Len(EmitInstr(f, JumpEnd).instructions) = Len(f.instructions) + 1
      /\ Instr(EmitInstr(f, JumpEnd), Len(f.instructions)).operands = <<Value("BLOCK", 0)>>
  BY <1>2, <1>3, EmitUnary DEF JumpEnd
<1> DEFINE g == EmitInstr(f, JumpEnd)
<1> HIDE DEF g
<1>5. Len(f.instructions) \in InstrIDs(g)
  BY <1>1, <1>4 DEF InstrIDs, LastInstr, g
<1>6. BranchTo(g, Len(f.instructions), 1)
  BY <1>4, <1>5 DEF BranchTo, Value, g
<1> QED
  BY <1>1, <1>4, <1>6 DEF g

\* Starting the else part of an if statement is sound.
LEMMA StartElseSound ==
    ASSUME NEW gs, Len(gs) \in Nat, NEW f, Sound(f, gs), NEW ifID, BranchTo(f, ifID, 3)
    PROVE  Grows(f, StartElse(f, ifID), gs)
<1> DEFINE g == CreateBlock(f, "if_false", ifID)
<1>1. ifID \in Nat /\ "if_false" \in LabelRole
  BY FunctionFields DEF BranchTo, InstrIDs, LastInstr, LabelRole, Sound
<1>2. Grows(f, g, gs) /\ LastBlock(g) \in BlockIDs(g)
  BY <1>1, CreateBlockSound
<1>3. StartElse(f, ifID) = PatchOperand(g, ifID, 2, LastBlock(g))
  BY DEF StartElse
<1> HIDE DEF g
<1>4. BranchTo(g, ifID, 2 + 1)
  BY <1>2, BranchGrows DEF Grows, Sound
<1>5. Grows(g, PatchOperand(g, ifID, 2, LastBlock(g)), gs)
  BY <1>2, <1>4, PatchSound DEF Grows
<1> QED
  BY <1>2, <1>3, <1>5, GrowsTransitive

\* Ending an if statement is sound, with and without an else part.
LEMMA EndIfSound ==
    ASSUME NEW gs, Len(gs) \in Nat, NEW f, Sound(f, gs),
           NEW ifID, BranchTo(f, ifID, 3),
           NEW startJumpEnd, BranchTo(f, startJumpEnd, 1),
           NEW endIndex, BranchTo(f, endIndex, 1)
    PROVE  Grows(f, EndIf(f, ifID, startJumpEnd, endIndex), gs)
<1> DEFINE g == CreateBlock(f, "if_end", ifID)
           h == IF Instr(g, ifID).operands[3].id = 0
                THEN PatchOperand(g, ifID, 2, LastBlock(g)) ELSE g
           h2 == PatchOperand(h, endIndex, 0, LastBlock(g))
<1>1. ifID \in Nat /\ "if_end" \in LabelRole
  BY FunctionFields DEF BranchTo, InstrIDs, LastInstr, LabelRole, Sound
<1>2. Grows(f, g, gs) /\ LastBlock(g) \in BlockIDs(g)
  BY <1>1, CreateBlockSound
<1>3. EndIf(f, ifID, startJumpEnd, endIndex) = PatchOperand(h2, startJumpEnd, 0, LastBlock(g))
  BY DEF EndIf
<1> HIDE DEF g
<1> HIDE DEF h
<1>4. Grows(g, h, gs) /\ h.blocks = g.blocks
  <2>1. BranchTo(g, ifID, 2 + 1)
    BY <1>2, BranchGrows DEF Grows, Sound
  <2>2. Sound(g, gs) /\ 2 \in Nat
    BY <1>2 DEF Grows
  <2>3. /\ Grows(g, PatchOperand(g, ifID, 2, LastBlock(g)), gs)
        /\ PatchOperand(g, ifID, 2, LastBlock(g)).blocks = g.blocks
    BY <1>2, <2>1, <2>2, PatchSound
  <2> QED
    BY <2>2, <2>3, GrowsReflexive DEF h
<1>5. Grows(f, h, gs)
  BY <1>2, <1>4, GrowsTransitive
<1>6. Grows(h, h2, gs) /\ h2.blocks = g.blocks
  <2>1. BranchTo(h, endIndex, 0 + 1)
    BY <1>5, BranchGrows DEF Grows, Sound
  <2>2. LastBlock(g) \in BlockIDs(h)
    BY <1>2, <1>4 DEF BlockIDs, LastBlock
  <2>3. Sound(h, gs) /\ 0 \in Nat
    BY <1>4 DEF Grows
  <2>4. /\ Grows(h, PatchOperand(h, endIndex, 0, LastBlock(g)), gs)
        /\ PatchOperand(h, endIndex, 0, LastBlock(g)).blocks = h.blocks
    BY <2>1, <2>2, <2>3, PatchSound
  <2> QED
    BY <1>4, <2>4
<1> HIDE DEF h2
<1>7. Grows(f, h2, gs)
  BY <1>5, <1>6, GrowsTransitive
<1>8. Grows(h2, PatchOperand(h2, startJumpEnd, 0, LastBlock(g)), gs)
  <2>1. BranchTo(h2, startJumpEnd, 0 + 1)
    BY <1>7, BranchGrows DEF Grows, Sound
  <2>2. LastBlock(g) \in BlockIDs(h2)
    BY <1>2, <1>6 DEF BlockIDs, LastBlock
  <2> QED
    BY <1>6, <2>1, <2>2, PatchSound DEF Grows
<1> QED
  BY <1>3, <1>7, <1>8, GrowsTransitive

\* The conditional branch names its block before the block is created.
LEMMA StartIfSound ==
    ASSUME NEW gs, Len(gs) \in Nat, NEW f, Sound(f, gs)
    PROVE  /\ Grows(f, StartIf(f), gs)
           /\ Len(f.instructions) \in Nat
           /\ BranchTo(StartIf(f), Len(f.instructions), 3)
           /\ BranchTo(StartIf(f), Len(f.instructions) + 1, 1)
<1> DEFINE ifID == Len(f.instructions)
           u == Value("INSTR", LastInstr(f))
           v == Value("BLOCK", Len(f.blocks))
           w == Value("BLOCK", 0)
           branch == Instruction("BR", "void", <<u, v, w>>)
           h1 == EmitInstr(f, branch)
           h2 == AddInstr(h1, JumpEnd)
           g == CreateBlock(h2, "if_true", ifID)
<1>1. /\ f \in FunctionType /\ f.blocks # <<>> /\ f.consts # <<>>
      /\ FunctionOK(f, gs)
      /\ ifID \in Nat /\ Len(f.blocks) \in Nat /\ Len(f.blocks) > 0
  BY FunctionFields DEF Sound
<1>2. /\ u \in LLVMValueID /\ v \in LLVMValueID /\ w \in LLVMValueID
      /\ OperandOK(f, gs, ifID, u)
  BY <1>1, LatestOperand DEF LLVMValueID, LLVMValueKind, Value
<1>3. /\ v.kind = "BLOCK" /\ v.id = Len(f.blocks)
      /\ w.kind = "BLOCK" /\ w.id = 0
  BY DEF Value
<1>4. /\ branch \in LLVMInstruction /\ branch.operands = <<u, v, w>>
      /\ JumpEnd \in LLVMInstruction /\ JumpEnd.operands = <<w>>
  <2>1. "BR" \in LLVMOpcode /\ "void" \in LLVMType
    BY DEF LLVMOpcode, LLVMType
  <2>2. JumpEnd = Instruction("BR", "void", <<w>>)
    BY DEF JumpEnd
  <2> HIDE DEF u, v, w
  <2>3. <<u, v, w>> \in Seq(LLVMValueID) /\ <<w>> \in Seq(LLVMValueID)
    BY <1>2
  <2> QED
    BY <2>1, <2>2, <2>3, InstructionType
<1> HIDE DEF u, v, w, branch
<1>5. /\ h1 \in FunctionType
      /\ h1.instructions = Append(f.instructions, branch)
      /\ h1.params = f.params /\ h1.consts = f.consts
      /\ Len(h1.blocks) = Len(f.blocks)
  BY <1>1, <1>4, EmitInstrShape
<1> HIDE DEF h1
<1>6. /\ h2 \in FunctionType
      /\ h2.instructions = Append(h1.instructions, JumpEnd)
      /\ h2.params = h1.params /\ h2.consts = h1.consts
      /\ h2.blocks = h1.blocks
  BY <1>4, <1>5, AddInstrShape
<1> HIDE DEF h2
<1>7. /\ g \in FunctionType
      /\ g.instructions = h2.instructions
      /\ g.params = h2.params /\ g.consts = h2.consts
      /\ Len(g.blocks) = Len(h2.blocks) + 1
  BY <1>1, <1>6, CreateBlockShape DEF LabelRole
<1> HIDE DEF g
<1>8. ArenasGrow(f, h1) /\ ArenasGrow(h1, g) /\ Len(h1.instructions) = ifID + 1
  BY <1>1, <1>5, <1>6, <1>7, FunctionFields DEF ArenasGrow
<1>9. /\ Extends(f, h1)
      /\ InstrIDs(h1) = InstrIDs(f) \cup {ifID}
      /\ \A id \in InstrIDs(f) : Instr(h1, id) = Instr(f, id)
      /\ Instr(h1, ifID) = branch
  BY <1>1, <1>4, <1>5, <1>8, AppendInstr
<1>10. /\ Extends(h1, g)
       /\ InstrIDs(g) = InstrIDs(h1) \cup {ifID + 1}
       /\ \A id \in InstrIDs(h1) : Instr(g, id) = Instr(h1, id)
       /\ Instr(g, ifID + 1) = JumpEnd
  <2>1. g.instructions = Append(h1.instructions, JumpEnd)
    BY <1>6, <1>7
  <2>2. /\ Extends(h1, g)
        /\ InstrIDs(g) = InstrIDs(h1) \cup {Len(h1.instructions)}
        /\ \A id \in InstrIDs(h1) : Instr(g, id) = Instr(h1, id)
        /\ Instr(g, Len(h1.instructions)) = JumpEnd
    BY <2>1, <1>4, <1>5, <1>7, <1>8, AppendInstr
  <2> QED
    BY <2>2, <1>8
<1>11. Extends(f, g) /\ ArenasGrow(f, g)
  BY <1>1, <1>5, <1>7, <1>9, <1>10, ExtendsTransitive DEF Extends
<1>12. ASSUME NEW i \in InstrIDs(g), NEW k \in DOMAIN Instr(g, i).operands
       PROVE  OperandOK(g, gs, i, Instr(g, i).operands[k])
  <2>1. Len(g.blocks) = Len(f.blocks) + 1 /\ Len(gs) <= Len(gs)
    BY <1>5, <1>6, <1>7
  <2>2. OperandOK(g, gs, i, v) /\ OperandOK(g, gs, i, w)
    BY <1>1, <1>3, <2>1 DEF OperandOK, InArena
  <2>3. CASE i \in InstrIDs(f)
    <3>1. Instr(g, i) = Instr(f, i)
      BY <2>3, <1>9, <1>10
    <3>2. Instr(f, i).operands[k] \in LLVMValueID /\ i \in Nat
      BY <1>1, <2>3, <3>1, InstrFields, FunctionFields DEF InstrIDs, LastInstr
    <3>3. OperandOK(f, gs, i, Instr(f, i).operands[k])
      BY <1>1, <2>3, <3>1 DEF FunctionOK
    <3> QED
      BY <1>1, <1>7, <1>11, <2>1, <3>1, <3>2, <3>3, OperandMonotone
  <2>4. CASE i = ifID
    <3>1. Instr(g, i).operands = <<u, v, w>>
      BY <2>4, <1>4, <1>9, <1>10
    <3>2. OperandOK(g, gs, i, u)
      BY <2>4, <1>1, <1>2, <1>7, <1>11, <2>1, OperandMonotone
    <3>3. k \in {1, 2, 3} /\ <<u, v, w>>[1] = u /\ <<u, v, w>>[2] = v /\ <<u, v, w>>[3] = w
      BY <3>1
    <3> QED
      BY <2>2, <3>1, <3>2, <3>3
  <2>5. CASE i = ifID + 1
    <3>1. Instr(g, i).operands = <<w>>
      BY <2>5, <1>4, <1>10
    <3> QED
      BY <2>2, <3>1
  <2> QED
    BY <2>3, <2>4, <2>5, <1>9, <1>10
<1>13. g.blocks # <<>> /\ g.consts # <<>>
  BY <1>1, <1>7, <1>11, NonEmptyGrow
<1>14. Grows(f, g, gs)
  BY <1>7, <1>11, <1>12, <1>13 DEF Grows, Sound, FunctionOK
<1>15. BranchTo(g, ifID, 3)
  <2>1. Instr(g, ifID).operands = <<u, v, w>> /\ ifID \in InstrIDs(g)
    BY <1>4, <1>9, <1>10
  <2> QED
    BY <1>3, <2>1 DEF BranchTo
<1>16. BranchTo(g, ifID + 1, 1)
  <2>1. Instr(g, ifID + 1).operands = <<w>> /\ ifID + 1 \in InstrIDs(g)
    BY <1>4, <1>10
  <2> QED
    BY <1>3, <2>1 DEF BranchTo
<1>17. StartIf(f) = g
  BY DEF StartIf, g, h2, h1, branch, u, v, w
<1> QED
  BY <1>1, <1>14, <1>15, <1>16, <1>17

\* A new function has its entry block, constant 0 and no instruction.
LEMMA NewFunctionSound ==
    ASSUME NEW gs, Len(gs) \in Nat, NEW name \in FuncNames \cup {NoFunctionName}
    PROVE  /\ NoFunction \in FunctionType
           /\ FunctionOK(NoFunction, gs)
           /\ Sound(NewFunction, gs)
           /\ Sound([NewFunction EXCEPT !.name = name], gs)
           /\ InstrIDs(NewFunction) = {}
           /\ InstrIDs([NewFunction EXCEPT !.name = name]) = {}
<1> DEFINE block == [label |-> [role |-> "entry", id |-> 0], instrIDs |-> <<>>]
           g == [name |-> name, blocks |-> <<block>>, instructions |-> <<>>,
                 params |-> <<>>, consts |-> <<0>>]
           h == [name |-> NoFunctionName, blocks |-> <<block>>, instructions |-> <<>>,
                 params |-> <<>>, consts |-> <<0>>]
<1>1. block \in LLVMBasicBlock
  BY DEF LLVMBasicBlock, Label, LabelRole
<1>2. NoFunction \in FunctionType
  BY DEF NoFunction, FunctionType, LLVMFunction
<1>3. NewFunction = h
  <2>1. Append(<<>>, block) = <<block>>
    OBVIOUS
  <2>2. CreateBlock(NoFunction, "entry", 0) = [NoFunction EXCEPT !.blocks = <<block>>]
    BY <2>1 DEF CreateBlock, NoFunction
  <2> HIDE DEF block
  <2> QED
    BY <2>2 DEF NewFunction, NoFunction
<1>4. [NewFunction EXCEPT !.name = name] = g
  BY <1>3
<1>5. <<block>> \in Seq(LLVMBasicBlock) /\ <<0>> \in Seq(Literals \cup {0})
  BY <1>1
<1> HIDE DEF block
<1>6. g \in FunctionType /\ h \in FunctionType
  BY <1>5 DEF FunctionType, LLVMFunction
<1>7. /\ InstrIDs(NoFunction) = {} /\ InstrIDs(g) = {} /\ InstrIDs(h) = {}
      /\ g.blocks # <<>> /\ g.consts # <<>> /\ h.blocks # <<>> /\ h.consts # <<>>
  BY DEF InstrIDs, LastInstr, NoFunction
<1> QED
  BY <1>2, <1>3, <1>4, <1>6, <1>7 DEF Sound, FunctionOK

-----------------------------------------------------------------------------
(* Stacks of scopes *)

MapInto(map, N, V) == \A n \in DOMAIN map : n \in N /\ map[n] \in V

\* A sequence is one of its own elements.
LEMMA SeqOfElements ==
    ASSUME NEW S, NEW s \in Seq(S)
    PROVE  s \in Seq({s[i] : i \in DOMAIN s})
<1>1. s \in Seq(Range(s)) /\ Range(s) = {s[i] : i \in 1 .. Len(s)} /\ DOMAIN s = 1 .. Len(s)
  BY SeqOfRange, RangeEquality
<1> QED
  BY <1>1

\* A sequence of well-typed scopes is a stack of scopes.
LEMMA StackFromElements ==
    ASSUME NEW N, NEW V, NEW S, NEW s \in Seq(S),
           \A i \in 1 .. Len(s) : MapInto(s[i], N, V)
    PROVE  IsStackOf(s, N, V)
BY SeqOfElements DEF IsStackOf, MapInto

\* The scopes of a stack are well-typed.
LEMMA StackElements ==
    ASSUME NEW N, NEW V, NEW s, IsStackOf(s, N, V)
    PROVE  /\ \E S : s \in Seq(S)
           /\ Len(s) \in Nat /\ DOMAIN s = 1 .. Len(s)
           /\ \A i \in 1 .. Len(s) : MapInto(s[i], N, V)
BY DEF IsStackOf, MapInto

\* Pushing a well-typed scope gives a stack.
LEMMA PushStack ==
    ASSUME NEW N, NEW V, NEW s, IsStackOf(s, N, V), NEW map, MapInto(map, N, V)
    PROVE  /\ IsStackOf(Append(s, map), N, V)
           /\ Len(Append(s, map)) = Len(s) + 1
           /\ Append(s, map) # <<>>
           /\ \A i \in 1 .. Len(s) : Append(s, map)[i] = s[i]
           /\ Append(s, map)[Len(s) + 1] = map
<1>1. PICK S : s \in Seq(S)
  BY StackElements
<1>2. s \in Seq(S \cup {map}) /\ Append(s, map) \in Seq(S \cup {map})
  BY <1>1
<1>3. /\ Append(s, map) # <<>>
      /\ Len(Append(s, map)) = Len(s) + 1
      /\ \A i \in 1 .. Len(s) : Append(s, map)[i] = s[i]
      /\ Append(s, map)[Len(s) + 1] = map
  BY <1>2, AppendProperties
<1>4. \A i \in 1 .. Len(Append(s, map)) : MapInto(Append(s, map)[i], N, V)
  BY <1>3, StackElements
<1>5. IsStackOf(Append(s, map), N, V)
  BY <1>2, <1>4, StackFromElements
<1> QED
  BY <1>3, <1>5

\* Popping a scope leaves a stack.
LEMMA PopStack ==
    ASSUME NEW N, NEW V, NEW s, IsStackOf(s, N, V)
    PROVE  LET t == SubSeq(s, 1, Len(s) - 1)
           IN /\ IsStackOf(t, N, V)
              /\ Len(t) < Len(s) \/ t = <<>>
              /\ \A i \in 1 .. Len(t) : i \in 1 .. Len(s) /\ t[i] = s[i]
<1> DEFINE t == SubSeq(s, 1, Len(s) - 1)
<1>1. PICK S : s \in Seq(S)
  BY StackElements
<1>2. Len(s) \in Nat /\ \A i \in 1 .. Len(s) - 1 : s[i] \in S
  BY <1>1
<1>3. /\ t \in Seq(S)
      /\ Len(t) = IF 1 <= Len(s) - 1 THEN Len(s) - 1 ELSE 0
      /\ \A i \in 1 .. Len(s) - 1 : t[i] = s[i]
  BY <1>2, SubSeqProperties
<1> HIDE DEF t
<1>4. \A i \in 1 .. Len(t) : i \in 1 .. Len(s) - 1
  BY <1>2, <1>3
<1>5. \A i \in 1 .. Len(t) : i \in 1 .. Len(s) /\ t[i] = s[i]
  BY <1>2, <1>3, <1>4
<1>6. IsStackOf(t, N, V)
  BY <1>3, <1>5, StackElements, StackFromElements
<1>7. Len(t) < Len(s) \/ t = <<>>
  BY <1>2, <1>3
<1> QED
  BY <1>5, <1>6, <1>7 DEF t

\* Binding a name to a well-typed value keeps a scope well-typed.
LEMMA BindMap ==
    ASSUME NEW N, NEW V, NEW map, MapInto(map, N, V), NEW n \in N, NEW v \in V
    PROVE  /\ MapInto(Bind(map, n, v), N, V)
           /\ MapInto(Insert(map, n, v), N, V)
           /\ \A m \in DOMAIN Bind(map, n, v) :
                Bind(map, n, v)[m] = v \/ (m \in DOMAIN map /\ Bind(map, n, v)[m] = map[m])
BY DEF MapInto, Bind, Insert

\* The empty scope is well-typed.
LEMMA EmptyMap == ASSUME NEW N, NEW V PROVE MapInto(EmptyScope, N, V)
BY DEF MapInto, EmptyScope

\* Replacing the innermost scope by a well-typed one gives a stack.
LEMMA ReplaceTop ==
    ASSUME NEW N, NEW V, NEW s, IsStackOf(s, N, V), NEW map,
           s # <<>> => MapInto(map, N, V)
    PROVE  LET t == [s EXCEPT ![Len(s)] = map]
           IN /\ IsStackOf(t, N, V)
              /\ Len(t) = Len(s)
              /\ s # <<>> => t # <<>> /\ t[Len(s)] = map
              /\ \A i \in 1 .. Len(s) : i # Len(s) => t[i] = s[i]
<1> DEFINE t == [s EXCEPT ![Len(s)] = map]
<1>1. PICK S : s \in Seq(S)
  BY StackElements
<1>2. CASE s = <<>>
  <2>1. t = <<>>
    BY <1>2
  <2>2. <<>> \in Seq({}) /\ Len(<<>>) = 0
    OBVIOUS
  <2>3. IsStackOf(<<>>, N, V)
    <3>1. \A i \in 1 .. Len(<<>>) : MapInto(<<>>[i], N, V)
      BY <2>2
    <3> QED
      BY <2>2, <3>1, StackFromElements
  <2> QED
    BY <1>2, <2>1, <2>2, <2>3
<1>3. CASE s # <<>>
  <2>1. s \in Seq(S \cup {map}) /\ Len(s) \in 1 .. Len(s)
    BY <1>1, <1>3
  <2>2. /\ t \in Seq(S \cup {map}) /\ Len(t) = Len(s)
        /\ \A j \in 1 .. Len(s) : t[j] = IF j = Len(s) THEN map ELSE s[j]
    BY <2>1, ExceptSeq
  <2> HIDE DEF t
  <2>3. \A i \in 1 .. Len(t) : MapInto(t[i], N, V)
    BY <1>3, <2>2, StackElements
  <2>4. IsStackOf(t, N, V) /\ t # <<>>
    BY <2>1, <2>2, <2>3, StackFromElements
  <2> QED
    BY <2>1, <2>2, <2>4 DEF t
<1> QED
  BY <1>2, <1>3

\* addToScope keeps the symbol table well-typed.
LEMMA AddToScopeStack ==
    ASSUME NEW N, NEW V, NEW s, IsStackOf(s, N, V), NEW n \in N, NEW v \in V
    PROVE  IsStackOf(AddToScope(s, n, v), N, V)
<1>1. s # <<>> => MapInto(s[Len(s)], N, V)
  BY StackElements
<1>2. s # <<>> => MapInto(Insert(s[Len(s)], n, v), N, V)
  BY <1>1, BindMap
<1> QED
  BY <1>2, ReplaceTop DEF AddToScope

\* A set of naturals that holds one has a least one.
LEMMA LeastNatural ==
    ASSUME NEW T \in SUBSET Nat, T # {}
    PROVE  \E m \in T : \A k \in T : m <= k
<1>1. PICK m \in T : \A k \in T : ~(<<k, m>> \in OpToRel(<, Nat))
  BY NatLessThanWellFounded, WFMin
<1>2. \A k \in T : ~(k < m)
  BY <1>1 DEF OpToRel
<1> QED
  BY <1>2

\* getOrd returns a well-typed symbol for a name that is declared.
LEMMA GetOrdType ==
    ASSUME NEW N, NEW V, NEW s, IsStackOf(s, N, V), NEW n, HasOrd(s, n)
    PROVE  GetOrd(s, n) \in V
<1> DEFINE holders == {i \in DOMAIN s : n \in DOMAIN s[i]}
           P(i) == n \in DOMAIN s[i] /\ \A j \in DOMAIN s : n \in DOMAIN s[j] => j <= i
           depths == {Len(s) - i : i \in holders}
<1>1. Len(s) \in Nat /\ DOMAIN s = 1 .. Len(s)
  BY StackElements
<1>2. depths \in SUBSET Nat /\ depths # {}
  BY <1>1 DEF HasOrd
<1>3. PICK m \in depths : \A k \in depths : m <= k
  BY <1>2, LeastNatural
<1>4. PICK i \in holders : m = Len(s) - i
  BY <1>3
<1>5. ASSUME NEW j \in DOMAIN s, n \in DOMAIN s[j] PROVE j <= i
  <2>1. Len(s) - j \in depths
    BY <1>5
  <2>2. Len(s) - i <= Len(s) - j
    BY <1>3, <1>4, <2>1
  <2>3. i \in 1 .. Len(s) /\ j \in 1 .. Len(s)
    BY <1>1
  <2> QED
    BY <1>1, <2>2, <2>3
<1>6. \E l \in DOMAIN s : P(l)
  BY <1>4, <1>5
<1>7. (CHOOSE l \in DOMAIN s : P(l)) \in DOMAIN s /\ P(CHOOSE l \in DOMAIN s : P(l))
  BY <1>6
<1>8. GetOrd(s, n) = s[CHOOSE l \in DOMAIN s : P(l)][n]
  BY DEF GetOrd
<1> QED
  BY <1>7, <1>8, StackElements DEF MapInto

\* _resolveIdentifier returns what one of the layers holds.
LEMMA ResolvedIsHeld ==
    ASSUME IsStackOf(identifiers, Names, LLVMValueID), NEW n, Resolvable(n)
    PROVE  \E i \in DOMAIN identifiers :
              n \in DOMAIN identifiers[i] /\ ResolveIdentifier(n) = identifiers[i][n]
<1> DEFINE P(i) == /\ n \in DOMAIN identifiers[i]
                   /\ \A j \in DOMAIN identifiers : n \in DOMAIN identifiers[j] => i <= j
           holders == {i \in DOMAIN identifiers : n \in DOMAIN identifiers[i]}
<1>1. DOMAIN identifiers = 1 .. Len(identifiers)
  BY StackElements
<1>2. holders \in SUBSET Nat /\ holders # {}
  BY <1>1 DEF Resolvable
<1>3. \E i \in DOMAIN identifiers : P(i)
  BY <1>2, LeastNatural
<1>4. (CHOOSE i \in DOMAIN identifiers : P(i)) \in DOMAIN identifiers
      /\ P(CHOOSE i \in DOMAIN identifiers : P(i))
  BY <1>3
<1>5. ResolveIdentifier(n) = identifiers[CHOOSE i \in DOMAIN identifiers : P(i)][n]
  BY DEF ResolveIdentifier
<1> QED
  BY <1>4, <1>5

-----------------------------------------------------------------------------
(* One step of the visitor, seen from the invariant *)

gs == module.globals

\* What the invariant says while a function is under construction.
LEMMA InFunctionFacts ==
    ASSUME IndInv, InFunction
    PROVE  /\ Sound(function, gs) /\ Len(gs) \in Nat
           /\ global = <<>> /\ identifiers # <<>>
           /\ function \in FunctionType /\ function.blocks # <<>>
           /\ Len(function.instructions) \in Nat
<1>1. function \in AllFunctions
  BY DEF AllFunctions
<1>2. /\ function \in FunctionType /\ FunctionOK(function, gs)
      /\ function.blocks # <<>> /\ function.consts # <<>>
      /\ global = <<>> /\ identifiers # <<>>
      /\ module.globals \in Seq(VarNames \cup {NoName})
  BY <1>1 DEF IndInv, TypeOK, OperandsInArena, ContextOK, gs
<1> QED
  BY <1>2, FunctionFields DEF Sound, gs

\* Where a child is about to be visited, a function is under construction.
LEMMA AtFacts ==
    ASSUME IndInv, NEW place, At(place)
    PROVE  /\ InFunction /\ todo # <<>> /\ todo \in Seq(FrameType)
           /\ Head(todo) \in FrameType /\ FrameOK(function, Head(todo))
           /\ Head(todo).at = place
<1>1. todo # <<>> /\ todo \in Seq(FrameType) /\ Head(todo).at = place /\ InFunction
  BY DEF At, IndInv, TypeOK, ContextOK
<1>2. Head(todo) = todo[1] /\ 1 \in DOMAIN todo /\ Head(todo) \in FrameType
  BY <1>1
<1> QED
  BY <1>1, <1>2 DEF IndInv, FramesOK

\* A frame stays good while the function grows.
LEMMA FrameGrows ==
    ASSUME NEW f \in FunctionType, NEW g \in FunctionType, Extends(f, g),
           NEW frame \in FrameType, FrameOK(f, frame)
    PROVE  FrameOK(g, frame)
<1>1. frame.at \in {"binary", "assign"} =>
        Len(frame.ids) = 1 /\ frame.ids[1] \in NPos .. LastInstr(g)
  BY FunctionFields DEF FrameOK, Extends, ArenasGrow, LastInstr, NPos
<1>2. frame.at \in {"ifElse", "ifEnd"} =>
        /\ Len(frame.ids) = (IF frame.at = "ifElse" THEN 2 ELSE 3)
        /\ BranchTo(g, frame.ids[1], 3)
        /\ \A j \in 2 .. Len(frame.ids) : BranchTo(g, frame.ids[j], 1)
  BY BranchGrows DEF FrameOK
<1> QED
  BY <1>1, <1>2 DEF FrameOK

GoodFrames(f, frames) ==
    frames \in Seq(FrameType) /\ \A j \in 1 .. Len(frames) : FrameOK(f, frames[j])

\* Well-typed frames pushed on the call stack give a call stack.
LEMMA ConcatFrames ==
    ASSUME NEW f, NEW xs, NEW ys, GoodFrames(f, xs), GoodFrames(f, ys)
    PROVE  GoodFrames(f, xs \o ys)
<1>1. /\ xs \o ys \in Seq(FrameType)
      /\ Len(xs \o ys) = Len(xs) + Len(ys)
      /\ \A i \in 1 .. Len(xs) + Len(ys) :
           (xs \o ys)[i] = IF i <= Len(xs) THEN xs[i] ELSE ys[i - Len(xs)]
  BY ConcatProperties DEF GoodFrames
<1>2. Len(xs) \in Nat /\ Len(ys) \in Nat
  BY DEF GoodFrames
<1>3. ASSUME NEW i \in 1 .. Len(xs \o ys) PROVE FrameOK(f, (xs \o ys)[i])
  <2>1. CASE i <= Len(xs)
    BY <1>1, <1>2, <2>1 DEF GoodFrames
  <2>2. CASE ~(i <= Len(xs))
    <3>1. i - Len(xs) \in 1 .. Len(ys)
      BY <1>1, <1>2, <2>2
    <3> QED
      BY <1>1, <1>2, <2>2, <3>1 DEF GoodFrames
  <2> QED
    BY <2>1, <2>2
<1> QED
  BY <1>1, <1>3 DEF GoodFrames

\* A suspended visit stays as it was while the function grows.
LEMMA OldFrames ==
    ASSUME IndInv, NEW g \in FunctionType, Extends(function, g)
    PROVE  /\ GoodFrames(g, todo)
           /\ todo # <<>> => GoodFrames(g, Tail(todo))
<1>1. todo \in Seq(FrameType) /\ function \in FunctionType /\ DOMAIN todo = 1 .. Len(todo)
  BY DEF IndInv, TypeOK
<1>2. \A j \in 1 .. Len(todo) : FrameOK(g, todo[j])
  BY <1>1, FrameGrows DEF IndInv, FramesOK
<1>3. ASSUME todo # <<>> PROVE GoodFrames(g, Tail(todo))
  <2>1. /\ Tail(todo) \in Seq(FrameType) /\ Len(Tail(todo)) = Len(todo) - 1
        /\ \A j \in 1 .. Len(Tail(todo)) : Tail(todo)[j] = todo[j + 1]
    BY <1>1, <1>3, HeadTailProperties
  <2>2. \A j \in 1 .. Len(Tail(todo)) : j + 1 \in 1 .. Len(todo)
    BY <1>1, <2>1
  <2> QED
    BY <1>2, <2>1, <2>2 DEF GoodFrames
<1> QED
  BY <1>1, <1>2, <1>3 DEF GoodFrames

\* What a sound step produces is a function.
LEMMA SoundIsFunction ==
    ASSUME NEW g, Sound(g, gs) PROVE g # NoFunction
BY DEF Sound, NoFunction

\* A handler that grows the function soundly and replaces its frame by good
\* ones preserves the invariant.
LEMMA ContinueStep ==
    ASSUME IndInv, todo # <<>>, NEW frames, Continue(frames), NEW g,
           Grows(function, g, gs), GoodFrames(g, frames)
    PROVE  GoodFrames(g, todo')
<1>1. GoodFrames(g, Tail(todo))
  BY OldFrames DEF Grows, Sound
<1> QED
  BY <1>1, ConcatFrames DEF Continue

\* Returning from a visit leaves good frames.
LEMMA PopFrame ==
    ASSUME IndInv, todo # <<>>, Continue(<<>>), NEW g, Grows(function, g, gs)
    PROVE  GoodFrames(g, todo')
<1>1. GoodFrames(g, <<>>)
  BY DEF GoodFrames
<1> QED
  BY <1>1, ContinueStep

\* Frames of a sequence of one.
LEMMA OneFrame ==
    ASSUME NEW g, NEW a \in FrameType, FrameOK(g, a)
    PROVE  GoodFrames(g, <<a>>)
BY DEF GoodFrames

\* Frames of a sequence of two.
LEMMA TwoFrames ==
    ASSUME NEW g, NEW a \in FrameType, FrameOK(g, a), NEW b \in FrameType, FrameOK(g, b)
    PROVE  GoodFrames(g, <<a, b>>)
BY DEF GoodFrames

\* Frames of a sequence of three.
LEMMA ThreeFrames ==
    ASSUME NEW g, NEW a \in FrameType, FrameOK(g, a), NEW b \in FrameType, FrameOK(g, b),
           NEW c \in FrameType, FrameOK(g, c)
    PROVE  GoodFrames(g, <<a, b, c>>)
BY DEF GoodFrames

\* No saved ids and no type are well-typed.
LEMMA EmptyIDs == <<>> \in Seq(Nat \cup {NPos}) /\ "void" \in CType
BY DEF CType

\* A resumption with well-typed parts is well-typed.
LEMMA ResumeType ==
    ASSUME NEW at \in Place, NEW arg \in FrameArg, NEW type \in CType,
           NEW ids \in Seq(Nat \cup {NPos})
    PROVE  Resume(at, arg, type, ids) \in FrameType
BY DEF Resume, FrameType

\* The frames that hold nothing, and the ones that hold only a position or
\* an operator.
LEMMA PlainFrame ==
    ASSUME NEW g,
           NEW at \in {"params", "decls", "stmts", "store", "rvalue", "endScope",
                       "return", "init", "stmt", "lvalue", "ifThen"}
    PROVE  Frame(at) \in FrameType /\ FrameOK(g, Frame(at))
<1>1. at \in Place /\ "" \in FrameArg
  BY DEF Place, Owing, FrameArg
<1>2. Frame(at) \in FrameType
  BY <1>1, EmptyIDs, ResumeType DEF Frame
<1>4. Frame(at).at = at
  BY DEF Frame, Resume
<1>3. at \notin {"binary", "assign", "binaryLhs", "assignLhs", "ifElse", "ifEnd",
                 "list", "expr"}
  OBVIOUS
<1> QED
  BY <1>2, <1>3, <1>4 DEF FrameOK

\* A frame for an expression is good.
LEMMA ExpressionFrame ==
    ASSUME NEW g, NEW at \in {"list", "expr"}, NEW position \in Position
    PROVE  Child(at, position) \in FrameType /\ FrameOK(g, Child(at, position))
<1>1. at \in Place /\ position \in FrameArg
  BY DEF Place, Owing, FrameArg
<1>2. Child(at, position) \in FrameType
  BY <1>1, EmptyIDs, ResumeType DEF Child
<1>3. Child(at, position).at = at /\ Child(at, position).arg = position
  BY DEF Child, Resume
<1> QED
  BY <1>2, <1>3 DEF FrameOK

\* A frame for the left side of a binary expression is good.
LEMMA BinaryFrame ==
    ASSUME NEW g, NEW op \in BinaryOperator
    PROVE  Child("binaryLhs", op) \in FrameType /\ FrameOK(g, Child("binaryLhs", op))
<1>1. "binaryLhs" \in Place /\ op \in FrameArg
  BY DEF Place, Owing, FrameArg
<1>2. Child("binaryLhs", op) \in FrameType
  BY <1>1, EmptyIDs, ResumeType DEF Child
<1>3. Child("binaryLhs", op).at = "binaryLhs" /\ Child("binaryLhs", op).arg = op
  BY DEF Child, Resume
<1> QED
  BY <1>2, <1>3 DEF FrameOK

\* A frame for the left side of an assignment is good.
LEMMA AssignmentFrame ==
    ASSUME NEW g, NEW op \in AssignmentOperator
    PROVE  Child("assignLhs", op) \in FrameType /\ FrameOK(g, Child("assignLhs", op))
<1>1. "assignLhs" \in Place /\ op \in FrameArg
  BY DEF Place, Owing, FrameArg
<1>2. Child("assignLhs", op) \in FrameType
  BY <1>1, EmptyIDs, ResumeType DEF Child
<1>3. Child("assignLhs", op).at = "assignLhs" /\ Child("assignLhs", op).arg = op
  BY DEF Child, Resume
<1> QED
  BY <1>2, <1>3 DEF FrameOK

\* A binary expression suspended with its right side's id is good.
LEMMA SavedBinary ==
    ASSUME NEW g \in FunctionType, NEW op \in BinaryOperator, NEW type \in CType,
           NEW id \in NPos .. LastInstr(g)
    PROVE  /\ Resume("binary", op, type, <<id>>) \in FrameType
           /\ FrameOK(g, Resume("binary", op, type, <<id>>))
<1>1. id \in Nat \cup {NPos}
  BY FunctionFields DEF LastInstr, NPos
<1>2. <<id>> \in Seq(Nat \cup {NPos}) /\ Len(<<id>>) = 1 /\ <<id>>[1] = id
  BY <1>1
<1>3. "binary" \in Place /\ op \in FrameArg
  BY DEF Place, Owing, FrameArg
<1> DEFINE frame == Resume("binary", op, type, <<id>>)
<1>4. frame \in FrameType
  BY <1>2, <1>3, ResumeType
<1>5. frame.at = "binary" /\ frame.arg = op /\ frame.ids = <<id>>
  BY DEF Resume
<1> HIDE DEF frame
<1>6. FrameOK(g, frame)
  BY <1>2, <1>5 DEF FrameOK
<1> QED
  BY <1>4, <1>6 DEF frame

\* An assignment suspended with its right side's id is good.
LEMMA SavedAssignment ==
    ASSUME NEW g \in FunctionType, NEW op \in AssignmentOperator, NEW type \in CType,
           NEW id \in NPos .. LastInstr(g)
    PROVE  /\ Resume("assign", op, type, <<id>>) \in FrameType
           /\ FrameOK(g, Resume("assign", op, type, <<id>>))
<1>1. id \in Nat \cup {NPos}
  BY FunctionFields DEF LastInstr, NPos
<1>2. <<id>> \in Seq(Nat \cup {NPos}) /\ Len(<<id>>) = 1 /\ <<id>>[1] = id
  BY <1>1
<1>3. "assign" \in Place /\ op \in FrameArg
  BY DEF Place, Owing, FrameArg
<1> DEFINE frame == Resume("assign", op, type, <<id>>)
<1>4. frame \in FrameType
  BY <1>2, <1>3, ResumeType
<1>5. frame.at = "assign" /\ frame.arg = op /\ frame.ids = <<id>>
  BY DEF Resume
<1> HIDE DEF frame
<1>6. FrameOK(g, frame)
  BY <1>2, <1>5 DEF FrameOK
<1> QED
  BY <1>4, <1>6 DEF frame

\* A suspended visit(IfStatement) and the branches it will patch.
LEMMA IfElseFrame ==
    ASSUME NEW g \in FunctionType, NEW ifID, BranchTo(g, ifID, 3),
           NEW jump, BranchTo(g, jump, 1)
    PROVE  /\ Resume("ifElse", "", "void", <<ifID, jump>>) \in FrameType
           /\ FrameOK(g, Resume("ifElse", "", "void", <<ifID, jump>>))
<1> DEFINE ids == <<ifID, jump>>
           frame == Resume("ifElse", "", "void", ids)
<1>1. ifID \in Nat /\ jump \in Nat
  BY FunctionFields DEF BranchTo, InstrIDs, LastInstr
<1>2. ids \in Seq(Nat \cup {NPos}) /\ Len(ids) = 2 /\ ids[1] = ifID /\ ids[2] = jump
  BY <1>1
<1>3. "ifElse" \in Place /\ "" \in FrameArg /\ "void" \in CType
  BY DEF Place, FrameArg, CType
<1>4. frame.at = "ifElse" /\ frame.ids = ids
  BY DEF Resume
<1> HIDE DEF ids
<1>5. frame \in FrameType
  BY <1>2, <1>3, ResumeType
<1> HIDE DEF frame
<1>6. Len(frame.ids) = 2 /\ frame.ids[1] = ifID /\ frame.ids[2] = jump
  BY <1>2, <1>4
<1>7. \A j \in 2 .. Len(frame.ids) : BranchTo(g, frame.ids[j], 1)
  <2>1. \A j \in 2 .. Len(frame.ids) : j = 2
    BY <1>6
  <2> QED
    BY <2>1, <1>6
<1>8. FrameOK(g, frame)
  BY <1>4, <1>6, <1>7 DEF FrameOK
<1> QED
  BY <1>5, <1>8 DEF frame, ids

\* The elements of a pair with a third one appended.
LEMMA AppendThird ==
    ASSUME NEW S, NEW s \in Seq(S), NEW e \in S
    PROVE  Len(s) = 2 =>
             /\ Append(s, e) \in Seq(S) /\ Len(Append(s, e)) = 3
             /\ Append(s, e)[1] = s[1] /\ Append(s, e)[2] = s[2] /\ Append(s, e)[3] = e
<1> DEFINE t == Append(s, e)
<1>1. /\ t \in Seq(S) /\ Len(t) = Len(s) + 1
      /\ \A i \in 1 .. Len(s) : t[i] = s[i]
      /\ t[Len(s) + 1] = e
  BY AppendProperties
<1> HIDE DEF t
<1>2. HAVE Len(s) = 2
<1>3. Len(s) + 1 = 3 /\ 1 \in 1 .. Len(s) /\ 2 \in 1 .. Len(s)
  BY <1>2
<1>4. t[3] = e
  BY <1>1, <1>3, Zenon
<1> QED
  BY <1>1, <1>3, <1>4 DEF t

\* An if statement suspended in its else part is good.
LEMMA IfEndFrame ==
    ASSUME NEW g \in FunctionType, NEW ids \in Seq(Nat \cup {NPos}), Len(ids) = 2,
           BranchTo(g, ids[1], 3), BranchTo(g, ids[2], 1), NEW jump, BranchTo(g, jump, 1)
    PROVE  /\ Resume("ifEnd", "", "void", Append(ids, jump)) \in FrameType
           /\ FrameOK(g, Resume("ifEnd", "", "void", Append(ids, jump)))
<1> DEFINE all == Append(ids, jump)
           frame == Resume("ifEnd", "", "void", all)
<1>1. jump \in Nat
  BY FunctionFields DEF BranchTo, InstrIDs, LastInstr
<1>2. /\ all \in Seq(Nat \cup {NPos}) /\ Len(all) = 3
      /\ all[1] = ids[1] /\ all[2] = ids[2] /\ all[3] = jump
  BY <1>1, AppendThird
<1>3. "ifEnd" \in Place /\ "" \in FrameArg /\ "void" \in CType
  BY DEF Place, FrameArg, CType
<1>4. frame.at = "ifEnd" /\ frame.ids = all
  BY DEF Resume
<1> HIDE DEF all
<1>5. frame \in FrameType
  BY <1>2, <1>3, ResumeType
<1> HIDE DEF frame
<1>6. \A j \in 2 .. Len(frame.ids) : BranchTo(g, frame.ids[j], 1)
  <2>1. Len(frame.ids) = 3 /\ frame.ids[2] = ids[2] /\ frame.ids[3] = jump
    BY <1>2, <1>4
  <2>2. \A j \in 2 .. Len(frame.ids) : j = 2 \/ j = 3
    BY <2>1
  <2> QED
    BY <2>1, <2>2
<1>7. FrameOK(g, frame)
  BY <1>2, <1>4, <1>6 DEF FrameOK
<1> QED
  BY <1>5, <1>7 DEF frame, all

\* A step inside a function body that only grows the function.
LEMMA BodyStep ==
    ASSUME IndInv, InFunction, Grows(function, function', gs), UNCHANGED unit,
           GoodFrames(function', todo'),
           IsStackOf(identifiers', Names, LLVMValueID), identifiers' # <<>>, LayersOK',
           initialising' \in Names \cup {NoName},
           status' \in {"visiting", "done", "threw", "crashed"},
           IsStackOf(table', Names, SymbolType), evaluated' \in CType,
           budget' \in 0 .. MaxNodes
    PROVE  IndInv'
<1>1. /\ function' \in FunctionType /\ FunctionOK(function', gs)
      /\ function' # NoFunction /\ function'.blocks # <<>> /\ function'.consts # <<>>
  BY SoundIsFunction DEF Grows, Sound
<1>2. global = <<>> /\ global' = global /\ module' = module
  BY InFunctionFacts DEF unit
<1>3. TypeOK'
  BY <1>1, <1>2 DEF IndInv, TypeOK, GoodFrames
<1>4. OperandsInArena'
  BY <1>1, <1>2 DEF IndInv, OperandsInArena, AllFunctions, Functions, InFunction, gs
<1>5. ContextOK'
  BY <1>1, <1>2 DEF ContextOK, InFunction
<1>6. FramesOK'
  BY DEF FramesOK, GoodFrames
<1> QED
  BY <1>3, <1>4, <1>5, <1>6 DEF IndInv

\* The identifier layers stay right while the function grows.
LEMMA SameLayers ==
    ASSUME IndInv, InFunction, NEW g, Grows(function, g, gs), function' = g,
           UNCHANGED unit, UNCHANGED identifiers
    PROVE  /\ IsStackOf(identifiers', Names, LLVMValueID)
           /\ identifiers' # <<>> /\ LayersOK'
<1>1. InFunction' /\ InstrIDs(function) \subseteq InstrIDs(function')
  BY SoundIsFunction, FunctionFields
  DEF Grows, Sound, Extends, ArenasGrow, InFunction, InstrIDs, LastInstr, IndInv, TypeOK
<1>2. LayersOK'
  BY <1>1 DEF IndInv, LayersOK, StorageOK, unit
<1> QED
  BY <1>2, InFunctionFacts DEF IndInv, TypeOK

\* ... and leaves the scopes alone.
LEMMA EmitStep ==
    ASSUME IndInv, InFunction, Grows(function, function', gs), UNCHANGED <<unit, scopes, status>>,
           GoodFrames(function', todo'), evaluated' \in CType,
           UNCHANGED budget \/ (budget > 0 /\ budget' = budget - 1)
    PROVE  IndInv'
<1>1. /\ initialising' \in Names \cup {NoName}
      /\ status' \in {"visiting", "done", "threw", "crashed"}
      /\ IsStackOf(table', Names, SymbolType)
  BY DEF IndInv, TypeOK, scopes
<1>2. budget' \in 0 .. MaxNodes
  BY BoundAssumption DEF IndInv, TypeOK
<1>3. /\ IsStackOf(identifiers', Names, LLVMValueID) /\ identifiers' # <<>> /\ LayersOK'
  BY SameLayers DEF scopes
<1> QED
  BY <1>1, <1>2, <1>3, BodyStep

\* A step that leaves the function alone: only the call stack changes.
LEMMA StackStep ==
    ASSUME IndInv, InFunction, UNCHANGED function, UNCHANGED <<unit, scopes, status>>,
           GoodFrames(function, todo'), evaluated' \in CType,
           UNCHANGED budget \/ (budget > 0 /\ budget' = budget - 1)
    PROVE  IndInv'
<1>1. Grows(function, function', gs)
  BY InFunctionFacts, GrowsReflexive
<1> QED
  BY <1>1, EmitStep

-----------------------------------------------------------------------------
(* The expression handlers *)

\* EvaluateAsRValue preserves the invariant.
LEMMA EvaluateAsRValueStep ==
    ASSUME IndInv, EvaluateAsRValue
    PROVE  IndInv'
<1> DEFINE v == Value("INSTR", LastInstr(function))
           load == EmitInstr(function, Instruction("LOAD", toLLVMType(evaluated), <<v>>))
<1>1. /\ InFunction /\ todo # <<>> /\ Sound(function, gs) /\ Len(gs) \in Nat
      /\ evaluated \in CType
  BY AtFacts, InFunctionFacts DEF EvaluateAsRValue, IndInv, TypeOK
<1>2. "LOAD" \in LLVMOpcode /\ toLLVMType(evaluated) \in LLVMType
  BY <1>1, ToLLVMType DEF LLVMOpcode
<1>3. v \in LLVMValueID /\ OperandOK(function, gs, Len(function.instructions), v)
  BY <1>1, LatestOperand
<1> HIDE DEF v
<1>4. Grows(function, load, gs)
  BY <1>1, <1>2, <1>3, EmitUnary
<1>5. function' = load \/ function' = function
  BY DEF EvaluateAsRValue, v
<1> HIDE DEF load
<1>6. Grows(function, function', gs)
  BY <1>1, <1>4, <1>5, GrowsReflexive
<1>7. GoodFrames(function', todo')
  BY <1>1, <1>6, PopFrame DEF EvaluateAsRValue
<1> QED
  BY <1>1, <1>6, <1>7, EmitStep DEF EvaluateAsRValue, source

\* A process that ended keeps everything but its status.
LEMMA StopStep ==
    ASSUME IndInv, NEW how \in {"done", "threw", "crashed"}, Stop(how),
           UNCHANGED budget \/ (budget > 0 /\ budget' = budget - 1)
    PROVE  IndInv'
<1>1. budget' \in 0 .. MaxNodes
  BY BoundAssumption DEF IndInv, TypeOK
<1>2. TypeOK'
  BY <1>1 DEF IndInv, TypeOK, Stop, unit, scopes
<1>3. OperandsInArena' /\ ContextOK' /\ FramesOK' /\ LayersOK'
  BY DEF IndInv, Stop, unit, scopes, OperandsInArena, AllFunctions, Functions, InFunction,
         ContextOK, FramesOK, LayersOK, StorageOK
<1> QED
  BY <1>2, <1>3 DEF IndInv

\* A frame for an expression or a list holds a position.
LEMMA PositionOf ==
    ASSUME IndInv, At("list") \/ At("expr")
    PROVE  Head(todo).arg \in Position
BY AtFacts DEF FrameOK

\* ListExpression preserves the invariant.
LEMMA ListExpressionStep ==
    ASSUME IndInv, NEW two \in BOOLEAN, ListExpression(two)
    PROVE  IndInv'
<1> DEFINE xs == IF two THEN <<Child("expr", "discarded")>> ELSE <<>>
           ys == <<Child("expr", Head(todo).arg)>>
<1>1. InFunction /\ todo # <<>> /\ Sound(function, gs) /\ Head(todo).arg \in Position
  BY AtFacts, InFunctionFacts, PositionOf DEF ListExpression
<1>2. GoodFrames(function, ys)
  BY <1>1, ExpressionFrame, OneFrame
<1>3. GoodFrames(function, <<Child("expr", "discarded")>>) /\ GoodFrames(function, <<>>)
  BY ExpressionFrame, OneFrame DEF Position, GoodFrames
<1>4. GoodFrames(function, xs)
  BY <1>3
<1> HIDE DEF xs, ys
<1>5. GoodFrames(function, xs \o ys)
  BY <1>2, <1>4, ConcatFrames
<1>6. GoodFrames(function, todo')
  BY <1>1, <1>5, GrowsReflexive, ContinueStep DEF ListExpression, xs, ys
<1> QED
  BY <1>1, <1>6, StackStep DEF ListExpression, IndInv, TypeOK

\* Parentheses preserves the invariant.
LEMMA ParenthesesStep ==
    ASSUME IndInv, Parentheses
    PROVE  IndInv'
<1>1. InFunction /\ todo # <<>> /\ Sound(function, gs) /\ Head(todo).arg \in Position
  BY AtFacts, InFunctionFacts, PositionOf DEF Parentheses
<1>2. GoodFrames(function, <<Child("list", Head(todo).arg)>>)
  BY <1>1, ExpressionFrame, OneFrame
<1>3. GoodFrames(function, todo')
  BY <1>1, <1>2, GrowsReflexive, ContinueStep DEF Parentheses
<1> QED
  BY <1>1, <1>3, StackStep DEF Parentheses, Visit, IndInv, TypeOK

\* PrimaryExpression preserves the invariant.
LEMMA PrimaryExpressionStep ==
    ASSUME IndInv, NEW c \in Literals, PrimaryExpression(c)
    PROVE  IndInv'
<1> DEFINE f == [function EXCEPT !.consts = Append(@, c)]
           v == Value("CONST", Len(function.consts))
           w == Value("CONST", 0)
           instr == Instruction("ADD", "i32", <<v, w>>)
<1>1. InFunction /\ todo # <<>> /\ Sound(function, gs) /\ Len(gs) \in Nat
  BY AtFacts, InFunctionFacts DEF PrimaryExpression
<1>2. /\ Grows(function, f, gs) /\ f.instructions = function.instructions
      /\ v \in LLVMValueID /\ OperandOK(f, gs, Len(f.instructions), v)
  BY <1>1, PushConstant
<1> HIDE DEF f
<1>3. Sound(f, gs) /\ w \in LLVMValueID /\ OperandOK(f, gs, Len(f.instructions), w)
  BY <1>2, ConstantZero DEF Grows
<1>4. "ADD" \in LLVMOpcode /\ "i32" \in LLVMType
  BY DEF LLVMOpcode, LLVMType
<1> HIDE DEF v, w
<1>5. instr \in LLVMInstruction /\ instr.operands = <<v, w>>
  BY <1>2, <1>3, <1>4, PairInstruction
<1> HIDE DEF instr
<1>6. Grows(f, EmitInstr(f, instr), gs)
  BY <1>1, <1>2, <1>3, <1>5, EmitBinary
<1>7. Grows(function, function', gs)
  BY <1>1, <1>2, <1>6, GrowsTransitive DEF PrimaryExpression, f, v, w, instr
<1>8. GoodFrames(function', todo')
  BY <1>1, <1>7, PopFrame DEF PrimaryExpression
<1>9. evaluated' \in CType
  BY DEF PrimaryExpression, CType
<1> QED
  BY <1>1, <1>7, <1>8, <1>9, EmitStep DEF PrimaryExpression, Visit

\* The storage of a resolved identifier is an operand.
LEMMA ResolvedOperand ==
    ASSUME IndInv, InFunction, NEW n, Resolvable(n)
    PROVE  /\ ResolveIdentifier(n) \in LLVMValueID
           /\ OperandOK(function, gs, Len(function.instructions), ResolveIdentifier(n))
<1>1. PICK i \in DOMAIN identifiers :
         n \in DOMAIN identifiers[i] /\ ResolveIdentifier(n) = identifiers[i][n]
  BY ResolvedIsHeld DEF IndInv, TypeOK
<1> DEFINE v == identifiers[i][n]
<1>2. v \in LLVMValueID
  BY <1>1, StackElements DEF IndInv, TypeOK, IsStackOf
<1>3. StorageOK(i, v)
  BY <1>1 DEF IndInv, LayersOK
<1>4. global = <<>> /\ Len(global) = 0 /\ Len(gs) \in Nat /\ Len(function.instructions) \in Nat
  BY InFunctionFacts
<1> HIDE DEF v
<1>5. OperandOK(function, gs, Len(function.instructions), v)
  <2>1. CASE v.kind = "GLOBAL"
    <3>1. v.id \in 0 .. Len(gs) - 1
      BY <1>3, <1>4, <2>1 DEF StorageOK, gs
    <3> QED
      BY <2>1, <3>1 DEF OperandOK, InArena
  <2>2. CASE v.kind = "INSTR"
    <3>1. v.id \in 0 .. Len(function.instructions) - 1
      BY <1>3, <2>2 DEF StorageOK, InstrIDs, LastInstr
    <3> QED
      BY <1>4, <2>2, <3>1 DEF OperandOK, InArena
  <2>3. v.kind = "GLOBAL" \/ v.kind = "INSTR"
    BY <1>3 DEF StorageOK
  <2> QED
    BY <2>1, <2>2, <2>3
<1> QED
  BY <1>1, <1>2, <1>5 DEF v

\* IdentifierExpression preserves the invariant.
LEMMA IdentifierExpressionStep ==
    ASSUME IndInv, NEW n \in Names, IdentifierExpression(n)
    PROVE  IndInv'
<1> DEFINE v == ResolveIdentifier(n)
           w == Value("CONST", 0)
           instr == Instruction("ADD", "ptr", <<v, w>>)
<1>1. /\ InFunction /\ todo # <<>> /\ Sound(function, gs) /\ Len(gs) \in Nat
      /\ Resolvable(n)
  BY AtFacts, InFunctionFacts DEF IdentifierExpression
<1>2. v \in LLVMValueID /\ OperandOK(function, gs, Len(function.instructions), v)
  BY <1>1, ResolvedOperand
<1>3. w \in LLVMValueID /\ OperandOK(function, gs, Len(function.instructions), w)
  BY <1>1, ConstantZero
<1>4. "ADD" \in LLVMOpcode /\ "ptr" \in LLVMType
  BY DEF LLVMOpcode, LLVMType
<1>5. function' = EmitInstr(function, instr)
  BY DEF IdentifierExpression, EmitAddress
<1> HIDE DEF v, w
<1>6. instr \in LLVMInstruction /\ instr.operands = <<v, w>>
  BY <1>2, <1>3, <1>4, PairInstruction
<1> HIDE DEF instr
<1>7. Grows(function, function', gs)
  BY <1>1, <1>2, <1>3, <1>5, <1>6, EmitBinary
<1>8. GoodFrames(function', todo')
  BY <1>1, <1>7, PopFrame DEF IdentifierExpression
<1>9. evaluated' \in CType
  <2>1. GetOrd(table, n) \in SymbolType
    BY GetOrdType DEF IdentifierExpression, IndInv, TypeOK
  <2> QED
    BY <2>1 DEF IdentifierExpression, SymbolType
<1> QED
  BY <1>1, <1>7, <1>8, <1>9, EmitStep DEF IdentifierExpression, Visit

\* UnhandledExpression preserves the invariant.
LEMMA UnhandledExpressionStep ==
    ASSUME IndInv, NEW type \in {"int", "double"}, UnhandledExpression(type)
    PROVE  IndInv'
<1>1. InFunction /\ todo # <<>> /\ Sound(function, gs)
  BY AtFacts, InFunctionFacts DEF UnhandledExpression
<1>2. GoodFrames(function, todo')
  BY <1>1, GrowsReflexive, PopFrame DEF UnhandledExpression
<1>3. evaluated' \in CType
  BY DEF UnhandledExpression, CType
<1> QED
  BY <1>1, <1>2, <1>3, StackStep DEF UnhandledExpression, Visit

\* BinaryExpression preserves the invariant.
LEMMA BinaryExpressionStep ==
    ASSUME IndInv, NEW op \in BinaryOperator, BinaryExpression(op)
    PROVE  IndInv'
<1>1. InFunction /\ todo # <<>> /\ Sound(function, gs)
  BY AtFacts, InFunctionFacts DEF BinaryExpression
<1> DEFINE a == Child("expr", "rvalue")
           b == Frame("rvalue")
           c == Child("binaryLhs", op)
<1>2. /\ a \in FrameType /\ FrameOK(function, a)
      /\ b \in FrameType /\ FrameOK(function, b)
      /\ c \in FrameType /\ FrameOK(function, c)
  BY ExpressionFrame, PlainFrame, BinaryFrame DEF Position
<1>3. Continue(<<a, b, c>>)
  BY DEF BinaryExpression
<1> HIDE DEF a, b, c
<1>4. GoodFrames(function, todo')
  BY <1>1, <1>2, <1>3, ThreeFrames, GrowsReflexive, ContinueStep
<1> QED
  BY <1>1, <1>4, StackStep DEF BinaryExpression, Visit, IndInv, TypeOK

\* BinaryLhs preserves the invariant.
LEMMA BinaryLhsStep ==
    ASSUME IndInv, BinaryLhs
    PROVE  IndInv'
<1>1. /\ InFunction /\ todo # <<>> /\ Sound(function, gs)
      /\ function \in FunctionType /\ evaluated \in CType
      /\ Head(todo).arg \in BinaryOperator
  BY AtFacts, InFunctionFacts DEF BinaryLhs, FrameOK, IndInv, TypeOK
<1> DEFINE a == Child("expr", "rvalue")
           b == Frame("rvalue")
           c == Resume("binary", Head(todo).arg, evaluated, <<LastInstr(function)>>)
<1>2. LastInstr(function) \in NPos .. LastInstr(function)
  BY <1>1, LatestOperand
<1>3. /\ a \in FrameType /\ FrameOK(function, a)
      /\ b \in FrameType /\ FrameOK(function, b)
      /\ c \in FrameType /\ FrameOK(function, c)
  BY <1>1, <1>2, ExpressionFrame, PlainFrame, SavedBinary DEF Position
<1>4. Continue(<<a, b, c>>)
  BY DEF BinaryLhs
<1> HIDE DEF a, b, c
<1>5. GoodFrames(function, todo')
  BY <1>1, <1>3, <1>4, ThreeFrames, GrowsReflexive, ContinueStep
<1> QED
  BY <1>1, <1>5, StackStep DEF BinaryLhs, source

\* FinishBinary preserves the invariant.
LEMMA FinishBinaryStep ==
    ASSUME IndInv, FinishBinary
    PROVE  IndInv'
<1> DEFINE frame == Head(todo)
           v == Value("INSTR", LastInstr(function))
           w == Value("INSTR", frame.ids[1])
           instr == BinaryInstr(frame.arg, LastInstr(function), frame.ids[1], frame.type)
<1>1. /\ InFunction /\ todo # <<>> /\ Sound(function, gs) /\ Len(gs) \in Nat
      /\ frame \in FrameType /\ frame.arg \in BinaryOperator
      /\ frame.ids[1] \in NPos .. LastInstr(function)
  BY AtFacts, InFunctionFacts DEF FinishBinary, FrameOK
<1>2. frame.type \in CType /\ evaluated \in CType
  BY <1>1 DEF FrameType, IndInv, TypeOK
<1>3. /\ v \in LLVMValueID /\ OperandOK(function, gs, Len(function.instructions), v)
      /\ w \in LLVMValueID /\ OperandOK(function, gs, Len(function.instructions), w)
  BY <1>1, LatestOperand, SavedOperand
<1>4. instr \in LLVMInstruction /\ instr.operands = <<v, w>>
  BY <1>1, <1>2, <1>3, BinaryInstrType
<1>5. function' = EmitInstr(function, instr)
  BY DEF FinishBinary
<1>6. evaluated' \in CType
  <2>1. evaluated' = "int" \/ evaluated' = PromotedType(evaluated, frame.type)
    BY DEF FinishBinary
  <2> QED
    BY <2>1, <1>2, Promotion DEF CType
<1> HIDE DEF frame, v, w, instr
<1>7. Grows(function, function', gs)
  BY <1>1, <1>3, <1>4, <1>5, EmitBinary
<1>8. GoodFrames(function', todo')
  BY <1>1, <1>7, PopFrame DEF FinishBinary
<1> QED
  BY <1>1, <1>6, <1>7, <1>8, EmitStep DEF FinishBinary, source

\* AssignmentExpression preserves the invariant.
LEMMA AssignmentExpressionStep ==
    ASSUME IndInv, NEW op \in AssignmentOperator, AssignmentExpression(op)
    PROVE  IndInv'
<1>1. InFunction /\ todo # <<>> /\ Sound(function, gs)
  BY AtFacts, InFunctionFacts DEF AssignmentExpression
<1> DEFINE a == Child("expr", "rvalue")
           b == Frame("rvalue")
           c == Child("assignLhs", op)
<1>2. /\ a \in FrameType /\ FrameOK(function, a)
      /\ b \in FrameType /\ FrameOK(function, b)
      /\ c \in FrameType /\ FrameOK(function, c)
  BY ExpressionFrame, PlainFrame, AssignmentFrame DEF Position
<1>3. Continue(<<a, b, c>>)
  BY DEF AssignmentExpression
<1> HIDE DEF a, b, c
<1>4. GoodFrames(function, todo')
  BY <1>1, <1>2, <1>3, ThreeFrames, GrowsReflexive, ContinueStep
<1> QED
  BY <1>1, <1>4, StackStep DEF AssignmentExpression, Visit, IndInv, TypeOK

\* AssignmentLhs preserves the invariant.
LEMMA AssignmentLhsStep ==
    ASSUME IndInv, AssignmentLhs
    PROVE  IndInv'
<1>1. /\ InFunction /\ todo # <<>> /\ Sound(function, gs)
      /\ function \in FunctionType /\ evaluated \in CType
      /\ Head(todo).arg \in AssignmentOperator
  BY AtFacts, InFunctionFacts DEF AssignmentLhs, FrameOK, IndInv, TypeOK
<1> DEFINE a == Frame("lvalue")
           b == Resume("assign", Head(todo).arg, evaluated, <<LastInstr(function)>>)
<1>2. LastInstr(function) \in NPos .. LastInstr(function)
  BY <1>1, LatestOperand
<1>3. /\ a \in FrameType /\ FrameOK(function, a)
      /\ b \in FrameType /\ FrameOK(function, b)
  BY <1>1, <1>2, PlainFrame, SavedAssignment
<1>4. Continue(<<a, b>>)
  BY DEF AssignmentLhs
<1> HIDE DEF a, b
<1>5. GoodFrames(function, todo')
  BY <1>1, <1>3, <1>4, TwoFrames, GrowsReflexive, ContinueStep
<1> QED
  BY <1>1, <1>5, StackStep DEF AssignmentLhs, source

\* FinishAssignment preserves the invariant.
LEMMA FinishAssignmentStep ==
    ASSUME IndInv, FinishAssignment
    PROVE  IndInv'
<1>1. /\ InFunction /\ todo # <<>> /\ Sound(function, gs) /\ Len(gs) \in Nat
      /\ Head(todo).ids[1] \in NPos .. LastInstr(function)
  BY AtFacts, InFunctionFacts DEF FinishAssignment, FrameOK
<1>2. LastInstr(function) \in NPos .. LastInstr(function)
  BY <1>1, LatestOperand
<1>3. Grows(function, function', gs)
  BY <1>1, <1>2, AssignSound DEF FinishAssignment
<1>4. GoodFrames(function', todo')
  BY <1>1, <1>3, PopFrame DEF FinishAssignment
<1> QED
  BY <1>1, <1>3, <1>4, EmitStep DEF FinishAssignment, source, IndInv, TypeOK

\* Every expression handler preserves the invariant.
LEMMA ExpressionsStep ==
    ASSUME IndInv, Expressions
    PROVE  IndInv'
<1>1. CASE EvaluateAsRValue
  BY <1>1, EvaluateAsRValueStep
<1>2. CASE EvaluateAsRValueThrows
  BY <1>2, StopStep DEF EvaluateAsRValueThrows, source
<1>3. CASE \E two \in BOOLEAN : ListExpression(two)
  BY <1>3, ListExpressionStep
<1>4. CASE Parentheses
  BY <1>4, ParenthesesStep
<1>5. CASE \E c \in Literals : PrimaryExpression(c)
  BY <1>5, PrimaryExpressionStep
<1>6. CASE \E n \in Names : IdentifierExpression(n)
  BY <1>6, IdentifierExpressionStep
<1>7. CASE UntypedOperand \/ \E n \in Names : IdentifierThrows(n)
  BY <1>7, StopStep DEF UntypedOperand, IdentifierThrows, Visit
<1>8. CASE \E t \in {"int", "double"} : UnhandledExpression(t)
  BY <1>8, UnhandledExpressionStep
<1>9. CASE \E op \in Operators \cap BinaryOperator : BinaryExpression(op)
  BY <1>9, BinaryExpressionStep
<1>10. CASE BinaryLhs
  BY <1>10, BinaryLhsStep
<1>11. CASE FinishBinary
  BY <1>11, FinishBinaryStep
<1>12. CASE \E op \in Operators \cap AssignmentOperator : AssignmentExpression(op)
  BY <1>12, AssignmentExpressionStep
<1>13. CASE AssignmentLhs
  BY <1>13, AssignmentLhsStep
<1>14. CASE FinishAssignment
  BY <1>14, FinishAssignmentStep
<1> QED
  BY <1>1, <1>2, <1>3, <1>4, <1>5, <1>6, <1>7, <1>8, <1>9, <1>10, <1>11, <1>12, <1>13,
     <1>14 DEF Expressions

-----------------------------------------------------------------------------
(* The statement handlers *)

\* A step inside a body that changes SemaVisitor's table but neither the
\* function nor the identifier layers.
LEMMA TableStep ==
    ASSUME IndInv, InFunction, UNCHANGED <<function, identifiers>>, UNCHANGED unit,
           UNCHANGED <<status, evaluated>>, initialising' \in Names \cup {NoName},
           GoodFrames(function, todo'), IsStackOf(table', Names, SymbolType),
           UNCHANGED budget \/ (budget > 0 /\ budget' = budget - 1)
    PROVE  IndInv'
<1>1. Grows(function, function', gs)
  BY InFunctionFacts, GrowsReflexive
<1>2. /\ IsStackOf(identifiers', Names, LLVMValueID) /\ identifiers' # <<>> /\ LayersOK'
  BY <1>1, SameLayers
<1>3. budget' \in 0 .. MaxNodes
  BY BoundAssumption DEF IndInv, TypeOK
<1>4. status' \in {"visiting", "done", "threw", "crashed"} /\ evaluated' \in CType
  BY DEF IndInv, TypeOK
<1> QED
  BY <1>1, <1>2, <1>3, <1>4, BodyStep

\* NextStatement preserves the invariant.
LEMMA NextStatementStep ==
    ASSUME IndInv, NextStatement
    PROVE  IndInv'
<1>1. /\ InFunction /\ todo # <<>> /\ Sound(function, gs)
      /\ function \in FunctionType /\ Extends(function, function)
  BY AtFacts, InFunctionFacts, GrowsReflexive DEF NextStatement, Grows
<1>2. GoodFrames(function, <<Frame("stmt")>>)
  BY PlainFrame, OneFrame
<1>3. GoodFrames(function, todo)
  BY <1>1, OldFrames
<1>4. GoodFrames(function, todo')
  BY <1>2, <1>3, ConcatFrames DEF NextStatement
<1> QED
  BY <1>1, <1>4, StackStep DEF NextStatement, source, IndInv, TypeOK

\* CompoundStatement preserves the invariant.
LEMMA CompoundStatementStep ==
    ASSUME IndInv, CompoundStatement
    PROVE  IndInv'
<1>1. InFunction /\ todo # <<>> /\ Sound(function, gs)
  BY AtFacts, InFunctionFacts DEF CompoundStatement
<1> DEFINE a == Frame("decls")
           b == Frame("stmts")
           c == Frame("endScope")
<1>2. /\ a \in FrameType /\ FrameOK(function, a)
      /\ b \in FrameType /\ FrameOK(function, b)
      /\ c \in FrameType /\ FrameOK(function, c)
  BY PlainFrame
<1>3. Continue(<<a, b, c>>)
  BY DEF CompoundStatement
<1> HIDE DEF a, b, c
<1>4. GoodFrames(function, todo')
  BY <1>1, <1>2, <1>3, ThreeFrames, GrowsReflexive, ContinueStep
<1>5. IsStackOf(table', Names, SymbolType)
  BY EmptyMap, PushStack DEF CompoundStatement, PushScope, IndInv, TypeOK
<1> QED
  BY <1>1, <1>4, <1>5, TableStep DEF CompoundStatement, Visit, IndInv, TypeOK

\* EndCompound preserves the invariant.
LEMMA EndCompoundStep ==
    ASSUME IndInv, EndCompound
    PROVE  IndInv'
<1>1. InFunction /\ todo # <<>> /\ Sound(function, gs)
  BY AtFacts, InFunctionFacts DEF EndCompound
<1>2. GoodFrames(function, todo')
  BY <1>1, GrowsReflexive, PopFrame DEF EndCompound
<1>3. IsStackOf(table', Names, SymbolType)
  BY PopStack DEF EndCompound, PopScope, IndInv, TypeOK
<1> QED
  BY <1>1, <1>2, <1>3, TableStep DEF EndCompound, source, IndInv, TypeOK

\* ExpressionStatement preserves the invariant.
LEMMA ExpressionStatementStep ==
    ASSUME IndInv, ExpressionStatement
    PROVE  IndInv'
<1>1. InFunction /\ todo # <<>> /\ Sound(function, gs)
  BY AtFacts, InFunctionFacts DEF ExpressionStatement
<1>2. GoodFrames(function, <<Child("list", "discarded")>>)
  BY ExpressionFrame, OneFrame DEF Position
<1>3. GoodFrames(function, todo')
  BY <1>1, <1>2, GrowsReflexive, ContinueStep DEF ExpressionStatement
<1> QED
  BY <1>1, <1>3, StackStep DEF ExpressionStatement, Visit, IndInv, TypeOK

\* UnhandledStatement preserves the invariant.
LEMMA UnhandledStatementStep ==
    ASSUME IndInv, UnhandledStatement
    PROVE  IndInv'
<1>1. InFunction /\ todo # <<>> /\ Sound(function, gs)
  BY AtFacts, InFunctionFacts DEF UnhandledStatement
<1>2. GoodFrames(function, todo')
  BY <1>1, GrowsReflexive, PopFrame DEF UnhandledStatement
<1> QED
  BY <1>1, <1>2, StackStep DEF UnhandledStatement, Visit, IndInv, TypeOK

\* IfStatement preserves the invariant.
LEMMA IfStatementStep ==
    ASSUME IndInv, IfStatement
    PROVE  IndInv'
<1>1. InFunction /\ todo # <<>> /\ Sound(function, gs)
  BY AtFacts, InFunctionFacts DEF IfStatement
<1> DEFINE a == Child("list", "unloaded")
           b == Frame("ifThen")
<1>2. /\ a \in FrameType /\ FrameOK(function, a)
      /\ b \in FrameType /\ FrameOK(function, b)
  BY ExpressionFrame, PlainFrame DEF Position
<1>3. Continue(<<a, b>>)
  BY DEF IfStatement
<1> HIDE DEF a, b
<1>4. GoodFrames(function, todo')
  BY <1>1, <1>2, <1>3, TwoFrames, GrowsReflexive, ContinueStep
<1> QED
  BY <1>1, <1>4, StackStep DEF IfStatement, Visit, IndInv, TypeOK

\* IfThen preserves the invariant.
LEMMA IfThenStep ==
    ASSUME IndInv, IfThen
    PROVE  IndInv'
<1> DEFINE ifID == Len(function.instructions)
           a == Frame("stmt")
           b == Resume("ifElse", "", "void", <<ifID, ifID + 1>>)
<1>1. InFunction /\ todo # <<>> /\ Sound(function, gs) /\ Len(gs) \in Nat
  BY AtFacts, InFunctionFacts DEF IfThen
<1>2. /\ Grows(function, function', gs)
      /\ BranchTo(function', ifID, 3) /\ BranchTo(function', ifID + 1, 1)
  BY <1>1, StartIfSound DEF IfThen
<1>3. /\ a \in FrameType /\ FrameOK(function', a)
      /\ b \in FrameType /\ FrameOK(function', b)
  BY <1>2, PlainFrame, IfElseFrame DEF Grows, Sound
<1>4. Continue(<<a, b>>)
  BY DEF IfThen
<1> HIDE DEF a, b
<1>5. GoodFrames(function', todo')
  BY <1>1, <1>2, <1>3, <1>4, TwoFrames, ContinueStep
<1> QED
  BY <1>1, <1>2, <1>5, EmitStep DEF IfThen, source, IndInv, TypeOK

\* The ids a suspended visit(IfStatement) holds.
LEMMA SuspendedIf ==
    ASSUME IndInv, At("ifElse") \/ At("ifEnd")
    PROVE  LET ids == Head(todo).ids
           IN /\ ids \in Seq(Nat \cup {NPos})
              /\ Len(ids) = IF Head(todo).at = "ifElse" THEN 2 ELSE 3
              /\ BranchTo(function, ids[1], 3) /\ BranchTo(function, ids[2], 1)
              /\ Head(todo).at = "ifEnd" => BranchTo(function, ids[3], 1)
<1> DEFINE ids == Head(todo).ids
<1>1. /\ Head(todo) \in FrameType /\ FrameOK(function, Head(todo))
      /\ Head(todo).at \in {"ifElse", "ifEnd"}
  BY AtFacts
<1>2. /\ Len(ids) = (IF Head(todo).at = "ifElse" THEN 2 ELSE 3)
      /\ BranchTo(function, ids[1], 3)
      /\ \A j \in 2 .. Len(ids) : BranchTo(function, ids[j], 1)
  BY <1>1 DEF FrameOK
<1>3. ids \in Seq(Nat \cup {NPos})
  BY <1>1 DEF FrameType
<1>4. 2 \in 2 .. Len(ids) /\ (Head(todo).at = "ifEnd" => 3 \in 2 .. Len(ids))
  BY <1>1, <1>2
<1> QED
  BY <1>2, <1>3, <1>4

\* IfElse preserves the invariant.
LEMMA IfElseStep ==
    ASSUME IndInv, IfElse
    PROVE  IndInv'
<1> DEFINE ids == Head(todo).ids
           endIndex == Len(function.instructions)
           f == EmitInstr(function, JumpEnd)
           a == Frame("stmt")
           b == Resume("ifEnd", "", "void", Append(ids, endIndex))
<1>1. /\ InFunction /\ todo # <<>> /\ Sound(function, gs) /\ Len(gs) \in Nat
      /\ function \in FunctionType
  BY AtFacts, InFunctionFacts DEF IfElse
<1>2. /\ ids \in Seq(Nat \cup {NPos}) /\ Len(ids) = 2
      /\ BranchTo(function, ids[1], 3) /\ BranchTo(function, ids[2], 1)
  BY SuspendedIf, AtFacts DEF IfElse
<1>3. Grows(function, f, gs) /\ BranchTo(f, endIndex, 1)
  BY <1>1, EmitJumpEnd
<1>4. function' = StartElse(f, ids[1]) /\ Continue(<<a, b>>)
  BY DEF IfElse
<1> HIDE DEF ids, f, a, endIndex
<1>5. BranchTo(f, ids[1], 3)
  BY <1>1, <1>2, <1>3, BranchGrows DEF Grows, Sound
<1>6. Grows(f, function', gs)
  BY <1>1, <1>3, <1>4, <1>5, StartElseSound DEF Grows
<1>7. Grows(function, function', gs)
  BY <1>1, <1>3, <1>6, GrowsTransitive
<1>8. /\ function' \in FunctionType
      /\ BranchTo(function', ids[1], 3) /\ BranchTo(function', ids[2], 1)
      /\ BranchTo(function', endIndex, 1)
  BY <1>1, <1>2, <1>3, <1>6, <1>7, BranchGrows DEF Grows, Sound
<1>9. /\ a \in FrameType /\ FrameOK(function', a)
      /\ b \in FrameType /\ FrameOK(function', b)
  BY <1>2, <1>8, PlainFrame, IfEndFrame DEF a
<1> HIDE DEF b
<1>10. GoodFrames(function', todo')
  BY <1>1, <1>4, <1>7, <1>9, TwoFrames, ContinueStep
<1> QED
  BY <1>1, <1>7, <1>10, EmitStep DEF IfElse, IndInv, TypeOK

\* IfWithoutElse preserves the invariant.
LEMMA IfWithoutElseStep ==
    ASSUME IndInv, IfWithoutElse
    PROVE  IndInv'
<1> DEFINE ids == Head(todo).ids
           endIndex == Len(function.instructions)
           f == EmitInstr(function, JumpEnd)
<1>1. /\ InFunction /\ todo # <<>> /\ Sound(function, gs) /\ Len(gs) \in Nat
      /\ function \in FunctionType
  BY AtFacts, InFunctionFacts DEF IfWithoutElse
<1>2. BranchTo(function, ids[1], 3) /\ BranchTo(function, ids[2], 1)
  BY SuspendedIf, AtFacts DEF IfWithoutElse
<1>3. Grows(function, f, gs) /\ BranchTo(f, endIndex, 1)
  BY <1>1, EmitJumpEnd
<1>4. function' = EndIf(f, ids[1], ids[2], endIndex)
  BY DEF IfWithoutElse
<1> HIDE DEF ids, f, endIndex
<1>5. BranchTo(f, ids[1], 3) /\ BranchTo(f, ids[2], 1)
  BY <1>1, <1>2, <1>3, BranchGrows DEF Grows, Sound
<1>6. Grows(f, function', gs)
  BY <1>1, <1>3, <1>4, <1>5, EndIfSound DEF Grows
<1>7. Grows(function, function', gs)
  BY <1>1, <1>3, <1>6, GrowsTransitive
<1>8. GoodFrames(function', todo')
  BY <1>1, <1>7, PopFrame DEF IfWithoutElse
<1> QED
  BY <1>1, <1>7, <1>8, EmitStep DEF IfWithoutElse, IndInv, TypeOK

\* IfEnd preserves the invariant.
LEMMA IfEndStep ==
    ASSUME IndInv, IfEnd
    PROVE  IndInv'
<1>1. InFunction /\ todo # <<>> /\ Sound(function, gs) /\ Len(gs) \in Nat
  BY AtFacts, InFunctionFacts DEF IfEnd
<1>2. /\ BranchTo(function, Head(todo).ids[1], 3) /\ BranchTo(function, Head(todo).ids[2], 1)
      /\ BranchTo(function, Head(todo).ids[3], 1)
  BY SuspendedIf, AtFacts DEF IfEnd
<1>3. Grows(function, function', gs)
  BY <1>1, <1>2, EndIfSound DEF IfEnd
<1>4. GoodFrames(function', todo')
  BY <1>1, <1>3, PopFrame DEF IfEnd
<1> QED
  BY <1>1, <1>3, <1>4, EmitStep DEF IfEnd, source, IndInv, TypeOK

\* ReturnExpression preserves the invariant.
LEMMA ReturnExpressionStep ==
    ASSUME IndInv, ReturnExpression
    PROVE  IndInv'
<1>1. InFunction /\ todo # <<>> /\ Sound(function, gs)
  BY AtFacts, InFunctionFacts DEF ReturnExpression
<1> DEFINE a == Child("list", "rvalue")
           b == Frame("rvalue")
           c == Frame("return")
<1>2. /\ a \in FrameType /\ FrameOK(function, a)
      /\ b \in FrameType /\ FrameOK(function, b)
      /\ c \in FrameType /\ FrameOK(function, c)
  BY ExpressionFrame, PlainFrame DEF Position
<1>3. Continue(<<a, b, c>>)
  BY DEF ReturnExpression
<1> HIDE DEF a, b, c
<1>4. GoodFrames(function, todo')
  BY <1>1, <1>2, <1>3, ThreeFrames, GrowsReflexive, ContinueStep
<1> QED
  BY <1>1, <1>4, StackStep DEF ReturnExpression, Visit, IndInv, TypeOK

\* FinishReturn preserves the invariant.
LEMMA FinishReturnStep ==
    ASSUME IndInv, FinishReturn
    PROVE  IndInv'
<1> DEFINE v == Value("INSTR", LastInstr(function))
<1>1. /\ InFunction /\ todo # <<>> /\ Sound(function, gs) /\ Len(gs) \in Nat
      /\ evaluated \in CType
  BY AtFacts, InFunctionFacts DEF FinishReturn, IndInv, TypeOK
<1>2. "RET" \in LLVMOpcode /\ toLLVMType(evaluated) \in LLVMType
  BY <1>1, ToLLVMType DEF LLVMOpcode
<1>3. v \in LLVMValueID /\ OperandOK(function, gs, Len(function.instructions), v)
  BY <1>1, LatestOperand
<1>4. function' = EmitInstr(function, Instruction("RET", toLLVMType(evaluated), <<v>>))
  BY DEF FinishReturn
<1> HIDE DEF v
<1>5. Grows(function, function', gs)
  BY <1>1, <1>2, <1>3, <1>4, EmitUnary
<1>6. GoodFrames(function', todo')
  BY <1>1, <1>5, PopFrame DEF FinishReturn
<1> QED
  BY <1>1, <1>5, <1>6, EmitStep DEF FinishReturn, source

\* ReturnVoid preserves the invariant.
LEMMA ReturnVoidStep ==
    ASSUME IndInv, ReturnVoid
    PROVE  IndInv'
<1>1. InFunction /\ todo # <<>> /\ Sound(function, gs) /\ Len(gs) \in Nat
  BY AtFacts, InFunctionFacts DEF ReturnVoid
<1>2. "RET" \in LLVMOpcode /\ "void" \in LLVMType
  BY DEF LLVMOpcode, LLVMType
<1>3. Grows(function, function', gs)
  BY <1>1, <1>2, EmitNullary DEF ReturnVoid
<1>4. GoodFrames(function', todo')
  BY <1>1, <1>3, PopFrame DEF ReturnVoid
<1> QED
  BY <1>1, <1>3, <1>4, EmitStep DEF ReturnVoid, Visit, IndInv, TypeOK

\* Every statement handler preserves the invariant.
LEMMA StatementsStep ==
    ASSUME IndInv, Statements
    PROVE  IndInv'
<1>1. CASE EmptyStatement
  BY <1>1, StopStep DEF EmptyStatement, Visit
<1> QED
  BY <1>1, NextStatementStep, CompoundStatementStep, EndCompoundStep, ExpressionStatementStep,
     UnhandledStatementStep, IfStatementStep, IfThenStep, IfElseStep, IfWithoutElseStep,
     IfEndStep, ReturnExpressionStep, FinishReturnStep, ReturnVoidStep DEF Statements

-----------------------------------------------------------------------------
(* The declaration handlers *)

\* A symbol with a type and a storage is well-typed.
LEMMA SymbolTyped ==
    ASSUME NEW type \in CType, NEW v \in LLVMValueID
    PROVE  Symbol(type, v) \in SymbolType
BY DEF Symbol, SymbolType

\* The declared types are C types.
LEMMA VarTypesAreTypes == VarTypes \subseteq CType
BY TypesAssumption DEF CType

\* Binding a name in the innermost layer to storage of the grown function.
LEMMA BindLayers ==
    ASSUME NEW layers, IsStackOf(layers, Names, LLVMValueID), layers # <<>>,
           NEW n \in Names, NEW v \in LLVMValueID
    PROVE  LET new == BindCurrent(layers, n, v)
           IN /\ IsStackOf(new, Names, LLVMValueID) /\ new # <<>>
              /\ Len(new) = Len(layers)
              /\ \A i \in 1 .. Len(new) : \A m \in DOMAIN new[i] :
                   \/ i = Len(layers) /\ new[i][m] = v
                   \/ m \in DOMAIN layers[i] /\ new[i][m] = layers[i][m]
<1> DEFINE top == layers[Len(layers)]
           map == Bind(top, n, v)
           new == BindCurrent(layers, n, v)
<1>1. Len(layers) \in 1 .. Len(layers) /\ MapInto(top, Names, LLVMValueID)
  <2>1. PICK S : layers \in Seq(S)
    BY StackElements
  <2>2. Len(layers) \in 1 .. Len(layers)
    BY <2>1
  <2> QED
    BY <2>2, StackElements
<1>2. /\ MapInto(map, Names, LLVMValueID)
      /\ \A m \in DOMAIN map : map[m] = v \/ (m \in DOMAIN top /\ map[m] = top[m])
  BY <1>1, BindMap
<1>3. new = [layers EXCEPT ![Len(layers)] = map]
  BY DEF BindCurrent
<1> HIDE DEF map, new, top
<1>6. layers # <<>> => MapInto(map, Names, LLVMValueID)
  BY <1>2
<1>4. /\ IsStackOf(new, Names, LLVMValueID) /\ Len(new) = Len(layers)
      /\ new # <<>> /\ new[Len(layers)] = map
      /\ \A i \in 1 .. Len(layers) : i # Len(layers) => new[i] = layers[i]
  <2> DEFINE t == [layers EXCEPT ![Len(layers)] = map]
  <2>1. /\ IsStackOf(t, Names, LLVMValueID) /\ Len(t) = Len(layers)
        /\ layers # <<>> => t # <<>> /\ t[Len(layers)] = map
        /\ \A i \in 1 .. Len(layers) : i # Len(layers) => t[i] = layers[i]
    BY <1>6, ReplaceTop
  <2> HIDE DEF t
  <2> QED
    BY <1>3, <2>1 DEF t
<1>5. ASSUME NEW i \in 1 .. Len(new), NEW m \in DOMAIN new[i]
      PROVE  \/ i = Len(layers) /\ new[i][m] = v
             \/ m \in DOMAIN layers[i] /\ new[i][m] = layers[i][m]
  <2>1. CASE i = Len(layers)
    BY <2>1, <1>2, <1>4 DEF top
  <2>2. CASE i # Len(layers)
    BY <2>2, <1>4
  <2> QED
    BY <2>1, <2>2
<1> QED
  BY <1>4, <1>5 DEF new

\* LayersOK, of given values of the variables.
Stored(f, globals, pending, depth, i, v) ==
    \/ v.kind = "GLOBAL" /\ v.id \in 0 .. Len(globals) + Len(pending) - 1
    \/ f # NoFunction /\ i = depth /\ v.kind = "INSTR" /\ v.id \in InstrIDs(f)
AllStored(layers, f, globals, pending) ==
    \A i \in DOMAIN layers : \A n \in DOMAIN layers[i] :
        Stored(f, globals, pending, Len(layers), i, layers[i][n])

\* LayersOK restated over the variables it reads, before and after a step.
LEMMA LayersAreStored ==
    /\ LayersOK <=> AllStored(identifiers, function, module.globals, global)
    /\ LayersOK' <=> AllStored(identifiers', function', module'.globals, global')
BY DEF LayersOK, StorageOK, AllStored, Stored, InFunction

\* visit(IdentifierDeclarator) in a function keeps the tables and layers
\* right.
LEMMA DeclareLocalStep ==
    ASSUME IndInv, InFunction, NEW n \in Names, NEW type \in VarTypes, DeclareLocal(n, type),
           Grows(function, function', gs), UNCHANGED unit,
           Len(function.instructions) \in InstrIDs(function')
    PROVE  /\ IsStackOf(identifiers', Names, LLVMValueID)
           /\ identifiers' # <<>> /\ LayersOK'
           /\ IsStackOf(table', Names, SymbolType)
<1> DEFINE v == Value("INSTR", Len(function.instructions))
<1>1. /\ identifiers # <<>> /\ CurrentLayers = identifiers
      /\ IsStackOf(identifiers, Names, LLVMValueID)
      /\ IsStackOf(table, Names, SymbolType)
      /\ Len(function.instructions) \in Nat /\ function \in FunctionType
  BY InFunctionFacts DEF CurrentLayers, IndInv, TypeOK
<1>2. v \in LLVMValueID /\ v.kind = "INSTR" /\ v.id = Len(function.instructions)
  BY <1>1 DEF LLVMValueID, LLVMValueKind, Value
<1>3. /\ identifiers' = BindCurrent(identifiers, n, v)
      /\ table' = AddToScope(table, n, Symbol(type, v))
  BY <1>1 DEF DeclareLocal
<1> HIDE DEF v
<1>4. IsStackOf(table', Names, SymbolType)
  BY <1>1, <1>2, <1>3, SymbolTyped, VarTypesAreTypes, AddToScopeStack
<1>5. /\ IsStackOf(identifiers', Names, LLVMValueID) /\ identifiers' # <<>>
      /\ Len(identifiers') = Len(identifiers)
      /\ \A i \in 1 .. Len(identifiers') : \A m \in DOMAIN identifiers'[i] :
           \/ i = Len(identifiers) /\ identifiers'[i][m] = v
           \/ m \in DOMAIN identifiers[i] /\ identifiers'[i][m] = identifiers[i][m]
  BY <1>1, <1>2, <1>3, BindLayers
<1>6. InFunction' /\ InstrIDs(function) \subseteq InstrIDs(function')
  BY <1>1, SoundIsFunction, FunctionFields
  DEF Grows, Sound, Extends, ArenasGrow, InFunction, InstrIDs, LastInstr
<1>7. DOMAIN identifiers = 1 .. Len(identifiers) /\ DOMAIN identifiers' = 1 .. Len(identifiers')
  BY <1>1, <1>5, StackElements
<1>8. ASSUME NEW i \in DOMAIN identifiers', NEW m \in DOMAIN identifiers'[i]
      PROVE  Stored(function', gs, global, Len(identifiers'), i, identifiers'[i][m])
  <2>1. CASE i = Len(identifiers) /\ identifiers'[i][m] = v
    BY <2>1, <1>2, <1>5, <1>6 DEF Stored, InFunction
  <2>2. CASE m \in DOMAIN identifiers[i] /\ identifiers'[i][m] = identifiers[i][m]
    <3>1. Stored(function, gs, global, Len(identifiers), i, identifiers[i][m])
      BY <2>2, <1>5, <1>7, LayersAreStored DEF IndInv, AllStored, gs
    <3> QED
      BY <3>1, <2>2, <1>5, <1>6 DEF Stored, InFunction
  <2> QED
    BY <2>1, <2>2, <1>5, <1>7
<1>9. LayersOK'
  BY <1>8, LayersAreStored DEF AllStored, unit, gs
<1> QED
  BY <1>4, <1>5, <1>9

\* ... and the alloca that gives it that storage.
LEMMA AllocaSound ==
    ASSUME NEW globals, Len(globals) \in Nat, NEW f, Sound(f, globals), NEW type \in VarTypes
    PROVE  /\ Grows(f, EmitInstr(f, Alloca(type)), globals)
           /\ Len(f.instructions) \in InstrIDs(EmitInstr(f, Alloca(type)))
<1>1. "ALLOCA" \in LLVMOpcode /\ toLLVMType(type) \in LLVMType
  BY VarTypesAreTypes, ToLLVMType DEF LLVMOpcode
<1>2. Grows(f, EmitInstr(f, Alloca(type)), globals)
  BY <1>1, EmitNullary DEF Alloca
<1>3. <<>> \in Seq(LLVMValueID)
  OBVIOUS
<1>4. Alloca(type) \in LLVMInstruction
  BY <1>1, <1>3 DEF Alloca, Instruction, LLVMInstruction, LLVMCmpCond
<1>5. /\ f \in FunctionType /\ f.blocks # <<>> /\ Len(f.instructions) \in Nat
      /\ f.instructions \in Seq(LLVMInstruction)
  BY FunctionFields DEF Sound
<1>6. EmitInstr(f, Alloca(type)).instructions = Append(f.instructions, Alloca(type))
  BY <1>4, <1>5, EmitInstrShape
<1>7. Len(Append(f.instructions, Alloca(type))) = Len(f.instructions) + 1
  BY <1>4, <1>5, AppendProperties
<1>8. Len(f.instructions) \in InstrIDs(EmitInstr(f, Alloca(type)))
  BY <1>5, <1>6, <1>7 DEF InstrIDs, LastInstr
<1> QED
  BY <1>2, <1>8

\* An instruction stays in the arena while the function grows.
LEMMA StillThere ==
    ASSUME NEW globals, NEW f, Sound(f, globals), NEW g, Grows(f, g, globals),
           NEW id \in InstrIDs(f)
    PROVE  id \in InstrIDs(g)
BY FunctionFields DEF Grows, Sound, Extends, ArenasGrow, InstrIDs, LastInstr

\* A pointer or array declarator keeps the tables well-typed.
LEMMA DeclarePointerStep ==
    ASSUME IndInv, NEW n \in Names, DeclarePointer(n)
    PROVE  IsStackOf(table', Names, SymbolType)
<1>1. NoStorage \in LLVMValueID /\ "ptr" \in CType
  BY DEF NoStorage, Value, LLVMValueID, LLVMValueKind, CType
<1>2. Symbol("ptr", NoStorage) \in SymbolType
  BY <1>1, SymbolTyped
<1> QED
  BY <1>2, AddToScopeStack DEF DeclarePointer, IndInv, TypeOK

\* Visiting a node leaves the budget in range.
LEMMA VisitBudget ==
    ASSUME IndInv, UNCHANGED budget \/ (budget > 0 /\ budget' = budget - 1)
    PROVE  budget' \in 0 .. MaxNodes
BY BoundAssumption DEF IndInv, TypeOK

\* A call stack that is unchanged stays good while the function grows.
LEMMA SameStack ==
    ASSUME IndInv, NEW g, Grows(function, g, gs)
    PROVE  GoodFrames(g, todo)
BY OldFrames DEF Grows, Sound
\* ParameterIdentifier preserves the invariant.
LEMMA ParameterIdentifierStep ==
    ASSUME IndInv, NEW n \in VarNames, NEW type \in VarTypes, ParameterIdentifier(n, type)
    PROVE  IndInv'
<1> DEFINE f == EmitInstr(function, Alloca(type))
<1>1. InFunction /\ Sound(function, gs) /\ Len(gs) \in Nat /\ n \in Names
  BY AtFacts, InFunctionFacts DEF ParameterIdentifier, Names
<1>2. Grows(function, f, gs) /\ Len(function.instructions) \in InstrIDs(f)
  BY <1>1, AllocaSound
<1>3. function' = AddParameter(f, n)
  BY DEF ParameterIdentifier
<1> HIDE DEF f
<1>4. Grows(f, function', gs)
  BY <1>1, <1>2, <1>3, AddParameterSound DEF Grows
<1>5. Grows(function, function', gs) /\ Len(function.instructions) \in InstrIDs(function')
  BY <1>1, <1>2, <1>4, GrowsTransitive, StillThere DEF Grows
<1>6. /\ IsStackOf(identifiers', Names, LLVMValueID)
      /\ identifiers' # <<>> /\ LayersOK'
      /\ IsStackOf(table', Names, SymbolType)
  BY <1>1, <1>5, DeclareLocalStep DEF ParameterIdentifier
<1>7. GoodFrames(function', todo')
  BY <1>5, SameStack DEF ParameterIdentifier
<1>8. budget' \in 0 .. MaxNodes
  BY VisitBudget DEF ParameterIdentifier, Visit
<1> QED
  BY <1>1, <1>5, <1>6, <1>7, <1>8, BodyStep DEF ParameterIdentifier, IndInv, TypeOK

\* LocalIdentifier preserves the invariant.
LEMMA LocalIdentifierStep ==
    ASSUME IndInv, NEW n \in VarNames, NEW type \in VarTypes, LocalIdentifier(n, type)
    PROVE  IndInv'
<1>1. InFunction /\ Sound(function, gs) /\ Len(gs) \in Nat /\ n \in Names
  BY AtFacts, InFunctionFacts DEF LocalIdentifier, Names
<1>2. Grows(function, function', gs) /\ Len(function.instructions) \in InstrIDs(function')
  BY <1>1, AllocaSound DEF LocalIdentifier
<1>3. /\ IsStackOf(identifiers', Names, LLVMValueID)
      /\ identifiers' # <<>> /\ LayersOK'
      /\ IsStackOf(table', Names, SymbolType)
  BY <1>1, <1>2, DeclareLocalStep DEF LocalIdentifier
<1>4. GoodFrames(function', todo')
  BY <1>2, SameStack DEF LocalIdentifier
<1>5. budget' \in 0 .. MaxNodes
  BY VisitBudget DEF LocalIdentifier, Visit
<1> QED
  BY <1>1, <1>2, <1>3, <1>4, <1>5, BodyStep DEF LocalIdentifier, IndInv, TypeOK

\* A suspended initializer on top of the stack.
LEMMA PushFrame ==
    ASSUME IndInv, NEW g, Grows(function, g, gs),
           NEW at \in {"init", "params", "stmt"}, todo' = <<Frame(at)>> \o todo
    PROVE  GoodFrames(g, todo')
<1>1. GoodFrames(g, <<Frame(at)>>)
  BY PlainFrame, OneFrame
<1>2. GoodFrames(g, todo)
  BY SameStack
<1> QED
  BY <1>1, <1>2, ConcatFrames

\* LocalInitialised preserves the invariant.
LEMMA LocalInitialisedStep ==
    ASSUME IndInv, NEW n \in VarNames, NEW type \in VarTypes, LocalInitialised(n, type)
    PROVE  IndInv'
<1>1. InFunction /\ Sound(function, gs) /\ Len(gs) \in Nat /\ n \in Names
  BY AtFacts, InFunctionFacts DEF LocalInitialised, Names
<1>2. Grows(function, function', gs) /\ Len(function.instructions) \in InstrIDs(function')
  BY <1>1, AllocaSound DEF LocalInitialised
<1>3. /\ IsStackOf(identifiers', Names, LLVMValueID)
      /\ identifiers' # <<>> /\ LayersOK'
      /\ IsStackOf(table', Names, SymbolType)
  BY <1>1, <1>2, DeclareLocalStep DEF LocalInitialised
<1>4. GoodFrames(function', todo')
  BY <1>2, PushFrame DEF LocalInitialised
<1>5. budget' \in 0 .. MaxNodes
  BY VisitBudget DEF LocalInitialised, Visit
<1> QED
  BY <1>1, <1>2, <1>3, <1>4, <1>5, BodyStep DEF LocalInitialised, IndInv, TypeOK

\* ParameterPointer preserves the invariant.
LEMMA ParameterPointerStep ==
    ASSUME IndInv, NEW n \in PtrNames, ParameterPointer(n)
    PROVE  IndInv'
<1>1. InFunction /\ Sound(function, gs) /\ Len(gs) \in Nat /\ n \in Names
  BY AtFacts, InFunctionFacts DEF ParameterPointer, Names
<1>2. Grows(function, function', gs)
  BY <1>1, AddParameterSound DEF ParameterPointer
<1>3. /\ IsStackOf(identifiers', Names, LLVMValueID) /\ identifiers' # <<>> /\ LayersOK'
  BY <1>1, <1>2, SameLayers DEF ParameterPointer
<1>4. IsStackOf(table', Names, SymbolType)
  BY <1>1, DeclarePointerStep DEF ParameterPointer
<1>5. GoodFrames(function', todo')
  BY <1>2, SameStack DEF ParameterPointer
<1>6. budget' \in 0 .. MaxNodes
  BY VisitBudget DEF ParameterPointer, Visit
<1> QED
  BY <1>1, <1>2, <1>3, <1>4, <1>5, <1>6, BodyStep DEF ParameterPointer, IndInv, TypeOK

\* LocalPointer preserves the invariant.
LEMMA LocalPointerStep ==
    ASSUME IndInv, NEW n \in PtrNames, LocalPointer(n)
    PROVE  IndInv'
<1>1. InFunction /\ Sound(function, gs) /\ n \in Names
  BY AtFacts, InFunctionFacts DEF LocalPointer, Names
<1>2. IsStackOf(table', Names, SymbolType)
  BY <1>1, DeclarePointerStep DEF LocalPointer
<1>3. GoodFrames(function, todo')
  BY <1>1, GrowsReflexive, SameStack DEF LocalPointer
<1> QED
  BY <1>1, <1>2, <1>3, TableStep DEF LocalPointer, Visit, IndInv, TypeOK

\* PointerInitialised preserves the invariant.
LEMMA PointerInitialisedStep ==
    ASSUME IndInv, NEW n \in PtrNames, PointerInitialised(n)
    PROVE  IndInv'
<1>1. InFunction /\ Sound(function, gs) /\ n \in Names
  BY AtFacts, InFunctionFacts DEF PointerInitialised, Names
<1>2. IsStackOf(table', Names, SymbolType)
  BY <1>1, DeclarePointerStep DEF PointerInitialised
<1>3. GoodFrames(function, todo')
  BY <1>1, GrowsReflexive, PushFrame DEF PointerInitialised
<1> QED
  BY <1>1, <1>2, <1>3, TableStep DEF PointerInitialised, Visit, IndInv, TypeOK

\* LocalPrototype preserves the invariant.
LEMMA LocalPrototypeStep ==
    ASSUME IndInv, NEW g \in FuncNames, LocalPrototype(g)
    PROVE  IndInv'
<1>1. InFunction /\ Sound(function, gs) /\ Len(gs) \in Nat /\ function \in FunctionType
  BY AtFacts, InFunctionFacts DEF LocalPrototype
<1>2. /\ function' \in FunctionType
      /\ function'.instructions = function.instructions
      /\ function'.blocks = function.blocks
      /\ function'.params = function.params
      /\ function'.consts = function.consts
  BY <1>1 DEF LocalPrototype, FunctionType, LLVMFunction
<1>3. ArenasGrow(function, function')
  BY <1>1, <1>2, FunctionFields DEF ArenasGrow
<1>4. Grows(function, function', gs)
  BY <1>1, <1>2, <1>3, SameInstructions
<1>5. GoodFrames(function', todo')
  BY <1>4, PushFrame DEF LocalPrototype
<1> QED
  BY <1>1, <1>4, <1>5, EmitStep DEF LocalPrototype, Visit, IndInv, TypeOK

\* InitializerExpression preserves the invariant.
LEMMA InitializerExpressionStep ==
    ASSUME IndInv, InitializerExpression
    PROVE  IndInv'
<1>1. InFunction /\ todo # <<>> /\ Sound(function, gs)
  BY AtFacts, InFunctionFacts DEF InitializerExpression
<1> DEFINE a == Child("expr", "unloaded")
           b == Frame("store")
<1>2. /\ a \in FrameType /\ FrameOK(function, a)
      /\ b \in FrameType /\ FrameOK(function, b)
  BY ExpressionFrame, PlainFrame DEF Position
<1>3. Continue(<<a, b>>)
  BY DEF InitializerExpression
<1> HIDE DEF a, b
<1>4. GoodFrames(function, todo')
  BY <1>1, <1>2, <1>3, TwoFrames, GrowsReflexive, ContinueStep
<1> QED
  BY <1>1, <1>4, StackStep DEF InitializerExpression, source, IndInv, TypeOK

\* InitializerList preserves the invariant.
LEMMA InitializerListStep ==
    ASSUME IndInv, NEW two \in BOOLEAN, InitializerList(two)
    PROVE  IndInv'
<1>1. InFunction /\ todo # <<>> /\ Sound(function, gs)
  BY AtFacts, InFunctionFacts DEF InitializerList
<1> DEFINE a == Frame("init")
           b == Frame("store")
           first == IF two THEN <<a>> ELSE <<>>
<1>2. /\ a \in FrameType /\ FrameOK(function, a)
      /\ b \in FrameType /\ FrameOK(function, b)
  BY PlainFrame
<1>3. Continue(first \o <<a, b>>)
  BY DEF InitializerList
<1> HIDE DEF a, b
<1>4. GoodFrames(function, first)
  BY <1>2, OneFrame DEF GoodFrames
<1>5. GoodFrames(function, <<a, b>>)
  BY <1>2, TwoFrames
<1> HIDE DEF first
<1>6. GoodFrames(function, first \o <<a, b>>)
  BY <1>4, <1>5, ConcatFrames
<1>7. GoodFrames(function, todo')
  BY <1>1, <1>3, <1>6, GrowsReflexive, ContinueStep
<1> QED
  BY <1>1, <1>7, StackStep DEF InitializerList, Visit, IndInv, TypeOK

\* InitializerStore preserves the invariant.
LEMMA InitializerStoreStep ==
    ASSUME IndInv, InitializerStore
    PROVE  IndInv'
<1> DEFINE v == Value("INSTR", LastInstr(function))
           w == ResolveIdentifier(initialising)
           instr == Instruction("STORE", "void", <<v, w>>)
<1>1. /\ InFunction /\ todo # <<>> /\ Sound(function, gs) /\ Len(gs) \in Nat
      /\ Resolvable(initialising)
  BY AtFacts, InFunctionFacts DEF InitializerStore
<1>2. v \in LLVMValueID /\ OperandOK(function, gs, Len(function.instructions), v)
  BY <1>1, LatestOperand
<1>3. w \in LLVMValueID /\ OperandOK(function, gs, Len(function.instructions), w)
  BY <1>1, ResolvedOperand
<1>4. function' = EmitInstr(function, instr)
  BY DEF InitializerStore
<1>5. "STORE" \in LLVMOpcode /\ "void" \in LLVMType
  BY DEF LLVMOpcode, LLVMType
<1> HIDE DEF v, w
<1>6. instr \in LLVMInstruction /\ instr.operands = <<v, w>>
  BY <1>2, <1>3, <1>5, PairInstruction
<1> HIDE DEF instr
<1>7. Grows(function, function', gs)
  BY <1>1, <1>2, <1>3, <1>4, <1>6, EmitBinary
<1>8. GoodFrames(function', todo')
  BY <1>1, <1>7, PopFrame DEF InitializerStore
<1> QED
  BY <1>1, <1>7, <1>8, EmitStep DEF InitializerStore, source, IndInv, TypeOK

\* EndList preserves the invariant.
LEMMA EndListStep ==
    ASSUME IndInv, EndList
    PROVE  IndInv'
<1>1. InFunction /\ todo # <<>> /\ Sound(function, gs)
  BY AtFacts, InFunctionFacts DEF EndList
<1>2. GoodFrames(function, todo')
  BY <1>1, GrowsReflexive, PopFrame DEF EndList
<1> QED
  BY <1>1, <1>2, StackStep DEF EndList, IndInv, TypeOK

\* Every handler of a parameter or a local declaration preserves the
\* invariant.
LEMMA DeclarationsStep ==
    ASSUME IndInv, Declarations
    PROVE  IndInv'
<1>1. CASE ParameterAbstract
  BY <1>1, StopStep DEF ParameterAbstract, Visit
<1>2. CASE InitializerThrows
  BY <1>2, StopStep DEF InitializerThrows, source
<1> QED
  BY <1>1, <1>2, ParameterIdentifierStep, LocalIdentifierStep, LocalInitialisedStep,
     ParameterPointerStep, LocalPointerStep, PointerInitialisedStep, LocalPrototypeStep,
     InitializerExpressionStep, InitializerListStep, InitializerStoreStep, EndListStep
  DEF Declarations
-----------------------------------------------------------------------------
(* External declarations *)

\* What the invariant says between two functions.
LEMMA OutsideFacts ==
    ASSUME IndInv, ~InFunction
    PROVE  /\ function = NoFunction /\ todo = <<>>
           /\ gs \in Seq(VarNames \cup {NoName}) /\ Len(gs) \in Nat
           /\ AllFunctions = Functions
           /\ \A f \in Functions : FunctionOK(f, gs)
           /\ IsStackOf(identifiers, Names, LLVMValueID)
           /\ DOMAIN identifiers = 1 .. Len(identifiers)
           /\ \A i \in DOMAIN identifiers : \A n \in DOMAIN identifiers[i] :
                 /\ identifiers[i][n].kind = "GLOBAL"
                 /\ identifiers[i][n].id \in 0 .. Len(gs) + Len(global) - 1
<1>1. function = NoFunction /\ todo = <<>> /\ AllFunctions = Functions
  BY DEF InFunction, AllFunctions, IndInv, ContextOK
<1>2. /\ gs \in Seq(VarNames \cup {NoName}) /\ Len(gs) \in Nat
      /\ \A f \in Functions : FunctionOK(f, gs)
      /\ IsStackOf(identifiers, Names, LLVMValueID)
  BY <1>1 DEF IndInv, TypeOK, OperandsInArena, gs
<1>3. DOMAIN identifiers = 1 .. Len(identifiers)
  BY <1>2, StackElements
<1>4. \A i \in DOMAIN identifiers : \A n \in DOMAIN identifiers[i] :
         /\ identifiers[i][n].kind = "GLOBAL"
         /\ identifiers[i][n].id \in 0 .. Len(gs) + Len(global) - 1
  BY DEF IndInv, LayersOK, StorageOK, gs
<1> QED
  BY <1>1, <1>2, <1>3, <1>4

\* A step between two functions: no call stack, so only the layers matter.
LEMMA OutsideStep ==
    ASSUME IndInv, function' = NoFunction, todo' = <<>>, TypeOK', LayersOK',
           \A f \in Functions' : FunctionOK(f, module'.globals)
    PROVE  IndInv'
<1>1. AllFunctions' = Functions'
  BY DEF AllFunctions, InFunction
<1>2. OperandsInArena'
  BY <1>1 DEF OperandsInArena
<1>3. ContextOK' /\ FramesOK'
  BY DEF ContextOK, FramesOK, InFunction
<1> QED
  BY <1>2, <1>3 DEF IndInv

\* The kinds of the file-scope declarations: `global` and the layers.
LEMMA GlobalTyped ==
    ASSUME IndInv
    PROVE  /\ global = <<>> => Len(global) = 0
           /\ global # <<>> => /\ Len(global) = 1 /\ global[1] \in VarNames \cup {NoName}
                               /\ ~InFunction
<1>1. global \in {<<>>} \cup {<<n>> : n \in VarNames \cup {NoName}}
  BY DEF IndInv, TypeOK
<1>2. global # <<>> => ~InFunction
  BY DEF IndInv, ContextOK
<1> QED
  BY <1>1, <1>2

\* GlobalDeclaration preserves the invariant.
LEMMA GlobalDeclarationStep ==
    ASSUME IndInv, GlobalDeclaration
    PROVE  IndInv'
<1>1. ~InFunction /\ global = <<>> /\ todo = <<>>
  BY DEF GlobalDeclaration, Outside
<1>2. Len(global) = 0 /\ Len(global') = 1 /\ global' \in {<<n>> : n \in VarNames \cup {NoName}}
  BY <1>1, GlobalTyped DEF GlobalDeclaration
<1>3. TypeOK'
  BY <1>2 DEF GlobalDeclaration, IndInv, TypeOK
<1>4. AllStored(identifiers', function', module'.globals, global')
  BY <1>1, <1>2, OutsideFacts DEF AllStored, Stored, GlobalDeclaration, gs
<1>5. \A f \in Functions' : FunctionOK(f, module'.globals)
  BY <1>1, OutsideFacts DEF GlobalDeclaration, Functions, gs
<1> QED
  BY <1>1, <1>3, <1>4, <1>5, OutsideFacts, OutsideStep, LayersAreStored DEF GlobalDeclaration

\* GlobalIdentifier preserves the invariant.
LEMMA GlobalIdentifierStep ==
    ASSUME IndInv, NEW n \in VarNames, NEW type \in VarTypes, GlobalIdentifier(n, type)
    PROVE  IndInv'
<1> DEFINE v == Value("GLOBAL", Len(module.globals))
<1>1. global # <<>> /\ ~InFunction /\ Len(global) = 1 /\ Len(gs) \in Nat /\ n \in Names
  BY GlobalTyped, OutsideFacts DEF GlobalIdentifier, InGlobal, Names
<1>2. /\ function' = NoFunction /\ todo' = <<>> /\ global' = <<n>> /\ Len(global') = 1
      /\ module' = module /\ function' = function
  BY <1>1, OutsideFacts DEF GlobalIdentifier
<1>3. v \in LLVMValueID /\ v.kind = "GLOBAL" /\ v.id = Len(gs)
  BY <1>1 DEF LLVMValueID, LLVMValueKind, Value, gs
<1>4. /\ identifiers' = BindCurrent(CurrentLayers, n, v)
      /\ table' = AddToScope(table, n, Symbol(type, v))
  BY DEF GlobalIdentifier
<1>5. /\ IsStackOf(CurrentLayers, Names, LLVMValueID) /\ CurrentLayers # <<>>
      /\ DOMAIN CurrentLayers = 1 .. Len(CurrentLayers)
      /\ \A i \in 1 .. Len(CurrentLayers) : \A m \in DOMAIN CurrentLayers[i] :
            /\ CurrentLayers[i][m].kind = "GLOBAL"
            /\ CurrentLayers[i][m].id \in 0 .. Len(gs) + Len(global) - 1
  <2>1. CASE identifiers = <<>>
    <3>1. /\ <<EmptyScope>> \in Seq({EmptyScope}) /\ Len(<<EmptyScope>>) = 1
          /\ <<EmptyScope>>[1] = EmptyScope
      OBVIOUS
    <3>2. \A i \in 1 .. Len(<<EmptyScope>>) : MapInto(<<EmptyScope>>[i], Names, LLVMValueID)
      BY <3>1, EmptyMap
    <3>3. IsStackOf(<<EmptyScope>>, Names, LLVMValueID)
      BY <3>1, <3>2, StackFromElements
    <3>4. CurrentLayers = <<EmptyScope>> /\ DOMAIN EmptyScope = {}
      BY <2>1 DEF CurrentLayers, EmptyScope
    <3> QED
      BY <3>1, <3>3, <3>4
  <2>2. CASE identifiers # <<>>
    BY <2>2, <1>1, OutsideFacts DEF CurrentLayers
  <2> QED
    BY <2>1, <2>2
<1> HIDE DEF v
<1>6. /\ IsStackOf(identifiers', Names, LLVMValueID)
      /\ Len(identifiers') = Len(CurrentLayers)
      /\ \A i \in 1 .. Len(identifiers') : \A m \in DOMAIN identifiers'[i] :
           \/ i = Len(CurrentLayers) /\ identifiers'[i][m] = v
           \/ m \in DOMAIN CurrentLayers[i] /\ identifiers'[i][m] = CurrentLayers[i][m]
  <2>1. identifiers' = BindCurrent(CurrentLayers, n, v) /\ n \in Names /\ v \in LLVMValueID
    BY <1>1, <1>3, <1>4
  <2>2. IsStackOf(CurrentLayers, Names, LLVMValueID) /\ CurrentLayers # <<>>
    BY <1>5
  <2> QED
    BY <2>1, <2>2, BindLayers
<1>7. DOMAIN identifiers' = 1 .. Len(identifiers')
  BY <1>6, StackElements
<1>8. AllStored(identifiers', function', module'.globals, global')
  <2>1. ASSUME NEW i \in DOMAIN identifiers', NEW m \in DOMAIN identifiers'[i]
        PROVE  /\ identifiers'[i][m].kind = "GLOBAL"
               /\ identifiers'[i][m].id \in 0 .. Len(gs) + Len(global) - 1
    <3>1. CASE i = Len(CurrentLayers) /\ identifiers'[i][m] = v
      <4>1. Len(gs) \in 0 .. Len(gs) + Len(global) - 1
        BY <1>1
      <4> QED
        BY <3>1, <4>1, <1>3
    <3>2. CASE m \in DOMAIN CurrentLayers[i] /\ identifiers'[i][m] = CurrentLayers[i][m]
      <4>1. i \in 1 .. Len(CurrentLayers)
        BY <1>6, <1>7
      <4> QED
        BY <3>2, <4>1, <1>5
    <3>3. i \in 1 .. Len(identifiers')
      BY <1>7
    <3> QED
      BY <3>1, <3>2, <3>3, <1>6
  <2> QED
    BY <2>1, <1>1, <1>2 DEF AllStored, Stored, gs
<1>9. IsStackOf(table', Names, SymbolType)
  BY <1>1, <1>3, <1>4, SymbolTyped, VarTypesAreTypes, AddToScopeStack DEF IndInv, TypeOK
<1>10. budget' \in 0 .. MaxNodes
  BY VisitBudget DEF GlobalIdentifier, Visit
<1>11. TypeOK'
  BY <1>2, <1>6, <1>9, <1>10 DEF GlobalIdentifier, IndInv, TypeOK
<1>12. \A f \in Functions' : FunctionOK(f, module'.globals)
  BY <1>1, <1>2, OutsideFacts DEF Functions, gs
<1> QED
  BY <1>2, <1>8, <1>11, <1>12, OutsideStep, LayersAreStored

\* GlobalPointer preserves the invariant.
LEMMA GlobalPointerStep ==
    ASSUME IndInv, NEW n \in PtrNames, GlobalPointer(n)
    PROVE  IndInv'
<1>1. global # <<>> /\ ~InFunction /\ n \in Names
  BY GlobalTyped DEF GlobalPointer, InGlobal, Names
<1>2. /\ function' = NoFunction /\ todo' = <<>>
      /\ function' = function /\ module' = module /\ global' = global
      /\ identifiers' = identifiers
  BY <1>1, OutsideFacts DEF GlobalPointer, unit
<1>3. IsStackOf(table', Names, SymbolType)
  BY <1>1, DeclarePointerStep DEF GlobalPointer, DeclarePointer
<1>4. budget' \in 0 .. MaxNodes
  BY VisitBudget DEF GlobalPointer, Visit
<1>5. TypeOK'
  BY <1>2, <1>3, <1>4 DEF GlobalPointer, IndInv, TypeOK
<1>6. AllStored(identifiers', function', module'.globals, global')
  BY <1>2, LayersAreStored DEF IndInv
<1>7. \A f \in Functions' : FunctionOK(f, module'.globals)
  BY <1>1, <1>2, OutsideFacts DEF Functions, gs
<1> QED
  BY <1>2, <1>5, <1>6, <1>7, OutsideStep, LayersAreStored

\* A function stays sound when the module gets one more global.
LEMMA MoreGlobals ==
    ASSUME NEW globals, NEW more, Len(globals) \in Nat, Len(more) = Len(globals) + 1,
           NEW f, FunctionOK(f, globals)
    PROVE  FunctionOK(f, more)
BY DEF FunctionOK, OperandOK, InArena

\* EndGlobal preserves the invariant.
LEMMA EndGlobalStep ==
    ASSUME IndInv, EndGlobal
    PROVE  IndInv'
<1>1. /\ global # <<>> /\ ~InFunction /\ Len(global) = 1
      /\ global[1] \in VarNames \cup {NoName}
  BY GlobalTyped DEF EndGlobal, InGlobal
<1>2. /\ gs \in Seq(VarNames \cup {NoName}) /\ Len(gs) \in Nat
      /\ module \in [functions : Seq(FunctionType), globals : Seq(VarNames \cup {NoName})]
  BY <1>1, OutsideFacts DEF IndInv, TypeOK
<1>3. /\ Append(gs, global[1]) \in Seq(VarNames \cup {NoName})
      /\ Len(Append(gs, global[1])) = Len(gs) + 1
  BY <1>1, <1>2
<1>4. /\ module' \in [functions : Seq(FunctionType), globals : Seq(VarNames \cup {NoName})]
      /\ module'.functions = module.functions
      /\ module'.globals = Append(gs, global[1])
  BY <1>2, <1>3 DEF EndGlobal, gs
<1>5. /\ function' = NoFunction /\ todo' = <<>> /\ function' = function
      /\ global' = <<>> /\ Len(global') = 0 /\ identifiers' = identifiers
  BY <1>1, OutsideFacts DEF EndGlobal, scopes
<1>6. TypeOK'
  BY <1>4, <1>5 DEF EndGlobal, IndInv, TypeOK, scopes
<1>7. AllStored(identifiers', function', module'.globals, global')
  BY <1>1, <1>2, <1>3, <1>4, <1>5, OutsideFacts DEF AllStored, Stored
<1>8. ASSUME NEW f \in Functions' PROVE FunctionOK(f, module'.globals)
  <2>1. f \in Functions
    BY <1>4 DEF Functions
  <2>2. FunctionOK(f, gs)
    BY <2>1, <1>1, OutsideFacts
  <2> QED
    BY <2>2, <1>2, <1>3, <1>4, MoreGlobals
<1> QED
  BY <1>5, <1>6, <1>7, <1>8, OutsideStep, LayersAreStored
\* FunctionDefinition preserves the invariant.
LEMMA FunctionDefinitionStep ==
    ASSUME IndInv, NEW g \in FuncNames, NEW pointer \in BOOLEAN, FunctionDefinition(g, pointer)
    PROVE  IndInv'
<1>1. ~InFunction /\ global = <<>> /\ Len(global) = 0 /\ Len(gs) \in Nat
  BY GlobalTyped, OutsideFacts DEF FunctionDefinition, Outside
<1>2. Sound(function', gs) /\ function' \in FunctionType
  <2>1. g \in FuncNames \cup {NoFunctionName}
    OBVIOUS
  <2>2. function' = NewFunction \/ function' = [NewFunction EXCEPT !.name = g]
    BY DEF FunctionDefinition
  <2> QED
    BY <2>1, <2>2, <1>1, NewFunctionSound DEF Sound
<1>3. /\ module' = module /\ global' = <<>> /\ Len(global') = 0 /\ function' # NoFunction
      /\ function'.blocks # <<>> /\ function'.consts # <<>>
  BY <1>1, <1>2, SoundIsFunction DEF FunctionDefinition, unit, Sound
<1>4. GoodFrames(function', todo')
  <2> DEFINE a == Frame("params")
             b == Frame("decls")
             c == Frame("stmts")
  <2>1. /\ a \in FrameType /\ FrameOK(function', a)
        /\ b \in FrameType /\ FrameOK(function', b)
        /\ c \in FrameType /\ FrameOK(function', c)
    BY PlainFrame
  <2>2. todo' = <<b, c>> \/ todo' = <<a, b, c>>
    BY DEF FunctionDefinition
  <2> HIDE DEF a, b, c
  <2> QED
    BY <2>1, <2>2, TwoFrames, ThreeFrames
<1>5. /\ IsStackOf(identifiers', Names, LLVMValueID) /\ identifiers' # <<>>
      /\ Len(identifiers') = Len(identifiers) + 1
      /\ \A i \in 1 .. Len(identifiers) : identifiers'[i] = identifiers[i]
      /\ identifiers'[Len(identifiers) + 1] = EmptyScope
  <2>1. identifiers' = Append(identifiers, EmptyScope)
    BY DEF FunctionDefinition
  <2> QED
    BY <2>1, <1>1, OutsideFacts, EmptyMap, PushStack
<1>6. DOMAIN identifiers' = 1 .. Len(identifiers) + 1 /\ Len(identifiers) \in Nat
  BY <1>1, <1>5, OutsideFacts, StackElements
<1>7. AllStored(identifiers', function', module'.globals, global')
  <2>1. ASSUME NEW i \in DOMAIN identifiers', NEW m \in DOMAIN identifiers'[i]
        PROVE  /\ identifiers'[i][m].kind = "GLOBAL"
               /\ identifiers'[i][m].id \in 0 .. Len(gs) + Len(global) - 1
    <3>1. i \in 1 .. Len(identifiers)
      BY <1>5, <1>6 DEF EmptyScope
    <3> QED
      BY <3>1, <1>1, <1>5, OutsideFacts
  <2> QED
    BY <2>1, <1>1, <1>3 DEF AllStored, Stored, gs
<1>8. IsStackOf(table', Names, SymbolType)
  BY EmptyMap, PushStack DEF FunctionDefinition, PushScope, IndInv, TypeOK
<1>9. budget' \in 0 .. MaxNodes
  BY VisitBudget DEF FunctionDefinition, Visit
<1>10. TypeOK'
  <2>1. todo' \in Seq(FrameType)
    BY <1>4 DEF GoodFrames
  <2> QED
    BY <2>1, <1>2, <1>3, <1>5, <1>8, <1>9 DEF FunctionDefinition, IndInv, TypeOK
<1>11. OperandsInArena'
  <2>1. \A f \in Functions : FunctionOK(f, gs)
    BY <1>1, OutsideFacts
  <2>2. AllFunctions' = Functions \cup {function'}
    BY <1>3 DEF AllFunctions, Functions, InFunction
  <2> QED
    BY <2>1, <2>2, <1>2, <1>3 DEF OperandsInArena, Sound, gs
<1>12. ContextOK' /\ FramesOK'
  BY <1>3, <1>4, <1>5 DEF ContextOK, FramesOK, InFunction, GoodFrames
<1> QED
  BY <1>7, <1>10, <1>11, <1>12, LayersAreStored DEF IndInv

\* The null function is well-typed.
LEMMA NoFunctionType == NoFunction \in FunctionType
BY DEF NoFunction, FunctionType, LLVMFunction

\* EndFunction preserves the invariant.
LEMMA EndFunctionStep ==
    ASSUME IndInv, EndFunction
    PROVE  IndInv'
<1>1. /\ InFunction /\ todo = <<>> /\ function \in FunctionType
      /\ FunctionOK(function, gs) /\ global = <<>>
  BY InFunctionFacts DEF EndFunction, Sound
<1>2. /\ function' = NoFunction /\ todo' = <<>> /\ global' = global
      /\ function' \in FunctionType
  BY <1>1, NoFunctionType DEF EndFunction
<1>3. /\ module \in [functions : Seq(FunctionType), globals : Seq(VarNames \cup {NoName})]
      /\ module.functions \in Seq(FunctionType)
  BY DEF IndInv, TypeOK
<1>4. /\ module' \in [functions : Seq(FunctionType), globals : Seq(VarNames \cup {NoName})]
      /\ module'.globals = gs
      /\ module'.functions = Append(module.functions, function)
  <2>1. Append(module.functions, function) \in Seq(FunctionType)
    BY <1>1, <1>3
  <2> QED
    BY <2>1, <1>3 DEF EndFunction, gs
<1>5. /\ IsStackOf(identifiers', Names, LLVMValueID)
      /\ Len(identifiers') < Len(identifiers) \/ identifiers' = <<>>
      /\ \A i \in 1 .. Len(identifiers') :
            i \in 1 .. Len(identifiers) /\ identifiers'[i] = identifiers[i]
  <2>1. identifiers' = SubSeq(identifiers, 1, Len(identifiers) - 1)
    BY DEF EndFunction
  <2>2. IsStackOf(identifiers, Names, LLVMValueID)
    BY DEF IndInv, TypeOK
  <2> QED
    BY <2>1, <2>2, PopStack
<1>6. /\ DOMAIN identifiers' = 1 .. Len(identifiers') /\ Len(identifiers') \in Nat
      /\ DOMAIN identifiers = 1 .. Len(identifiers) /\ Len(identifiers) \in Nat
  BY <1>5, StackElements DEF IndInv, TypeOK
<1>7. AllStored(identifiers', function', module'.globals, global')
  <2>1. ASSUME NEW i \in DOMAIN identifiers', NEW m \in DOMAIN identifiers'[i]
        PROVE  Stored(function', gs, global, Len(identifiers'), i, identifiers'[i][m])
    <3>1. i \in DOMAIN identifiers /\ identifiers'[i] = identifiers[i] /\ i <= Len(identifiers')
      BY <1>5, <1>6
    <3>2. identifiers' # <<>>
      BY <2>1
    <3>3. i # Len(identifiers)
      BY <3>1, <3>2, <1>5, <1>6
    <3>4. Stored(function, gs, global, Len(identifiers), i, identifiers[i][m])
      BY <3>1, LayersAreStored DEF IndInv, AllStored, gs
    <3> QED
      BY <3>1, <3>3, <3>4 DEF Stored
  <2> QED
    BY <2>1, <1>2, <1>4 DEF AllStored
<1>8. IsStackOf(table', Names, SymbolType)
  BY PopStack DEF EndFunction, PopScope, IndInv, TypeOK
<1>9. TypeOK'
  BY <1>2, <1>4, <1>5, <1>8 DEF EndFunction, source, IndInv, TypeOK
<1>10. ASSUME NEW f \in Functions' PROVE FunctionOK(f, module'.globals)
  <2>1. PICK i \in DOMAIN module'.functions : f = module'.functions[i]
    BY DEF Functions
  <2>2. i \in 1 .. Len(module.functions) + 1
    BY <2>1, <1>1, <1>3, <1>4, AppendProperties
  <2>3. f = function \/ (i \in DOMAIN module.functions /\ f = module.functions[i])
    BY <2>1, <2>2, <1>1, <1>3, <1>4, AppendProperties
  <2>4. f \in AllFunctions
    BY <2>3, <1>1 DEF AllFunctions, Functions
  <2> QED
    BY <2>4, <1>4 DEF IndInv, OperandsInArena, gs
<1> QED
  BY <1>2, <1>7, <1>9, <1>10, OutsideStep, LayersAreStored

\* Every handler of an external declaration preserves the invariant.
LEMMA ExternalStep ==
    ASSUME IndInv, External
    PROVE  IndInv'
<1>1. ASSUME NEW n \in VarNames, GlobalInitialised(n) PROVE IndInv'
  BY <1>1, StopStep DEF GlobalInitialised, Visit
<1>2. CASE EndUnit
  BY <1>2, StopStep DEF EndUnit, Stop, source
<1> QED
  BY <1>1, <1>2, GlobalDeclarationStep, GlobalIdentifierStep, GlobalPointerStep,
     EndGlobalStep, FunctionDefinitionStep, EndFunctionStep DEF External

-----------------------------------------------------------------------------
(* The theorems *)

\* The invariant holds before anything is visited.
LEMMA InitIndInv == Init => IndInv
<1> SUFFICES ASSUME Init PROVE IndInv
  OBVIOUS
<1>1. function = NoFunction /\ NoFunction \in FunctionType /\ ~InFunction
  BY NoFunctionType DEF Init, InFunction
<1>2. /\ IsStackOf(<<>>, Names, LLVMValueID)
      /\ IsStackOf(NewTable, Names, SymbolType)
  <2>1. <<>> \in Seq({}) /\ Len(<<>>) = 0
    OBVIOUS
  <2>2. \A i \in 1 .. Len(<<>>) : MapInto(<<>>[i], Names, LLVMValueID)
    BY <2>1
  <2>3. IsStackOf(<<>>, Names, LLVMValueID)
    BY <2>1, <2>2, StackFromElements
  <2>4. /\ NewTable \in Seq({EmptyScope}) /\ Len(NewTable) = 1 /\ NewTable[1] = EmptyScope
    BY DEF NewTable
  <2>5. \A i \in 1 .. Len(NewTable) : MapInto(NewTable[i], Names, SymbolType)
    BY <2>4, EmptyMap
  <2> QED
    BY <2>3, <2>4, <2>5, StackFromElements
<1>3. /\ <<>> \in Seq(FunctionType) /\ <<>> \in Seq(VarNames \cup {NoName})
      /\ <<>> \in Seq(FrameType)
  OBVIOUS
<1>4. TypeOK
  <2>1. module \in [functions : Seq(FunctionType), globals : Seq(VarNames \cup {NoName})]
    BY <1>3 DEF Init
  <2>2. budget \in 0 .. MaxNodes
    BY BoundAssumption DEF Init
  <2> QED
    BY <1>1, <1>2, <1>3, <2>1, <2>2 DEF Init, TypeOK, CType
<1>5. OperandsInArena
  BY <1>1 DEF Init, OperandsInArena, AllFunctions, Functions
<1>6. ContextOK /\ FramesOK /\ LayersOK
  BY <1>1 DEF Init, ContextOK, FramesOK, LayersOK
<1> QED
  BY <1>4, <1>5, <1>6 DEF IndInv

\* A step that changes nothing preserves the invariant.
LEMMA Stutter == IndInv /\ UNCHANGED vars => IndInv'
BY DEF vars, IndInv, TypeOK, OperandsInArena, AllFunctions, Functions, InFunction, ContextOK,
       FramesOK, LayersOK, StorageOK

\* Every step of the visitor, whichever handler takes it, keeps the invariant.
LEMMA StepIndInv == IndInv /\ [Next]_vars => IndInv'
<1> SUFFICES ASSUME IndInv, [Next]_vars PROVE IndInv'
  OBVIOUS
<1>1. CASE External
  BY <1>1, ExternalStep
<1>2. CASE Declarations
  BY <1>2, DeclarationsStep
<1>3. CASE Expressions
  BY <1>3, ExpressionsStep
<1>4. CASE Statements
  BY <1>4, StatementsStep
<1>5. CASE Ended \/ UNCHANGED vars
  BY <1>5, Stutter DEF Ended
<1> QED
  BY <1>1, <1>2, <1>3, <1>4, <1>5 DEF Next

\* The invariant holds in every reachable state of visit(TranslationUnit),
\* for programs of any size over any names, literals and operators.
THEOREM Invariant == Spec => []IndInv
<1>1. Init => IndInv
  BY InitIndInv
<1>2. IndInv /\ [Next]_vars => IndInv'
  BY StepIndInv
<1> QED
  BY <1>1, <1>2, PTL DEF Spec

\* The visitor's members, its call stack and SemaVisitor's table keep their
\* types: every saved index is a size_t value or the wrapped one.
THEOREM TypesCorrect == Spec => []TypeOK
<1>1. IndInv => TypeOK
  BY DEF IndInv
<1> QED
  BY <1>1, Invariant, PTL

\* No operand that visit(...) writes, whatever the program and also where the
\* visitor has no handler for a node, makes an .at() of the emitters throw,
\* but for the index taken before any instruction existed.
THEOREM OperandsStayInArena == Spec => []OperandsInArena
<1>1. IndInv => OperandsInArena
  BY DEF IndInv
<1> QED
  BY <1>1, Invariant, PTL
=============================================================================
