---------------------------- MODULE IRShapeProofs ----------------------------
(***************************************************************************)
(* Proofs about the blocks and branches that IRGen builds, for every set   *)
(* of names, literals and operators, programs of any size and every        *)
(* fragment of the language: where instructions are placed, where branches *)
(* lead and which of them are still to be patched.  The invariant is       *)
(* ShapeInv, inductive together with IndInv.                               *)
(***************************************************************************)
EXTENDS IRGenProofs, IRTextProps

-----------------------------------------------------------------------------
(* The shape of a function *)

\* The operands an emitter will ask an instruction for, and their kinds.
WellFormed(instr) ==
    /\ instr.opcode \in LLVM!Operation => Len(instr.operands) = 2
    /\ instr.opcode = "LOAD" => Len(instr.operands) = 1
    /\ instr.opcode = "RET" => instr.type = "void" \/ Len(instr.operands) = 1
    /\ instr.opcode \in {"ICMP", "STORE"} => instr.operands[1].kind \in {"INSTR", "PARAM"}
    /\ instr.opcode # "BR" =>
         \A k \in DOMAIN instr.operands : instr.operands[k].kind # "BLOCK"
    /\ instr.opcode = "BR" =>
         \/ Len(instr.operands) = 1 /\ instr.operands[1].kind = "BLOCK"
         \/ /\ Len(instr.operands) = 3
            /\ instr.operands[1].kind = "INSTR"
            /\ instr.operands[2].kind = "BLOCK" /\ instr.operands[3].kind = "BLOCK"
AllWellFormed(f) == \A i \in InstrIDs(f) : WellFormed(Instr(f, i))

\* Blocks list instructions of the function, each later than all before it.
ListsExisting(f) ==
    \A b \in BlockIDs(f) : \A i : Lists(f, b, i) => i \in InstrIDs(f)
InOrder(f) ==
    \A b, c \in BlockIDs(f) :
        \A k \in DOMAIN Block(f, b).instrIDs, l \in DOMAIN Block(f, c).instrIDs :
            b < c \/ (b = c /\ k < l) => Block(f, b).instrIDs[k] < Block(f, c).instrIDs[l]

\* The instruction right after a conditional branch is the one no block lists.
Follows(f, i) == i > 0 /\ IsConditionalBranch(Instr(f, i - 1))
AllPlaced(f) == \A i \in InstrIDs(f) : Placed(f, i) <=> ~Follows(f, i)

\* A branch that was patched leads to a later block than its own.
Forward(f) ==
    \A i \in InstrIDs(f) : \A k \in DOMAIN Instr(f, i).operands :
        Instr(f, i).operands[k].kind = "BLOCK" /\ Instr(f, i).operands[k].id # 0 =>
            \A b \in BlockIDs(f) : Lists(f, b, i) => b < Instr(f, i).operands[k].id

\* A block of an if statement belongs to an instruction of the function, and no
\* two blocks have the same label.
OwnLabels(f) ==
    \A b \in BlockIDs(f) :
        Block(f, b).label.role # "entry" => Block(f, b).label.id \in InstrIDs(f)
LabelsDiffer(f) ==
    \A b, c \in BlockIDs(f) : Block(f, b).label = Block(f, c).label => b = c
Core(f) ==
    AllWellFormed(f) /\ ListsExisting(f) /\ InOrder(f) /\ AllPlaced(f) /\ Forward(f)
    /\ OwnLabels(f) /\ LabelsDiffer(f)

\* The jump that goes with a conditional branch has been pushed.
Complete(f) == ~Follows(f, Len(f.instructions))

\* What the two branches pushed for an if statement lead to so far.
LabelFor(role, i) == [role |-> role, id |-> i]
Labelled(f, b, role, i) ==
    b \in BlockIDs(f) /\ Block(f, b).label = LabelFor(role, i)
HasElse(f, i) == \E b \in BlockIDs(f) : Labelled(f, b, "if_false", i)
IfOK(f, i) ==
    LET branch == Instr(f, i).operands
        jump   == Instr(f, i + 1).operands
    IN /\ Instr(f, i + 1).opcode = "BR" /\ Len(jump) = 1
       /\ branch[2].id # 0 /\ Labelled(f, branch[2].id, "if_true", i)
       /\ HasElse(f, i) => branch[3].id # 0 /\ Labelled(f, branch[3].id, "if_false", i)
       /\ ~HasElse(f, i) /\ branch[3].id # 0 => Labelled(f, branch[3].id, "if_end", i)
       /\ jump[1].id # 0 => Labelled(f, jump[1].id, "if_end", i)
IfsOK(f) ==
    \A i \in InstrIDs(f) : IsConditionalBranch(Instr(f, i)) => IfOK(f, i)

\* Instruction i has a target that is still block 0.
Unpatched(f, i) ==
    \E k \in DOMAIN Instr(f, i).operands :
        Instr(f, i).operands[k].kind = "BLOCK" /\ Instr(f, i).operands[k].id = 0
\* Where an if statement ends there is a block only when its jump leads there.
JoinsPatched(f) ==
    \A b \in BlockIDs(f) :
        Block(f, b).label.role = "if_end" =>
            /\ Block(f, b).label.id + 1 \in InstrIDs(f)
            /\ ~Unpatched(f, Block(f, b).label.id + 1)

\* A function as a handler may leave it half-way, and as it finds and leaves it.
Shaped(f) == f \in FunctionType /\ f.blocks # <<>> /\ Core(f) /\ Complete(f) /\ IfsOK(f)
ShapeOK(f) == Core(f) /\ Complete(f) /\ IfsOK(f) /\ JoinsPatched(f)
Well(f) == f \in FunctionType /\ f.blocks # <<>> /\ ShapeOK(f)

\* A block is listed by its place, its instructions are ids.
LEMMA BlockFields ==
    ASSUME NEW f \in FunctionType, NEW b \in BlockIDs(f)
    PROVE  /\ b \in Nat /\ b \in 0 .. Len(f.blocks) - 1
           /\ Block(f, b) \in LLVMBasicBlock
           /\ Block(f, b).instrIDs \in Seq(Nat)
           /\ Block(f, b).label \in Label
           /\ DOMAIN Block(f, b).instrIDs = 1 .. Len(Block(f, b).instrIDs)
           /\ Len(Block(f, b).instrIDs) \in Nat
<1>1. /\ f.blocks \in Seq(LLVMBasicBlock) /\ Len(f.blocks) \in Nat
      /\ b \in Nat /\ b + 1 \in 1 .. Len(f.blocks)
  BY FunctionFields DEF BlockIDs, LastBlock
<1>2. Block(f, b) \in LLVMBasicBlock
  BY <1>1 DEF Block
<1> QED
  BY <1>1, <1>2 DEF LLVMBasicBlock

\* The last block is one of the blocks, and the ids of instructions are less
\* than their number.
LEMMA LastBlockIn ==
    ASSUME NEW f \in FunctionType, f.blocks # <<>>
    PROVE  /\ LastBlock(f) \in BlockIDs(f) /\ LastBlock(f) \in Nat
           /\ \A b \in BlockIDs(f) : b \in Nat /\ b <= LastBlock(f)
           /\ \A i \in InstrIDs(f) : i \in Nat /\ i < Len(f.instructions)
           /\ Len(f.instructions) \in Nat
           /\ Len(f.instructions) \notin InstrIDs(f)
<1>1. Len(f.blocks) \in Nat /\ Len(f.blocks) > 0 /\ Len(f.instructions) \in Nat
  BY FunctionFields
<1> QED
  BY <1>1 DEF LastBlock, BlockIDs, InstrIDs, LastInstr

-----------------------------------------------------------------------------
(* What the primitives do to blocks and instructions *)

\* g has one instruction more than f.
Pushes(f, g, instr) == g.instructions = Append(f.instructions, instr)

\* One instruction more: the others are as they were.
LEMMA OneMore ==
    ASSUME NEW f \in FunctionType, NEW g \in FunctionType, NEW instr, Pushes(f, g, instr)
    PROVE  /\ Len(g.instructions) = Len(f.instructions) + 1
           /\ LastInstr(g) = Len(f.instructions)
           /\ InstrIDs(g) = InstrIDs(f) \cup {Len(f.instructions)}
           /\ \A i \in InstrIDs(f) : Instr(g, i) = Instr(f, i)
           /\ Instr(g, Len(f.instructions)) = instr
<1>1. f.instructions \in Seq(LLVMInstruction) /\ Len(f.instructions) \in Nat
  BY FunctionFields
<1>2. /\ Len(g.instructions) = Len(f.instructions) + 1
      /\ \A j \in 1 .. Len(f.instructions) : g.instructions[j] = f.instructions[j]
      /\ g.instructions[Len(f.instructions) + 1] = instr
  BY <1>1 DEF Pushes
<1> QED
  BY <1>1, <1>2 DEF Instr, InstrIDs, LastInstr

\* _emitInstr lists the new id in the last block, after the others there.
LEMMA EmitLists ==
    ASSUME NEW f \in FunctionType, f.blocks # <<>>, NEW instr \in LLVMInstruction
    PROVE  LET g == EmitInstr(f, instr)
           IN /\ BlockIDs(g) = BlockIDs(f) /\ LastBlock(g) = LastBlock(f)
              /\ g.blocks # <<>>
              /\ \A b \in BlockIDs(f) :
                   /\ Block(g, b).label = Block(f, b).label
                   /\ b # LastBlock(f) => Block(g, b).instrIDs = Block(f, b).instrIDs
              /\ Block(g, LastBlock(f)).instrIDs =
                   Append(Block(f, LastBlock(f)).instrIDs, Len(f.instructions))
<1> DEFINE block == [f.blocks[Len(f.blocks)] EXCEPT
                        !.instrIDs = Append(@, Len(f.instructions))]
           blocks == [f.blocks EXCEPT ![Len(f.blocks)] = block]
<1>1. /\ f.blocks \in Seq(LLVMBasicBlock) /\ Len(f.blocks) \in Nat
      /\ Len(f.blocks) \in 1 .. Len(f.blocks)
      /\ f.blocks[Len(f.blocks)] \in LLVMBasicBlock
  BY FunctionFields
<1>2. /\ block.label = f.blocks[Len(f.blocks)].label
      /\ block.instrIDs = Append(f.blocks[Len(f.blocks)].instrIDs, Len(f.instructions))
  BY <1>1 DEF LLVMBasicBlock
<1> HIDE DEF block
<1>3. /\ Len(blocks) = Len(f.blocks)
      /\ \A j \in 1 .. Len(f.blocks) : blocks[j] = IF j = Len(f.blocks) THEN block ELSE f.blocks[j]
  BY <1>1
<1>4. EmitInstr(f, instr).blocks = blocks
  BY DEF EmitInstr, FunctionType, LLVMFunction, block
<1> HIDE DEF blocks
<1> QED
  BY <1>1, <1>2, <1>3, <1>4 DEF Block, BlockIDs, LastBlock

\* What _emitInstr makes of "block b lists instruction i".
LEMMA EmitMembers ==
    ASSUME NEW f \in FunctionType, f.blocks # <<>>, NEW instr \in LLVMInstruction
    PROVE  LET g == EmitInstr(f, instr)
           IN \A b \in BlockIDs(f) : \A i :
                Lists(g, b, i) <=>
                    Lists(f, b, i) \/ (b = LastBlock(f) /\ i = Len(f.instructions))
<1> DEFINE g == EmitInstr(f, instr)
<1>1. /\ \A b \in BlockIDs(f) :
           b # LastBlock(f) => Block(g, b).instrIDs = Block(f, b).instrIDs
      /\ Block(g, LastBlock(f)).instrIDs =
           Append(Block(f, LastBlock(f)).instrIDs, Len(f.instructions))
  BY EmitLists
<1> HIDE DEF g
<1>2. ASSUME NEW b \in BlockIDs(f), NEW i
      PROVE  Lists(g, b, i) <=>
                Lists(f, b, i) \/ (b = LastBlock(f) /\ i = Len(f.instructions))
  <2>1. CASE b # LastBlock(f)
    BY <1>1, <2>1 DEF Lists
  <2>2. CASE b = LastBlock(f)
    <3> DEFINE ids == Block(f, b).instrIDs
    <3>1. ids \in Seq(Nat) /\ Block(g, b).instrIDs = Append(ids, Len(f.instructions))
      BY <1>1, <2>2, BlockFields
    <3> HIDE DEF ids
    <3>2. /\ DOMAIN Append(ids, Len(f.instructions)) = 1 .. Len(ids) + 1
          /\ DOMAIN ids = 1 .. Len(ids) /\ Len(ids) \in Nat
          /\ \A k \in 1 .. Len(ids) : Append(ids, Len(f.instructions))[k] = ids[k]
          /\ Append(ids, Len(f.instructions))[Len(ids) + 1] = Len(f.instructions)
      BY <3>1
    <3>3. (\E k \in DOMAIN Append(ids, Len(f.instructions)) :
                Append(ids, Len(f.instructions))[k] = i)
          <=> (\E k \in DOMAIN ids : ids[k] = i) \/ i = Len(f.instructions)
      BY <3>2
    <3> QED
      BY <3>1, <3>3, <2>2 DEF Lists, ids
  <2> QED
    BY <2>1, <2>2
<1> QED
  BY <1>2 DEF g

\* _createBlock: the other blocks are as they were, the new one is empty.
LEMMA CreateLists ==
    ASSUME NEW f \in FunctionType, NEW r \in LabelRole, NEW n \in Nat,
           NEW g, g = CreateBlock(f, r, n)
    PROVE  /\ LastBlock(g) = Len(f.blocks) /\ g.blocks # <<>>
           /\ BlockIDs(g) = BlockIDs(f) \cup {LastBlock(g)}
           /\ LastBlock(g) \notin BlockIDs(f) /\ LastBlock(g) \in Nat
           /\ \A b \in BlockIDs(f) : Block(g, b) = Block(f, b) /\ b < LastBlock(g)
           /\ Block(g, LastBlock(g)).label = LabelFor(r, n)
           /\ Block(g, LastBlock(g)).instrIDs = <<>>
<1> DEFINE block == [label |-> [role |-> r, id |-> n], instrIDs |-> <<>>]
<1>1. f.blocks \in Seq(LLVMBasicBlock) /\ Len(f.blocks) \in Nat
  BY FunctionFields
<1>2. g.blocks = Append(f.blocks, block)
  BY DEF CreateBlock, FunctionType, LLVMFunction
<1>3. block.label = LabelFor(r, n) /\ block.instrIDs = <<>>
  BY DEF LabelFor
<1> HIDE DEF block
<1>4. /\ Len(g.blocks) = Len(f.blocks) + 1
      /\ \A j \in 1 .. Len(f.blocks) : g.blocks[j] = f.blocks[j]
      /\ g.blocks[Len(f.blocks) + 1] = block
  BY <1>1, <1>2
<1>5. /\ LastBlock(g) = Len(f.blocks) /\ g.blocks # <<>>
      /\ BlockIDs(g) = BlockIDs(f) \cup {LastBlock(g)}
      /\ LastBlock(g) \notin BlockIDs(f) /\ LastBlock(g) \in Nat
  BY <1>1, <1>4 DEF BlockIDs, LastBlock
<1>6. ASSUME NEW b \in BlockIDs(f) PROVE Block(g, b) = Block(f, b) /\ b < LastBlock(g)
  <2>1. b \in Nat /\ b + 1 \in 1 .. Len(f.blocks)
    BY <1>1 DEF BlockIDs, LastBlock
  <2> QED
    BY <1>1, <1>4, <1>5, <2>1 DEF Block
<1>7. Block(g, LastBlock(g)) = block
  BY <1>4, <1>5 DEF Block
<1> QED
  BY <1>3, <1>5, <1>6, <1>7

\* What _createBlock makes of "block b lists instruction i".
LEMMA CreateMembers ==
    ASSUME NEW f \in FunctionType, NEW r \in LabelRole, NEW n \in Nat,
           NEW g, g = CreateBlock(f, r, n)
    PROVE  /\ \A b \in BlockIDs(f) : \A i : Lists(g, b, i) <=> Lists(f, b, i)
           /\ \A i : ~Lists(g, LastBlock(g), i)
<1>1. /\ \A b \in BlockIDs(f) : Block(g, b) = Block(f, b)
      /\ Block(g, LastBlock(g)).instrIDs = <<>>
  BY CreateLists
<1>2. \A b \in BlockIDs(f) : \A i : Lists(g, b, i) <=> Lists(f, b, i)
  BY <1>1 DEF Lists
<1>3. \A i : ~Lists(g, LastBlock(g), i)
  BY <1>1 DEF Lists
<1> QED
  BY <1>2, <1>3

\* Patching leaves everything of an instruction but its operands.
LEMMA PatchFields ==
    ASSUME NEW f \in FunctionType, NEW id \in InstrIDs(f), NEW target, NEW k
    PROVE  LET g == PatchOperand(f, id, k, target)
           IN \A i \in InstrIDs(f) :
                /\ Instr(g, i).opcode = Instr(f, i).opcode
                /\ Instr(g, i).type = Instr(f, i).type
                /\ Instr(g, i).cond = Instr(f, i).cond
<1> DEFINE operands == [Instr(f, id).operands EXCEPT ![k + 1] = [@ EXCEPT !.id = target]]
           instr == [Instr(f, id) EXCEPT !.operands = operands]
           g == PatchOperand(f, id, k, target)
<1>1. /\ f.instructions \in Seq(LLVMInstruction) /\ Len(f.instructions) \in Nat
      /\ id + 1 \in 1 .. Len(f.instructions) /\ id \in Nat
  BY FunctionFields DEF InstrIDs, LastInstr
<1>2. g.instructions = [f.instructions EXCEPT ![id + 1] = instr]
  BY DEF PatchOperand, Instr, FunctionType, LLVMFunction
<1>3. /\ instr.opcode = Instr(f, id).opcode /\ instr.type = Instr(f, id).type
      /\ instr.cond = Instr(f, id).cond
  BY InstrFields DEF LLVMInstruction
<1> HIDE DEF instr, g
<1>4. ASSUME NEW i \in InstrIDs(f)
      PROVE  Instr(g, i) = IF i = id THEN instr ELSE Instr(f, i)
  <2>1. i + 1 \in 1 .. Len(f.instructions) /\ i \in Nat
    BY <1>1 DEF InstrIDs, LastInstr
  <2> QED
    BY <1>1, <1>2, <2>1 DEF Instr
<1> QED
  BY <1>3, <1>4 DEF g

-----------------------------------------------------------------------------
(* Emitting an instruction keeps the order of the blocks *)

\* Everything _emitInstr does to blocks and instructions.
LEMMA EmitFacts ==
    ASSUME NEW f \in FunctionType, f.blocks # <<>>, NEW instr \in LLVMInstruction,
           NEW g, g = EmitInstr(f, instr)
    PROVE  /\ g \in FunctionType /\ g.blocks # <<>>
           /\ LastInstr(g) = Len(f.instructions)
           /\ Len(g.instructions) = Len(f.instructions) + 1
           /\ InstrIDs(g) = InstrIDs(f) \cup {Len(f.instructions)}
           /\ \A i \in InstrIDs(f) : Instr(g, i) = Instr(f, i)
           /\ Instr(g, Len(f.instructions)) = instr
           /\ BlockIDs(g) = BlockIDs(f) /\ LastBlock(g) = LastBlock(f)
           /\ \A b \in BlockIDs(f) : Block(g, b).label = Block(f, b).label
           /\ \A b \in BlockIDs(f) : \A i :
                Lists(g, b, i) <=>
                    Lists(f, b, i) \/ (b = LastBlock(f) /\ i = Len(f.instructions))
<1>1. /\ g \in FunctionType
      /\ g.instructions = Append(f.instructions, instr)
  BY EmitInstrShape
<1>2. /\ BlockIDs(g) = BlockIDs(f) /\ LastBlock(g) = LastBlock(f) /\ g.blocks # <<>>
      /\ \A b \in BlockIDs(f) : Block(g, b).label = Block(f, b).label
  BY EmitLists
<1>3. \A b \in BlockIDs(f) : \A i :
        Lists(g, b, i) <=> Lists(f, b, i) \/ (b = LastBlock(f) /\ i = Len(f.instructions))
  BY EmitMembers
<1>4. /\ LastInstr(g) = Len(f.instructions)
      /\ Len(g.instructions) = Len(f.instructions) + 1
      /\ InstrIDs(g) = InstrIDs(f) \cup {Len(f.instructions)}
      /\ \A i \in InstrIDs(f) : Instr(g, i) = Instr(f, i)
      /\ Instr(g, Len(f.instructions)) = instr
  <2>1. g \in FunctionType /\ Pushes(f, g, instr)
    BY <1>1 DEF Pushes
  <2> QED
    BY <2>1, OneMore
<1> QED
  BY <1>1, <1>2, <1>3, <1>4, Zenon

\* The new id is the largest so far and comes last in the last block.
LEMMA EmitInOrder ==
    ASSUME NEW f \in FunctionType, f.blocks # <<>>, NEW instr \in LLVMInstruction,
           NEW g, g = EmitInstr(f, instr),
           ListsExisting(f), InOrder(f)
    PROVE  InOrder(g)
<1> DEFINE n == Len(f.instructions)
           last == LastBlock(f)
<1>1. last \in BlockIDs(f) /\ n \in Nat /\ \A i \in InstrIDs(f) : i \in Nat /\ i < n
  BY LastBlockIn
<1>2. \A b \in BlockIDs(f) : b \in Nat /\ b <= last
  BY LastBlockIn
<1>3. /\ BlockIDs(g) = BlockIDs(f)
      /\ \A b \in BlockIDs(f) : b # last => Block(g, b).instrIDs = Block(f, b).instrIDs
      /\ Block(g, last).instrIDs = Append(Block(f, last).instrIDs, n)
  BY EmitLists
<1>4. ASSUME NEW b \in BlockIDs(f), NEW k \in DOMAIN Block(g, b).instrIDs
      PROVE  \/ /\ k \in DOMAIN Block(f, b).instrIDs
                /\ Block(g, b).instrIDs[k] = Block(f, b).instrIDs[k]
                /\ Block(g, b).instrIDs[k] \in InstrIDs(f)
             \/ /\ b = last /\ Block(g, b).instrIDs[k] = n
                /\ k = Len(Block(f, b).instrIDs) + 1
  <2>1. /\ Block(f, b).instrIDs \in Seq(Nat)
        /\ DOMAIN Block(f, b).instrIDs = 1 .. Len(Block(f, b).instrIDs)
        /\ Len(Block(f, b).instrIDs) \in Nat
    BY BlockFields
  <2>2. \A l \in DOMAIN Block(f, b).instrIDs : Block(f, b).instrIDs[l] \in InstrIDs(f)
    BY DEF ListsExisting, Lists
  <2>3. CASE b # last
    BY <1>3, <2>2, <2>3
  <2>4. CASE b = last
    <3>1. Block(g, b).instrIDs = Append(Block(f, b).instrIDs, n)
      BY <1>3, <2>4
    <3>2. CASE k = Len(Block(f, b).instrIDs) + 1
      BY <2>1, <2>4, <3>1, <3>2
    <3>3. CASE k # Len(Block(f, b).instrIDs) + 1
      <4>1. k \in 1 .. Len(Block(f, b).instrIDs)
        BY <2>1, <3>1, <3>3
      <4>2. Block(g, b).instrIDs[k] = Block(f, b).instrIDs[k]
        BY <2>1, <3>1, <4>1
      <4> QED
        BY <2>1, <2>2, <4>1, <4>2
    <3> QED
      BY <3>2, <3>3
  <2> QED
    BY <2>3, <2>4
<1>5. ASSUME NEW b \in BlockIDs(f), NEW c \in BlockIDs(f),
             NEW k \in DOMAIN Block(g, b).instrIDs, NEW l \in DOMAIN Block(g, c).instrIDs,
             b < c \/ (b = c /\ k < l)
      PROVE  Block(g, b).instrIDs[k] < Block(g, c).instrIDs[l]
  <2>1. CASE c = last /\ Block(g, c).instrIDs[l] = n /\ l = Len(Block(f, c).instrIDs) + 1
    <3>1. ~(b = last /\ k = Len(Block(f, b).instrIDs) + 1)
      BY <1>1, <1>2, <1>5, <2>1, BlockFields
    <3>2. Block(g, b).instrIDs[k] \in InstrIDs(f)
      BY <1>4, <3>1
    <3> QED
      BY <1>1, <2>1, <3>2
  <2>2. CASE /\ l \in DOMAIN Block(f, c).instrIDs
             /\ Block(g, c).instrIDs[l] = Block(f, c).instrIDs[l]
    <3>1. ~(b = last /\ k = Len(Block(f, b).instrIDs) + 1)
      BY <1>2, <1>5, <2>2, BlockFields
    <3>2. /\ k \in DOMAIN Block(f, b).instrIDs
          /\ Block(g, b).instrIDs[k] = Block(f, b).instrIDs[k]
      BY <1>4, <3>1
    <3> QED
      BY <1>5, <2>2, <3>2 DEF InOrder
  <2> QED
    BY <1>4, <2>1, <2>2
<1> QED
  BY <1>3, <1>5 DEF InOrder

\* An instruction can be emitted whenever the last one is not a conditional
\* branch: it is placed, and does not lead back.
LEMMA EmitCore ==
    ASSUME NEW f \in FunctionType, f.blocks # <<>>, Core(f), Complete(f),
           NEW instr \in LLVMInstruction, WellFormed(instr),
           \A k \in DOMAIN instr.operands :
               instr.operands[k].kind = "BLOCK" /\ instr.operands[k].id # 0 =>
                   LastBlock(f) < instr.operands[k].id,
           NEW g, g = EmitInstr(f, instr)
    PROVE  Core(g)
<1> DEFINE n == Len(f.instructions)
<1>1. /\ g \in FunctionType /\ g.blocks # <<>>
      /\ InstrIDs(g) = InstrIDs(f) \cup {n}
      /\ \A i \in InstrIDs(f) : Instr(g, i) = Instr(f, i)
      /\ Instr(g, n) = instr
      /\ BlockIDs(g) = BlockIDs(f)
      /\ \A b \in BlockIDs(f) : Block(g, b).label = Block(f, b).label
  BY EmitFacts
<1>2. \A b \in BlockIDs(f) : \A i :
        Lists(g, b, i) <=> Lists(f, b, i) \/ (b = LastBlock(f) /\ i = n)
  BY EmitFacts
<1>3. /\ LastBlock(f) \in BlockIDs(f) /\ n \in Nat /\ n \notin InstrIDs(f)
      /\ \A i \in InstrIDs(f) : i \in Nat /\ i < n
  BY LastBlockIn
<1>4. AllWellFormed(g)
  BY <1>1 DEF Core, AllWellFormed
<1>5. ListsExisting(g)
  BY <1>1, <1>2 DEF Core, ListsExisting
<1>6. InOrder(g)
  BY EmitInOrder DEF Core
<1>7. AllPlaced(g)
  <2>1. \A i \in InstrIDs(f) : i > 0 => i - 1 \in InstrIDs(f)
    BY <1>3 DEF InstrIDs, LastInstr
  <2>2. \A i \in InstrIDs(f) : Follows(g, i) <=> Follows(f, i)
    BY <1>1, <2>1 DEF Follows
  <2>3. \A i \in InstrIDs(f) : Placed(g, i) <=> Placed(f, i)
    BY <1>1, <1>2, <1>3 DEF Placed
  <2>4. Placed(g, n)
    BY <1>1, <1>2, <1>3 DEF Placed
  <2>5. ~Follows(g, n)
    <3>1. n > 0 => n - 1 \in InstrIDs(f)
      BY <1>3 DEF InstrIDs, LastInstr
    <3> QED
      BY <1>1, <3>1 DEF Complete, Follows
  <2> QED
    BY <1>1, <2>2, <2>3, <2>4, <2>5 DEF Core, AllPlaced
<1>8. Forward(g)
  <2>1. ASSUME NEW i \in InstrIDs(f), NEW k \in DOMAIN Instr(g, i).operands,
               Instr(g, i).operands[k].kind = "BLOCK", Instr(g, i).operands[k].id # 0,
               NEW b \in BlockIDs(f), Lists(g, b, i)
        PROVE  b < Instr(g, i).operands[k].id
    <3>1. Lists(f, b, i)
      BY <1>2, <1>3, <2>1
    <3> QED
      BY <1>1, <2>1, <3>1 DEF Core, Forward
  <2>2. ASSUME NEW k \in DOMAIN instr.operands,
               instr.operands[k].kind = "BLOCK", instr.operands[k].id # 0,
               NEW b \in BlockIDs(f), Lists(g, b, n)
        PROVE  b < instr.operands[k].id
    <3>1. b = LastBlock(f)
      BY <1>2, <1>3, <2>2 DEF Core, ListsExisting
    <3> QED
      BY <2>2, <3>1
  <2> QED
    BY <1>1, <2>1, <2>2 DEF Forward
<1>9. OwnLabels(g) /\ LabelsDiffer(g)
  BY <1>1 DEF Core, OwnLabels, LabelsDiffer
<1> QED
  BY <1>4, <1>5, <1>6, <1>7, <1>8, <1>9 DEF Core

-----------------------------------------------------------------------------
(* Straight-line code *)

\* g is f with more instructions in its last block, none of them a branch.
Straight(f, g) ==
    /\ InstrIDs(f) \subseteq InstrIDs(g)
    /\ \A i \in InstrIDs(f) : Instr(g, i) = Instr(f, i)
    /\ \A i \in InstrIDs(g) : i \in InstrIDs(f) \/ Instr(g, i).opcode # "BR"
    /\ BlockIDs(g) = BlockIDs(f) /\ LastBlock(g) = LastBlock(f)
    /\ \A b \in BlockIDs(f) : \A i :
         Lists(g, b, i) <=>
             Lists(f, b, i) \/ (b = LastBlock(f) /\ i \in InstrIDs(g) \ InstrIDs(f))
Runs(f, g) == Well(g) /\ Straight(f, g)

\* Two pieces of straight-line code are one.
LEMMA RunsTransitive ==
    ASSUME NEW f, NEW g, NEW h, Runs(f, g), Runs(g, h)
    PROVE  Runs(f, h)
<1>1. /\ InstrIDs(f) \subseteq InstrIDs(g) /\ InstrIDs(g) \subseteq InstrIDs(h)
      /\ BlockIDs(g) = BlockIDs(f) /\ LastBlock(g) = LastBlock(f)
      /\ BlockIDs(h) = BlockIDs(f) /\ LastBlock(h) = LastBlock(f)
  BY DEF Runs, Straight
<1>2. \A i \in InstrIDs(f) : Instr(h, i) = Instr(f, i)
  BY <1>1 DEF Runs, Straight
<1>3. \A i \in InstrIDs(h) : i \in InstrIDs(f) \/ Instr(h, i).opcode # "BR"
  BY <1>1 DEF Runs, Straight
<1>4. ASSUME NEW b \in BlockIDs(f), NEW i
      PROVE  Lists(h, b, i) <=>
                Lists(f, b, i) \/ (b = LastBlock(f) /\ i \in InstrIDs(h) \ InstrIDs(f))
  <2>1. Lists(h, b, i) <=>
            Lists(g, b, i) \/ (b = LastBlock(f) /\ i \in InstrIDs(h) \ InstrIDs(g))
    BY <1>1 DEF Runs, Straight
  <2>2. Lists(g, b, i) <=>
            Lists(f, b, i) \/ (b = LastBlock(f) /\ i \in InstrIDs(g) \ InstrIDs(f))
    BY DEF Runs, Straight
  <2> QED
    BY <1>1, <2>1, <2>2
<1> QED
  BY <1>1, <1>2, <1>3, <1>4 DEF Runs, Straight

\* A function whose other arenas change has the same shape.
LEMMA SameCode ==
    ASSUME NEW f, Well(f), NEW g \in FunctionType,
           g.instructions = f.instructions, g.blocks = f.blocks
    PROVE  Runs(f, g)
<1>1. /\ \A i : Instr(g, i) = Instr(f, i)
      /\ \A b : Block(g, b) = Block(f, b)
      /\ InstrIDs(g) = InstrIDs(f) /\ BlockIDs(g) = BlockIDs(f)
      /\ LastBlock(g) = LastBlock(f)
  BY DEF Instr, Block, InstrIDs, BlockIDs, LastInstr, LastBlock
<1>2. \A b, i : Lists(g, b, i) <=> Lists(f, b, i)
  BY <1>1 DEF Lists
<1>3. \A i : Follows(g, i) <=> Follows(f, i)
  BY <1>1 DEF Follows
<1>4. \A b, r, i : Labelled(g, b, r, i) <=> Labelled(f, b, r, i)
  BY <1>1 DEF Labelled
<1>5. /\ AllWellFormed(g) /\ ListsExisting(g) /\ InOrder(g) /\ OwnLabels(g)
      /\ LabelsDiffer(g) /\ JoinsPatched(g)
  <2>1. AllWellFormed(g) /\ ListsExisting(g) /\ InOrder(g)
    BY <1>1, <1>2 DEF Well, ShapeOK, Core, AllWellFormed, ListsExisting, InOrder
  <2>2. OwnLabels(g) /\ LabelsDiffer(g)
    BY <1>1 DEF Well, ShapeOK, Core, OwnLabels, LabelsDiffer
  <2>3. \A i : Unpatched(g, i) <=> Unpatched(f, i)
    BY <1>1 DEF Unpatched
  <2>4. JoinsPatched(g)
    BY <1>1, <2>3 DEF Well, ShapeOK, JoinsPatched
  <2> QED
    BY <2>1, <2>2, <2>4
<1>6. AllPlaced(g) /\ Complete(g)
  <2>1. \A i \in InstrIDs(f) : Placed(f, i) <=> ~Follows(f, i)
    BY DEF Well, ShapeOK, Core, AllPlaced
  <2>2. \A i : Placed(g, i) <=> Placed(f, i)
    BY <1>1, <1>2 DEF Placed
  <2> QED
    BY <1>1, <1>3, <2>1, <2>2 DEF Well, ShapeOK, AllPlaced, Complete
<1>7. Forward(g)
  BY <1>1, <1>2 DEF Well, ShapeOK, Core, Forward
<1>8. ASSUME NEW i \in InstrIDs(g), IsConditionalBranch(Instr(g, i)) PROVE IfOK(g, i)
  <2>1. IfOK(f, i)
    BY <1>1, <1>8 DEF Well, ShapeOK, IfsOK
  <2>2. HasElse(g, i) <=> HasElse(f, i)
    BY <1>1, <1>4 DEF HasElse
  <2> QED
    BY <1>1, <1>4, <2>1, <2>2 DEF IfOK
<1>9. Well(g)
  BY <1>5, <1>6, <1>7, <1>8 DEF Well, ShapeOK, Core, IfsOK
<1> QED
  BY <1>1, <1>2, <1>9 DEF Runs, Straight

\* Nothing emitted is straight-line code.
LEMMA RunsReflexive ==
    ASSUME NEW f, Well(f)
    PROVE  Runs(f, f)
BY DEF Runs, Straight, Well

\* The branches of an if statement stay what they are while blocks keep their
\* labels, and its two instructions are left alone.
LEMMA IfKept ==
    ASSUME NEW f, NEW g, NEW i, IfOK(f, i),
           Instr(g, i) = Instr(f, i), Instr(g, i + 1) = Instr(f, i + 1),
           BlockIDs(f) \subseteq BlockIDs(g),
           \A b \in BlockIDs(f) : Block(g, b).label = Block(f, b).label,
           HasElse(g, i) <=> HasElse(f, i)
    PROVE  IfOK(g, i)
<1>1. \A b, r : Labelled(f, b, r, i) => Labelled(g, b, r, i)
  BY DEF Labelled
<1> QED
  BY <1>1 DEF IfOK

\* A conditional branch has its jump right behind it.
LEMMA JumpBehind ==
    ASSUME NEW f \in FunctionType, Complete(f),
           NEW i \in InstrIDs(f), IsConditionalBranch(Instr(f, i))
    PROVE  i + 1 \in InstrIDs(f) /\ Follows(f, i + 1)
<1>1. i \in Nat /\ Len(f.instructions) \in Nat /\ i <= Len(f.instructions) - 1
  BY FunctionFields DEF InstrIDs, LastInstr
<1>2. (i + 1) - 1 = i /\ i + 1 > 0
  BY <1>1
<1>3. Follows(f, i + 1)
  BY <1>2 DEF Follows
<1>4. i + 1 # Len(f.instructions)
  BY <1>3 DEF Complete
<1> QED
  BY <1>1, <1>3, <1>4 DEF InstrIDs, LastInstr

\* Emitting anything but a conditional branch keeps the if statements as
\* they are.
LEMMA EmitShapeOK ==
    ASSUME NEW f, Well(f), NEW instr \in LLVMInstruction, WellFormed(instr),
           ~IsConditionalBranch(instr),
           \A k \in DOMAIN instr.operands :
               instr.operands[k].kind = "BLOCK" /\ instr.operands[k].id # 0 =>
                   LastBlock(f) < instr.operands[k].id,
           NEW g, g = EmitInstr(f, instr)
    PROVE  Well(g)
<1> DEFINE n == Len(f.instructions)
<1>0. /\ f \in FunctionType /\ f.blocks # <<>>
      /\ Core(f) /\ Complete(f) /\ IfsOK(f) /\ JoinsPatched(f)
  BY DEF Well, ShapeOK
<1>1. /\ g \in FunctionType /\ g.blocks # <<>>
      /\ Len(g.instructions) = n + 1
      /\ InstrIDs(g) = InstrIDs(f) \cup {n}
      /\ \A i \in InstrIDs(f) : Instr(g, i) = Instr(f, i)
      /\ Instr(g, n) = instr
      /\ BlockIDs(g) = BlockIDs(f)
      /\ \A b \in BlockIDs(f) : Block(g, b).label = Block(f, b).label
  BY <1>0, EmitFacts
<1>2. Core(g)
  BY <1>0, EmitCore
<1>3. Complete(g)
  BY <1>0, <1>1, FunctionFields DEF Complete, Follows
<1>4. ASSUME NEW i \in InstrIDs(g), IsConditionalBranch(Instr(g, i))
      PROVE  IfOK(g, i)
  <2>1. i \in InstrIDs(f) /\ IsConditionalBranch(Instr(f, i))
    BY <1>1, <1>4
  <2>2. i + 1 \in InstrIDs(f) /\ IfOK(f, i)
    BY <1>0, <2>1, JumpBehind DEF IfsOK
  <2>3. HasElse(g, i) <=> HasElse(f, i)
    BY <1>1 DEF HasElse, Labelled
  <2> QED
    BY <1>1, <2>1, <2>2, <2>3, IfKept
<1>5. JoinsPatched(g)
  BY <1>0, <1>1 DEF JoinsPatched, Unpatched
<1> QED
  BY <1>1, <1>2, <1>3, <1>4, <1>5 DEF Well, ShapeOK, IfsOK

\* Emitting anything but a branch is straight-line code.
LEMMA EmitRuns ==
    ASSUME NEW f, Well(f), NEW instr \in LLVMInstruction, WellFormed(instr),
           instr.opcode # "BR", NEW g, g = EmitInstr(f, instr)
    PROVE  Runs(f, g)
<1>1. Well(g)
  BY EmitShapeOK DEF WellFormed, IsConditionalBranch
<1>2. f \in FunctionType /\ f.blocks # <<>>
  BY DEF Well
<1>3. /\ InstrIDs(g) = InstrIDs(f) \cup {Len(f.instructions)}
      /\ Len(f.instructions) \notin InstrIDs(f)
      /\ \A i \in InstrIDs(f) : Instr(g, i) = Instr(f, i)
      /\ Instr(g, Len(f.instructions)) = instr
      /\ BlockIDs(g) = BlockIDs(f) /\ LastBlock(g) = LastBlock(f)
  BY <1>2, EmitFacts, LastBlockIn
<1>4. \A b \in BlockIDs(f) : \A i :
        Lists(g, b, i) <=>
            Lists(f, b, i) \/ (b = LastBlock(f) /\ i = Len(f.instructions))
  BY <1>2, EmitFacts
<1> QED
  BY <1>1, <1>3, <1>4 DEF Runs, Straight

-----------------------------------------------------------------------------
(* If statements *)

\* The jump pushed behind a conditional branch is placed nowhere.
LEMMA AddCore ==
    ASSUME NEW f \in FunctionType, f.blocks # <<>>, Core(f),
           Follows(f, Len(f.instructions)),
           NEW instr \in LLVMInstruction, WellFormed(instr),
           NEW g, g = AddInstr(f, instr)
    PROVE  Core(g)
<1> DEFINE n == Len(f.instructions)
<1>1. /\ g \in FunctionType /\ g.instructions = Append(f.instructions, instr)
      /\ g.blocks = f.blocks
  BY AddInstrShape
<1>2. /\ InstrIDs(g) = InstrIDs(f) \cup {n}
      /\ \A i \in InstrIDs(f) : Instr(g, i) = Instr(f, i)
      /\ Instr(g, n) = instr
  <2>1. g \in FunctionType /\ Pushes(f, g, instr)
    BY <1>1 DEF Pushes
  <2> QED
    BY <2>1, OneMore
<1>3. /\ n \in Nat /\ n \notin InstrIDs(f)
      /\ \A i \in InstrIDs(f) : i \in Nat /\ i < n
  BY LastBlockIn
<1>4. /\ BlockIDs(g) = BlockIDs(f)
      /\ \A b : Block(g, b) = Block(f, b)
      /\ \A b, i : Lists(g, b, i) <=> Lists(f, b, i)
  BY <1>1 DEF BlockIDs, LastBlock, Block, Lists
<1>5. AllWellFormed(g)
  BY <1>2 DEF Core, AllWellFormed
<1>6. ListsExisting(g)
  BY <1>2, <1>4 DEF Core, ListsExisting
<1>7. InOrder(g)
  BY <1>4 DEF Core, InOrder
<1>8. AllPlaced(g)
  <2>1. \A i \in InstrIDs(f) \cup {n} : i > 0 => i - 1 \in InstrIDs(f)
    BY <1>3 DEF InstrIDs, LastInstr
  <2>2. \A i \in InstrIDs(f) \cup {n} : Follows(g, i) <=> Follows(f, i)
    BY <1>2, <2>1 DEF Follows
  <2>3. \A i : Placed(g, i) <=> Placed(f, i)
    BY <1>4 DEF Placed
  <2>4. ~Placed(f, n)
    BY <1>3 DEF Placed, Core, ListsExisting
  <2> QED
    BY <1>2, <2>2, <2>3, <2>4 DEF Core, AllPlaced
<1>9. Forward(g)
  <2>1. \A b \in BlockIDs(f) : ~Lists(g, b, n)
    BY <1>3, <1>4 DEF Core, ListsExisting
  <2> QED
    BY <1>2, <1>4, <2>1 DEF Core, Forward
<1>10. OwnLabels(g) /\ LabelsDiffer(g)
  BY <1>2, <1>4 DEF Core, OwnLabels, LabelsDiffer
<1> QED
  BY <1>5, <1>6, <1>7, <1>8, <1>9, <1>10 DEF Core

\* A new block of an if statement keeps the order, if there is none like it.
LEMMA CreateCore ==
    ASSUME NEW f \in FunctionType, Core(f),
           NEW r \in LabelRole, NEW n \in InstrIDs(f), n \in Nat,
           \A b \in BlockIDs(f) : Block(f, b).label # LabelFor(r, n),
           NEW g, g = CreateBlock(f, r, n)
    PROVE  /\ g \in FunctionType /\ g.blocks # <<>> /\ Core(g)
           /\ g.instructions = f.instructions
           /\ InstrIDs(g) = InstrIDs(f)
           /\ \A i : Instr(g, i) = Instr(f, i) /\ (Follows(g, i) <=> Follows(f, i))
<1>1. /\ g \in FunctionType /\ g.instructions = f.instructions
  BY CreateBlockShape
<1>2. /\ g.blocks # <<>>
      /\ BlockIDs(g) = BlockIDs(f) \cup {LastBlock(g)}
      /\ LastBlock(g) \notin BlockIDs(f)
      /\ \A b \in BlockIDs(f) : Block(g, b) = Block(f, b)
      /\ Block(g, LastBlock(g)).label = LabelFor(r, n)
      /\ Block(g, LastBlock(g)).instrIDs = <<>>
  BY CreateLists
<1>3. /\ \A b \in BlockIDs(f) : \A i : Lists(g, b, i) <=> Lists(f, b, i)
      /\ \A i : ~Lists(g, LastBlock(g), i)
  BY CreateMembers
<1>4. /\ InstrIDs(g) = InstrIDs(f)
      /\ \A i : Instr(g, i) = Instr(f, i)
  BY <1>1 DEF InstrIDs, LastInstr, Instr
<1>5. \A i : Follows(g, i) <=> Follows(f, i)
  BY <1>4 DEF Follows
<1>6. AllWellFormed(g) /\ ListsExisting(g)
  BY <1>2, <1>3, <1>4 DEF Core, AllWellFormed, ListsExisting
<1>7. InOrder(g)
  <2>1. DOMAIN Block(g, LastBlock(g)).instrIDs = {}
    BY <1>2
  <2> QED
    BY <1>2, <2>1 DEF Core, InOrder
<1>8. AllPlaced(g)
  <2>1. \A i : Placed(g, i) <=> Placed(f, i)
    BY <1>2, <1>3 DEF Placed
  <2> QED
    BY <1>4, <1>5, <2>1 DEF Core, AllPlaced
<1>9. Forward(g)
  BY <1>2, <1>3, <1>4 DEF Core, Forward
<1>10. OwnLabels(g) /\ LabelsDiffer(g)
  <2>1. LabelFor(r, n).role = r /\ LabelFor(r, n).id = n
    BY DEF LabelFor
  <2>2. OwnLabels(g)
    BY <1>2, <1>4, <2>1 DEF Core, OwnLabels
  <2>3. LabelsDiffer(g)
    BY <1>2 DEF Core, LabelsDiffer
  <2> QED
    BY <2>2, <2>3
<1> QED
  BY <1>1, <1>2, <1>4, <1>5, <1>6, <1>7, <1>8, <1>9, <1>10 DEF Core

\* An if statement keeps its branches when another block is created.
LEMMA CreateIfOK ==
    ASSUME NEW f \in FunctionType, NEW r \in LabelRole, NEW n \in Nat,
           NEW g, g = CreateBlock(f, r, n),
           NEW i, IfOK(f, i), ~(r = "if_false" /\ n = i)
    PROVE  IfOK(g, i)
<1>1. /\ BlockIDs(g) = BlockIDs(f) \cup {LastBlock(g)}
      /\ \A b \in BlockIDs(f) : Block(g, b) = Block(f, b)
      /\ Block(g, LastBlock(g)).label = LabelFor(r, n)
  BY CreateLists
<1>2. g.instructions = f.instructions
  BY CreateBlockShape
<1>3. Instr(g, i) = Instr(f, i) /\ Instr(g, i + 1) = Instr(f, i + 1)
  BY <1>2 DEF Instr
<1>4. LabelFor(r, n) # LabelFor("if_false", i)
  BY DEF LabelFor
<1>5. HasElse(g, i) <=> HasElse(f, i)
  BY <1>1, <1>4 DEF HasElse, Labelled
<1> QED
  BY <1>1, <1>3, <1>5, IfKept

\* What _emitInstr's caller changes by assigning to a branch target.
Retargeted(f, g, id, k, target) ==
    /\ g \in FunctionType /\ g.blocks = f.blocks
    /\ Len(g.instructions) = Len(f.instructions)
    /\ InstrIDs(g) = InstrIDs(f) /\ BlockIDs(g) = BlockIDs(f)
    /\ LastBlock(g) = LastBlock(f)
    /\ \A b : Block(g, b) = Block(f, b)
    /\ \A b, i : Lists(g, b, i) <=> Lists(f, b, i)
    /\ \A i \in InstrIDs(f) :
         /\ Instr(g, i).opcode = Instr(f, i).opcode
         /\ Instr(g, i).type = Instr(f, i).type
         /\ Instr(g, i).cond = Instr(f, i).cond
         /\ DOMAIN Instr(g, i).operands = DOMAIN Instr(f, i).operands
         /\ Len(Instr(g, i).operands) = Len(Instr(f, i).operands)
         /\ i # id => Instr(g, i).operands = Instr(f, i).operands
         /\ \A l \in DOMAIN Instr(f, i).operands :
              /\ Instr(g, i).operands[l].kind = Instr(f, i).operands[l].kind
              /\ ~(i = id /\ l = k + 1) => Instr(g, i).operands[l] = Instr(f, i).operands[l]
    /\ Instr(g, id).operands[k + 1].id = target

\* Patching changes one target and nothing else.
LEMMA PatchRetargets ==
    ASSUME NEW f \in FunctionType, NEW id \in InstrIDs(f), NEW target \in Nat,
           NEW k \in Nat, k + 1 \in DOMAIN Instr(f, id).operands,
           NEW g, g = PatchOperand(f, id, k, target)
    PROVE  Retargeted(f, g, id, k, target)
<1>1. /\ g \in FunctionType /\ Len(g.instructions) = Len(f.instructions)
      /\ g.blocks = f.blocks /\ Patched(f, g, id, k, target)
  BY PatchOperandShape
<1>2. \A i \in InstrIDs(f) :
        /\ Instr(g, i).opcode = Instr(f, i).opcode
        /\ Instr(g, i).type = Instr(f, i).type
        /\ Instr(g, i).cond = Instr(f, i).cond
  BY PatchFields
<1>3. /\ InstrIDs(g) = InstrIDs(f) /\ BlockIDs(g) = BlockIDs(f)
      /\ LastBlock(g) = LastBlock(f)
      /\ \A b : Block(g, b) = Block(f, b)
      /\ \A b, i : Lists(g, b, i) <=> Lists(f, b, i)
  BY <1>1 DEF InstrIDs, LastInstr, BlockIDs, LastBlock, Block, Lists
<1>4. ASSUME NEW i \in InstrIDs(f)
      PROVE  /\ DOMAIN Instr(g, i).operands = DOMAIN Instr(f, i).operands
             /\ Len(Instr(g, i).operands) = Len(Instr(f, i).operands)
             /\ \A l \in DOMAIN Instr(f, i).operands :
                  /\ Instr(g, i).operands[l].kind = Instr(f, i).operands[l].kind
                  /\ ~(i = id /\ l = k + 1) =>
                        Instr(g, i).operands[l] = Instr(f, i).operands[l]
  <2>1. /\ DOMAIN Instr(g, i).operands = DOMAIN Instr(f, i).operands
        /\ Len(Instr(g, i).operands) = Len(Instr(f, i).operands)
    BY <1>1 DEF Patched
  <2>2. ASSUME NEW l \in DOMAIN Instr(f, i).operands
        PROVE  /\ Instr(g, i).operands[l].kind = Instr(f, i).operands[l].kind
               /\ ~(i = id /\ l = k + 1) =>
                     Instr(g, i).operands[l] = Instr(f, i).operands[l]
    <3>1. Instr(f, i).operands[l] \in LLVMValueID
      BY InstrFields
    <3>2. [Instr(f, i).operands[l] EXCEPT !.id = target].kind = Instr(f, i).operands[l].kind
      BY <3>1 DEF LLVMValueID
    <3> QED
      BY <1>1, <3>2 DEF Patched
  <2> QED
    BY <2>1, <2>2
<1>5. ASSUME NEW i \in InstrIDs(f), i # id
      PROVE  Instr(g, i).operands = Instr(f, i).operands
  <2>1. i \in InstrIDs(g)
    BY <1>3
  <2>2. /\ Instr(g, i).operands \in Seq(LLVMValueID)
        /\ Instr(f, i).operands \in Seq(LLVMValueID)
    BY <1>1, <2>1, InstrFields
  <2> QED
    BY <1>4, <1>5, <2>2
<1>6. Instr(g, id).operands[k + 1].id = target
  <2>1. Instr(f, id).operands[k + 1] \in LLVMValueID
    BY InstrFields
  <2> QED
    BY <1>1, <2>1 DEF Patched, LLVMValueID
<1> QED
  BY <1>1, <1>2, <1>3, <1>4, <1>5, <1>6 DEF Retargeted

\* Patching keeps the order and what kind of instruction each one is.
LEMMA RetargetCore ==
    ASSUME NEW f \in FunctionType, Core(f), NEW id \in InstrIDs(f), NEW k, NEW target,
           \A b \in BlockIDs(f) : Lists(f, b, id) => b < target,
           NEW g, Retargeted(f, g, id, k, target)
    PROVE  /\ Core(g)
           /\ \A i \in InstrIDs(f) :
                IsConditionalBranch(Instr(g, i)) <=> IsConditionalBranch(Instr(f, i))
           /\ \A i \in InstrIDs(f) : Follows(g, i) <=> Follows(f, i)
           /\ Complete(f) => Complete(g)
<1>1. \A i \in InstrIDs(f) :
        IsConditionalBranch(Instr(g, i)) <=> IsConditionalBranch(Instr(f, i))
  BY DEF Retargeted, IsConditionalBranch
<1>2. /\ Len(f.instructions) \in Nat
      /\ \A i \in InstrIDs(f) \cup {Len(f.instructions)} : i > 0 => i - 1 \in InstrIDs(f)
  BY FunctionFields DEF InstrIDs, LastInstr
<1>3. \A i \in InstrIDs(f) \cup {Len(f.instructions)} : Follows(g, i) <=> Follows(f, i)
  BY <1>1, <1>2 DEF Follows
<1>4. AllWellFormed(g)
  <2>1. ASSUME NEW i \in InstrIDs(f) PROVE WellFormed(Instr(g, i))
    <3>1. WellFormed(Instr(f, i)) /\ DOMAIN Instr(f, i).operands = 1 .. Len(Instr(f, i).operands)
      BY InstrFields DEF Core, AllWellFormed
    <3>2. /\ Instr(g, i).opcode = Instr(f, i).opcode
          /\ Instr(g, i).type = Instr(f, i).type
          /\ DOMAIN Instr(g, i).operands = DOMAIN Instr(f, i).operands
          /\ Len(Instr(g, i).operands) = Len(Instr(f, i).operands)
          /\ \A l \in DOMAIN Instr(f, i).operands :
               Instr(g, i).operands[l].kind = Instr(f, i).operands[l].kind
      BY DEF Retargeted
    <3>3. Instr(f, i).opcode \in {"ICMP", "STORE"} => 1 \in DOMAIN Instr(f, i).operands
      BY <3>1 DEF WellFormed, LLVM!Operation
    <3>4. Instr(f, i).opcode = "BR" =>
            /\ 1 \in DOMAIN Instr(f, i).operands
            /\ Len(Instr(f, i).operands) = 3 =>
                 2 \in DOMAIN Instr(f, i).operands /\ 3 \in DOMAIN Instr(f, i).operands
      BY <3>1 DEF WellFormed
    <3> QED
      BY <3>1, <3>2, <3>3, <3>4 DEF WellFormed
  <2> QED
    BY <2>1 DEF AllWellFormed, Retargeted
<1>5. ListsExisting(g) /\ InOrder(g) /\ OwnLabels(g) /\ LabelsDiffer(g)
  BY DEF Core, ListsExisting, InOrder, OwnLabels, LabelsDiffer, Retargeted
<1>6. AllPlaced(g)
  <2>1. \A i : Placed(g, i) <=> Placed(f, i)
    BY DEF Placed, Retargeted
  <2> QED
    BY <1>3, <2>1 DEF Core, AllPlaced, Retargeted
<1>7. Forward(g)
  <2>1. ASSUME NEW i \in InstrIDs(f), NEW l \in DOMAIN Instr(f, i).operands,
               Instr(g, i).operands[l].kind = "BLOCK", Instr(g, i).operands[l].id # 0,
               NEW b \in BlockIDs(f), Lists(f, b, i)
        PROVE  b < Instr(g, i).operands[l].id
    <3>1. CASE i = id /\ l = k + 1
      BY <2>1, <3>1 DEF Retargeted
    <3>2. CASE ~(i = id /\ l = k + 1)
      <4>1. Instr(g, i).operands[l] = Instr(f, i).operands[l]
        BY <3>2 DEF Retargeted
      <4> QED
        BY <2>1, <4>1 DEF Core, Forward
    <3> QED
      BY <3>1, <3>2
  <2> QED
    BY <2>1 DEF Forward, Retargeted
<1>8. Complete(f) => Complete(g)
  BY <1>3 DEF Complete, Retargeted
<1> QED
  BY <1>1, <1>3, <1>4, <1>5, <1>6, <1>7, <1>8 DEF Core

\* An if statement keeps its branches when another one's are patched.
LEMMA RetargetIfOK ==
    ASSUME NEW f \in FunctionType, NEW id, NEW k, NEW target,
           NEW g, Retargeted(f, g, id, k, target),
           NEW i \in InstrIDs(f), i + 1 \in InstrIDs(f), i # id, i + 1 # id, IfOK(f, i)
    PROVE  IfOK(g, i)
<1>1. /\ Instr(g, i).operands = Instr(f, i).operands
      /\ Instr(g, i + 1).operands = Instr(f, i + 1).operands
      /\ Instr(g, i + 1).opcode = Instr(f, i + 1).opcode
  BY DEF Retargeted
<1>2. \A b, r : Labelled(g, b, r, i) <=> Labelled(f, b, r, i)
  BY DEF Labelled, Retargeted
<1>3. HasElse(g, i) <=> HasElse(f, i)
  BY <1>2 DEF HasElse, Retargeted
<1> QED
  BY <1>1, <1>2, <1>3 DEF IfOK

-----------------------------------------------------------------------------
(* Which branches are still to be patched *)

\* g is f after more instructions, with some targets patched that were not.
Later(f, g) ==
    \A i \in InstrIDs(f) :
        /\ i \in InstrIDs(g)
        /\ Instr(g, i).opcode = Instr(f, i).opcode
        /\ Instr(g, i).type = Instr(f, i).type
        /\ Instr(g, i).cond = Instr(f, i).cond
        /\ Len(Instr(g, i).operands) = Len(Instr(f, i).operands)
        /\ DOMAIN Instr(g, i).operands = DOMAIN Instr(f, i).operands
        /\ \A k \in DOMAIN Instr(f, i).operands :
             /\ Instr(g, i).operands[k].kind = Instr(f, i).operands[k].kind
             /\ Instr(g, i).operands[k] = Instr(f, i).operands[k]
                \/ (Instr(f, i).operands[k].kind = "BLOCK" /\ Instr(f, i).operands[k].id = 0)

\* What was patched later is so after both.
LEMMA LaterTransitive ==
    ASSUME NEW f, NEW g, NEW h, Later(f, g), Later(g, h)
    PROVE  Later(f, h)
<1> SUFFICES ASSUME NEW i \in InstrIDs(f)
             PROVE  /\ i \in InstrIDs(h)
                    /\ Instr(h, i).opcode = Instr(f, i).opcode
                    /\ Instr(h, i).type = Instr(f, i).type
                    /\ Instr(h, i).cond = Instr(f, i).cond
                    /\ Len(Instr(h, i).operands) = Len(Instr(f, i).operands)
                    /\ DOMAIN Instr(h, i).operands = DOMAIN Instr(f, i).operands
                    /\ \A k \in DOMAIN Instr(f, i).operands :
                         /\ Instr(h, i).operands[k].kind = Instr(f, i).operands[k].kind
                         /\ Instr(h, i).operands[k] = Instr(f, i).operands[k]
                            \/ (Instr(f, i).operands[k].kind = "BLOCK"
                                /\ Instr(f, i).operands[k].id = 0)
  BY DEF Later
<1>1. i \in InstrIDs(g)
  BY DEF Later
<1>2. /\ i \in InstrIDs(h)
      /\ Instr(h, i).opcode = Instr(f, i).opcode
      /\ Instr(h, i).type = Instr(f, i).type
      /\ Instr(h, i).cond = Instr(f, i).cond
      /\ Len(Instr(h, i).operands) = Len(Instr(f, i).operands)
      /\ DOMAIN Instr(h, i).operands = DOMAIN Instr(f, i).operands
  BY <1>1 DEF Later
<1>3. ASSUME NEW k \in DOMAIN Instr(f, i).operands
      PROVE  /\ Instr(h, i).operands[k].kind = Instr(f, i).operands[k].kind
             /\ Instr(h, i).operands[k] = Instr(f, i).operands[k]
                \/ (Instr(f, i).operands[k].kind = "BLOCK"
                    /\ Instr(f, i).operands[k].id = 0)
  <2>1. k \in DOMAIN Instr(g, i).operands
    BY DEF Later
  <2>2. /\ Instr(g, i).operands[k].kind = Instr(f, i).operands[k].kind
        /\ Instr(g, i).operands[k] = Instr(f, i).operands[k]
           \/ (Instr(f, i).operands[k].kind = "BLOCK" /\ Instr(f, i).operands[k].id = 0)
    BY DEF Later
  <2>3. /\ Instr(h, i).operands[k].kind = Instr(g, i).operands[k].kind
        /\ Instr(h, i).operands[k] = Instr(g, i).operands[k]
           \/ (Instr(g, i).operands[k].kind = "BLOCK" /\ Instr(g, i).operands[k].id = 0)
    BY <1>1, <2>1 DEF Later
  <2> QED
    BY <2>2, <2>3
<1> QED
  BY <1>2, <1>3

\* Instructions that are only added to stay as they are.
LEMMA SameIsLater ==
    ASSUME NEW f, NEW g, InstrIDs(f) \subseteq InstrIDs(g),
           \A i \in InstrIDs(f) : Instr(g, i) = Instr(f, i)
    PROVE  Later(f, g)
BY DEF Later

\* Patching a target that was 0.
LEMMA RetargetIsLater ==
    ASSUME NEW f, NEW g, NEW id, NEW k, NEW target, Retargeted(f, g, id, k, target),
           Instr(f, id).operands[k + 1].kind = "BLOCK",
           Instr(f, id).operands[k + 1].id = 0
    PROVE  Later(f, g)
BY DEF Later, Retargeted

\* A branch stays the branch it is, and stays behind the one it is behind.
LEMMA LaterKeeps ==
    ASSUME NEW f \in FunctionType, NEW g, Later(f, g), NEW i \in InstrIDs(f)
    PROVE  /\ IsConditionalBranch(Instr(g, i)) <=> IsConditionalBranch(Instr(f, i))
           /\ Follows(g, i) <=> Follows(f, i)
<1>1. \A j \in InstrIDs(f) :
        IsConditionalBranch(Instr(g, j)) <=> IsConditionalBranch(Instr(f, j))
  BY DEF Later, IsConditionalBranch
<1>2. i > 0 => i - 1 \in InstrIDs(f)
  BY FunctionFields DEF InstrIDs, LastInstr
<1> QED
  BY <1>1, <1>2 DEF Follows

\* The only target a jump can leave open is its first, and that of a
\* conditional branch its second.
LEMMA OpenTargets ==
    ASSUME NEW f \in FunctionType, NEW i \in InstrIDs(f),
           WellFormed(Instr(f, i)), Instr(f, i).opcode = "BR"
    PROVE  /\ Len(Instr(f, i).operands) = 1 =>
                /\ 1 \in DOMAIN Instr(f, i).operands
                /\ Instr(f, i).operands[1].kind = "BLOCK"
                /\ Unpatched(f, i) <=> Instr(f, i).operands[1].id = 0
           /\ Len(Instr(f, i).operands) = 3 /\ Instr(f, i).operands[2].id # 0 =>
                /\ 3 \in DOMAIN Instr(f, i).operands
                /\ Instr(f, i).operands[3].kind = "BLOCK"
                /\ Unpatched(f, i) <=> Instr(f, i).operands[3].id = 0
<1>1. DOMAIN Instr(f, i).operands = 1 .. Len(Instr(f, i).operands)
  BY InstrFields
<1>2. CASE Len(Instr(f, i).operands) = 1
  <2>1. DOMAIN Instr(f, i).operands = {1} /\ Instr(f, i).operands[1].kind = "BLOCK"
    BY <1>1, <1>2 DEF WellFormed
  <2> QED
    BY <1>2, <2>1 DEF Unpatched
<1>3. CASE Len(Instr(f, i).operands) = 3
  <2>1. /\ DOMAIN Instr(f, i).operands = {1, 2, 3}
        /\ Instr(f, i).operands[1].kind = "INSTR"
        /\ Instr(f, i).operands[3].kind = "BLOCK"
    BY <1>1, <1>3 DEF WellFormed
  <2> QED
    BY <1>3, <2>1 DEF Unpatched
<1> QED
  BY <1>2, <1>3

\* The two branches pushed for an if statement.
LEMMA SuspendedBranch ==
    ASSUME NEW f, Well(f) \/ Shaped(f), NEW c \in InstrIDs(f), IsConditionalBranch(Instr(f, c))
    PROVE  /\ c \in Nat /\ c + 1 \in InstrIDs(f) /\ Follows(f, c + 1)
           /\ Instr(f, c).opcode = "BR" /\ Len(Instr(f, c).operands) = 3
           /\ Instr(f, c).operands[2].id # 0
           /\ 3 \in DOMAIN Instr(f, c).operands
           /\ Instr(f, c).operands[3].kind = "BLOCK"
           /\ Unpatched(f, c) <=> Instr(f, c).operands[3].id = 0
           /\ Instr(f, c + 1).opcode = "BR" /\ Len(Instr(f, c + 1).operands) = 1
           /\ 1 \in DOMAIN Instr(f, c + 1).operands
           /\ Instr(f, c + 1).operands[1].kind = "BLOCK"
           /\ Unpatched(f, c + 1) <=> Instr(f, c + 1).operands[1].id = 0
<1>1. /\ f \in FunctionType /\ f.blocks # <<>> /\ Complete(f) /\ IfOK(f, c)
      /\ \A i \in InstrIDs(f) : WellFormed(Instr(f, i))
  BY DEF Well, Shaped, ShapeOK, IfsOK, Core, AllWellFormed
<1>2. c + 1 \in InstrIDs(f) /\ Follows(f, c + 1) /\ c \in Nat
  BY <1>1, JumpBehind, LastBlockIn
<1>3. /\ Instr(f, c).opcode = "BR" /\ Len(Instr(f, c).operands) = 3
      /\ Instr(f, c).operands[2].id # 0
      /\ Instr(f, c + 1).opcode = "BR" /\ Len(Instr(f, c + 1).operands) = 1
  BY <1>1 DEF IsConditionalBranch, IfOK
<1>4. /\ 3 \in DOMAIN Instr(f, c).operands
      /\ Instr(f, c).operands[3].kind = "BLOCK"
      /\ Unpatched(f, c) <=> Instr(f, c).operands[3].id = 0
  BY <1>1, <1>3, OpenTargets
<1>5. /\ 1 \in DOMAIN Instr(f, c + 1).operands
      /\ Instr(f, c + 1).operands[1].kind = "BLOCK"
      /\ Unpatched(f, c + 1) <=> Instr(f, c + 1).operands[1].id = 0
  BY <1>1, <1>2, <1>3, OpenTargets
<1> QED
  BY <1>2, <1>3, <1>4, <1>5

-----------------------------------------------------------------------------
(* What the parts of visit(IfStatement) do to a function *)

\* The roles of the blocks.
LEMMA Roles ==
    "if_true" \in LabelRole /\ "if_false" \in LabelRole /\ "if_end" \in LabelRole
BY DEF LabelRole

\* A jump to block 0, as it is emitted.
LEMMA JumpEndFields ==
    /\ JumpEnd \in LLVMInstruction /\ WellFormed(JumpEnd)
    /\ JumpEnd.opcode = "BR" /\ Len(JumpEnd.operands) = 1
    /\ ~IsConditionalBranch(JumpEnd)
    /\ DOMAIN JumpEnd.operands = {1}
    /\ JumpEnd.operands[1].kind = "BLOCK" /\ JumpEnd.operands[1].id = 0
<1>1. /\ Value("BLOCK", 0) \in LLVMValueID
      /\ Value("BLOCK", 0).kind = "BLOCK" /\ Value("BLOCK", 0).id = 0
  BY DEF LLVMValueID, LLVMValueKind, Value
<1>2. <<Value("BLOCK", 0)>> \in Seq(LLVMValueID)
  BY <1>1
<1>3. "BR" \in LLVMOpcode /\ "void" \in LLVMType
  BY DEF LLVMOpcode, LLVMType
<1>4. /\ JumpEnd \in LLVMInstruction
      /\ JumpEnd.operands = <<Value("BLOCK", 0)>>
  BY <1>2, <1>3, InstructionType DEF JumpEnd
<1>5. JumpEnd.opcode = "BR"
  BY DEF JumpEnd, Instruction
<1>6. /\ DOMAIN JumpEnd.operands = {1} /\ Len(JumpEnd.operands) = 1
      /\ JumpEnd.operands[1] = Value("BLOCK", 0)
  BY <1>4
<1> HIDE DEF JumpEnd
<1>7. WellFormed(JumpEnd) /\ ~IsConditionalBranch(JumpEnd)
  BY <1>1, <1>5, <1>6 DEF WellFormed, LLVM!Operation, IsConditionalBranch
<1> QED
  BY <1>1, <1>4, <1>5, <1>6, <1>7

\* The jump that ends the first branch, which only its own visit will patch.
LEMMA EmitJumpWell ==
    ASSUME NEW f, Well(f), NEW g, g = EmitInstr(f, JumpEnd)
    PROVE  /\ Well(g) /\ Later(f, g)
           /\ InstrIDs(g) = InstrIDs(f) \cup {Len(f.instructions)}
           /\ Len(f.instructions) \in Nat /\ Len(f.instructions) \notin InstrIDs(f)
           /\ \A i \in InstrIDs(f) : Instr(g, i) = Instr(f, i)
           /\ Instr(g, Len(f.instructions)) = JumpEnd
           /\ ~Follows(g, Len(f.instructions))
           /\ Unpatched(g, Len(f.instructions))
<1> DEFINE n == Len(f.instructions)
<1>1. f \in FunctionType /\ f.blocks # <<>> /\ Complete(f)
  BY DEF Well, ShapeOK
<1>2. /\ InstrIDs(g) = InstrIDs(f) \cup {n}
      /\ \A i \in InstrIDs(f) : Instr(g, i) = Instr(f, i)
      /\ Instr(g, n) = JumpEnd
  BY <1>1, JumpEndFields, EmitFacts
<1>3. n \in Nat /\ n \notin InstrIDs(f)
  BY <1>1, LastBlockIn
<1>4. Well(g)
  BY JumpEndFields, EmitShapeOK
<1>5. ~Follows(g, n)
  <2>1. n > 0 => n - 1 \in InstrIDs(f)
    BY <1>3 DEF InstrIDs, LastInstr
  <2> QED
    BY <1>1, <1>2, <2>1 DEF Complete, Follows
<1>6. Unpatched(g, n)
  BY <1>2, JumpEndFields DEF Unpatched
<1> QED
  BY <1>2, <1>3, <1>4, <1>5, <1>6, SameIsLater

\* The conditional branch names the block that is created next, its second
\* target and its jump are left open.
LEMMA StartIfWell ==
    ASSUME NEW f, Well(f), NEW g, g = StartIf(f)
    PROVE  LET n == Len(f.instructions)
           IN /\ Well(g) /\ Later(f, g)
              /\ n \in Nat /\ n \notin InstrIDs(f) /\ n + 1 \notin InstrIDs(f)
              /\ InstrIDs(g) = InstrIDs(f) \cup {n, n + 1}
              /\ \A i \in InstrIDs(f) : Instr(g, i) = Instr(f, i)
              /\ IsConditionalBranch(Instr(g, n))
              /\ Unpatched(g, n) /\ Unpatched(g, n + 1)
<1> DEFINE n == Len(f.instructions)
           u == Value("INSTR", LastInstr(f))
           v == Value("BLOCK", Len(f.blocks))
           w == Value("BLOCK", 0)
           operands == <<u, v, w>>
           branch == Instruction("BR", "void", operands)
           h1 == EmitInstr(f, branch)
           h2 == AddInstr(h1, JumpEnd)
<1>0. g = CreateBlock(h2, "if_true", n)
  BY DEF StartIf
<1>1. /\ f \in FunctionType /\ f.blocks # <<>>
      /\ Core(f) /\ Complete(f) /\ IfsOK(f) /\ JoinsPatched(f)
      /\ n \in Nat /\ n \notin InstrIDs(f)
      /\ \A i \in InstrIDs(f) : i \in Nat /\ i < n
      /\ Len(f.blocks) \in Nat /\ Len(f.blocks) > 0
      /\ LastBlock(f) < Len(f.blocks)
  BY LastBlockIn, FunctionFields DEF Well, ShapeOK, LastBlock
<1>2. /\ u \in LLVMValueID /\ v \in LLVMValueID /\ w \in LLVMValueID
      /\ u.kind = "INSTR" /\ v.kind = "BLOCK" /\ w.kind = "BLOCK"
      /\ v.id = Len(f.blocks) /\ w.id = 0
  BY <1>1 DEF LLVMValueID, LLVMValueKind, Value, NPos, LastInstr
<1> HIDE DEF u, v, w
<1>3. /\ operands \in Seq(LLVMValueID) /\ Len(operands) = 3
      /\ DOMAIN operands = {1, 2, 3}
      /\ operands[1] = u /\ operands[2] = v /\ operands[3] = w
  BY <1>2
<1> HIDE DEF operands
<1>4. branch \in LLVMInstruction /\ branch.operands = operands
  <2>1. "BR" \in LLVMOpcode /\ "void" \in LLVMType
    BY DEF LLVMOpcode, LLVMType
  <2> QED
    BY <1>3, <2>1, InstructionType
<1>5. branch.opcode = "BR"
  BY DEF Instruction
<1> HIDE DEF branch
<1>6. /\ DOMAIN branch.operands = {1, 2, 3} /\ Len(branch.operands) = 3
      /\ branch.operands[1] = u /\ branch.operands[2] = v /\ branch.operands[3] = w
  BY <1>3, <1>4
<1>7. WellFormed(branch) /\ IsConditionalBranch(branch)
  BY <1>2, <1>5, <1>6 DEF WellFormed, LLVM!Operation, IsConditionalBranch
<1> HIDE DEF h1
<1>8. /\ h1 \in FunctionType /\ h1.blocks # <<>> /\ Len(h1.instructions) = n + 1
      /\ InstrIDs(h1) = InstrIDs(f) \cup {n}
      /\ \A i \in InstrIDs(f) : Instr(h1, i) = Instr(f, i)
      /\ Instr(h1, n) = branch
      /\ BlockIDs(h1) = BlockIDs(f) /\ LastBlock(h1) = LastBlock(f)
      /\ \A b \in BlockIDs(f) : Block(h1, b).label = Block(f, b).label
  BY <1>1, <1>4, EmitFacts DEF h1
<1>9. Core(h1)
  <2>1. \A k \in DOMAIN branch.operands :
          branch.operands[k].kind = "BLOCK" /\ branch.operands[k].id # 0 =>
              LastBlock(f) < branch.operands[k].id
    BY <1>1, <1>2, <1>6
  <2> QED
    BY <1>1, <1>4, <1>7, <2>1, EmitCore DEF h1
<1>10. Follows(h1, Len(h1.instructions))
  BY <1>1, <1>7, <1>8 DEF Follows
<1> HIDE DEF h2
<1>11. /\ h2 \in FunctionType /\ h2.blocks = h1.blocks
       /\ h2.instructions = Append(h1.instructions, JumpEnd)
  BY <1>8, JumpEndFields, AddInstrShape DEF h2
<1>12. Core(h2)
  BY <1>8, <1>9, <1>10, JumpEndFields, AddCore DEF h2
<1>13. /\ InstrIDs(h2) = InstrIDs(f) \cup {n, n + 1}
       /\ Len(h2.instructions) = n + 2
       /\ \A i \in InstrIDs(f) : Instr(h2, i) = Instr(f, i)
       /\ Instr(h2, n) = branch /\ Instr(h2, n + 1) = JumpEnd
  <2>1. /\ InstrIDs(h2) = InstrIDs(h1) \cup {n + 1}
        /\ Len(h2.instructions) = (n + 1) + 1
        /\ \A i \in InstrIDs(h1) : Instr(h2, i) = Instr(h1, i)
        /\ Instr(h2, n + 1) = JumpEnd
    <3>1. /\ h1 \in FunctionType /\ h2 \in FunctionType /\ Len(h1.instructions) = n + 1
          /\ Pushes(h1, h2, JumpEnd)
      BY <1>8, <1>11 DEF Pushes
    <3>2. /\ InstrIDs(h2) = InstrIDs(h1) \cup {Len(h1.instructions)}
          /\ Len(h2.instructions) = Len(h1.instructions) + 1
          /\ \A i \in InstrIDs(h1) : Instr(h2, i) = Instr(h1, i)
          /\ Instr(h2, Len(h1.instructions)) = JumpEnd
      BY <3>1, OneMore
    <3> QED
      BY <3>1, <3>2, Zenon
  <2> QED
    BY <1>1, <1>8, <2>1
<1>14. /\ BlockIDs(h2) = BlockIDs(f) /\ LastBlock(h2) = LastBlock(f)
       /\ Len(h2.blocks) = Len(f.blocks)
       /\ \A b \in BlockIDs(f) : Block(h2, b).label = Block(f, b).label
  <2>1. Len(h1.blocks) = Len(f.blocks)
    BY <1>1, <1>8, FunctionFields DEF LastBlock
  <2> QED
    BY <1>8, <1>11, <2>1 DEF BlockIDs, LastBlock, Block
<1>15. /\ g \in FunctionType /\ g.blocks # <<>> /\ Core(g)
       /\ g.instructions = h2.instructions
       /\ InstrIDs(g) = InstrIDs(h2)
       /\ \A i : Instr(g, i) = Instr(h2, i) /\ (Follows(g, i) <=> Follows(h2, i))
  <2> DEFINE role == "if_true"
  <2>1. g = CreateBlock(h2, role, n) /\ role \in LabelRole /\ role # "entry"
    BY <1>0, Roles
  <2>2. h2 \in FunctionType /\ n \in Nat /\ n \in InstrIDs(h2)
    BY <1>1, <1>11, <1>13
  <2>3. \A b \in BlockIDs(h2) : Block(h2, b).label # LabelFor(role, n)
    <3>1. LabelFor(role, n).role = role /\ LabelFor(role, n).id = n
      BY DEF LabelFor
    <3> QED
      BY <1>1, <1>14, <2>1, <3>1 DEF Core, OwnLabels
  <2> HIDE DEF role, n
  <2> QED
    BY <1>12, <2>1, <2>2, <2>3, CreateCore
<1>16. /\ BlockIDs(g) = BlockIDs(f) \cup {Len(f.blocks)}
       /\ \A b \in BlockIDs(f) : Block(g, b).label = Block(f, b).label
       /\ Block(g, Len(f.blocks)).label = LabelFor("if_true", n)
  <2>1. /\ LastBlock(g) = Len(h2.blocks)
        /\ BlockIDs(g) = BlockIDs(h2) \cup {LastBlock(g)}
        /\ \A b \in BlockIDs(h2) : Block(g, b) = Block(h2, b)
        /\ Block(g, LastBlock(g)).label = LabelFor("if_true", n)
    <3> DEFINE role == "if_true"
    <3>1. g = CreateBlock(h2, role, n) /\ role \in LabelRole
      BY <1>0, Roles
    <3>2. LabelFor("if_true", n) = LabelFor(role, n)
      OBVIOUS
    <3> HIDE DEF role
    <3>3. h2 \in FunctionType /\ n \in Nat
      BY <1>1, <1>11
    <3> HIDE DEF n
    <3> QED
      BY <3>1, <3>2, <3>3, CreateLists
  <2> QED
    BY <1>14, <2>1
<1>18. Complete(g)
  <2>1. (n + 2) - 1 = n + 1
    BY <1>1
  <2> QED
    BY <1>13, <1>15, <2>1, JumpEndFields DEF Complete, Follows
<1>19. ASSUME NEW i \in InstrIDs(f), IsConditionalBranch(Instr(f, i)) PROVE IfOK(g, i)
  <2>1. IfOK(f, i) /\ i + 1 \in InstrIDs(f)
    BY <1>1, <1>19, JumpBehind DEF IfsOK
  <2>2. Instr(g, i) = Instr(f, i) /\ Instr(g, i + 1) = Instr(f, i + 1)
    BY <1>13, <1>15, <2>1
  <2>3. LabelFor("if_true", n) # LabelFor("if_false", i)
    BY DEF LabelFor
  <2>4. HasElse(g, i) <=> HasElse(f, i)
    BY <1>16, <2>3 DEF HasElse, Labelled
  <2> QED
    BY <1>16, <2>1, <2>2, <2>4, IfKept
<1>20. IfOK(g, n)
  <2>1. /\ Instr(g, n).operands[2].id = Len(f.blocks)
        /\ Instr(g, n).operands[3].id = 0
        /\ Instr(g, n + 1) = JumpEnd
    BY <1>2, <1>6, <1>13, <1>15
  <2>2. Labelled(g, Len(f.blocks), "if_true", n)
    BY <1>16 DEF Labelled
  <2>3. ~HasElse(g, n)
    <3>1. \A b \in BlockIDs(f) : Block(f, b).label # LabelFor("if_false", n)
      <4>1. LabelFor("if_false", n).role = "if_false" /\ LabelFor("if_false", n).id = n
        BY DEF LabelFor
      <4> QED
        BY <1>1, <4>1 DEF Core, OwnLabels
    <3>2. LabelFor("if_true", n) # LabelFor("if_false", n)
      BY DEF LabelFor
    <3> QED
      BY <1>16, <3>1, <3>2 DEF HasElse, Labelled
  <2> QED
    BY <1>1, <2>1, <2>2, <2>3, JumpEndFields DEF IfOK
<1>21. ASSUME NEW i \in InstrIDs(g), IsConditionalBranch(Instr(g, i)) PROVE IfOK(g, i)
  BY <1>13, <1>15, <1>19, <1>20, <1>21, JumpEndFields
<1>22. Well(g)
  <2>1. LabelFor("if_true", n).role # "if_end"
    BY DEF LabelFor
  <2>2. \A i \in InstrIDs(f) : Instr(g, i) = Instr(f, i) /\ i \in InstrIDs(g)
    BY <1>13, <1>15
  <2>3. ASSUME NEW b \in BlockIDs(g), Block(g, b).label.role = "if_end"
        PROVE  /\ Block(g, b).label.id + 1 \in InstrIDs(g)
               /\ ~Unpatched(g, Block(g, b).label.id + 1)
    <3>1. b \in BlockIDs(f) /\ Block(g, b).label = Block(f, b).label
      BY <1>16, <2>1, <2>3
    <3> DEFINE i == Block(f, b).label.id + 1
    <3>2. i \in InstrIDs(f) /\ ~Unpatched(f, i)
      BY <1>1, <2>3, <3>1 DEF JoinsPatched
    <3> HIDE DEF i
    <3>3. i \in InstrIDs(g) /\ ~Unpatched(g, i)
      BY <2>2, <3>2 DEF Unpatched
    <3> QED
      BY <3>1, <3>3 DEF i
  <2>4. JoinsPatched(g)
    BY <2>3 DEF JoinsPatched
  <2> QED
    BY <1>15, <1>18, <1>21, <2>4 DEF Well, ShapeOK, IfsOK
<1>23. Unpatched(g, n) /\ Unpatched(g, n + 1)
  BY <1>2, <1>6, <1>13, <1>15, JumpEndFields DEF Unpatched
<1>24. n + 1 \notin InstrIDs(f)
  BY <1>1
<1>25. /\ InstrIDs(g) = InstrIDs(f) \cup {n, n + 1}
       /\ \A i \in InstrIDs(f) : Instr(g, i) = Instr(f, i)
       /\ IsConditionalBranch(Instr(g, n))
  BY <1>7, <1>13, <1>15
<1> QED
  BY <1>1, <1>22, <1>23, <1>24, <1>25, SameIsLater

\* Patching a branch, if it leaves the if statement it belongs to in order.
LEMMA PatchWell ==
    ASSUME NEW f, Shaped(f), NEW id \in InstrIDs(f), NEW target \in Nat, NEW k \in Nat,
           k + 1 \in DOMAIN Instr(f, id).operands,
           Instr(f, id).operands[k + 1].kind = "BLOCK",
           Instr(f, id).operands[k + 1].id = 0,
           \A b \in BlockIDs(f) : Lists(f, b, id) => b < target,
           NEW g, g = PatchOperand(f, id, k, target),
           \A i \in InstrIDs(f) : IsConditionalBranch(Instr(f, i)) /\ (i = id \/ i + 1 = id) =>
               IfOK(g, i)
    PROVE  Shaped(g) /\ Later(f, g) /\ Retargeted(f, g, id, k, target)
<1>1. /\ f \in FunctionType /\ f.blocks # <<>>
      /\ Core(f) /\ Complete(f) /\ IfsOK(f)
  BY DEF Shaped
<1>2. Retargeted(f, g, id, k, target)
  BY <1>1, PatchRetargets
<1>3. Core(g) /\ Complete(g)
  BY <1>1, <1>2, RetargetCore
<1>4. \A i \in InstrIDs(f) :
        IsConditionalBranch(Instr(g, i)) <=> IsConditionalBranch(Instr(f, i))
  BY <1>1, <1>2, RetargetCore
<1>5. InstrIDs(g) = InstrIDs(f) /\ g \in FunctionType /\ g.blocks # <<>>
  BY <1>1, <1>2 DEF Retargeted
<1>6. ASSUME NEW i \in InstrIDs(f), IsConditionalBranch(Instr(f, i)) PROVE IfOK(g, i)
  <2>1. IfOK(f, i) /\ i + 1 \in InstrIDs(f)
    BY <1>1, <1>6, JumpBehind DEF IfsOK
  <2>2. CASE i # id /\ i + 1 # id
    BY <1>1, <1>2, <2>1, <2>2, RetargetIfOK
  <2> QED
    BY <1>6, <2>2
<1>7. Shaped(g)
  BY <1>3, <1>4, <1>5, <1>6 DEF Shaped, IfsOK
<1> QED
  BY <1>2, <1>7, RetargetIsLater

\* The else branch gets its block, and the conditional branch its target.
LEMMA StartElseWell ==
    ASSUME NEW f, Well(f), NEW c \in InstrIDs(f), IsConditionalBranch(Instr(f, c)),
           Unpatched(f, c), NEW g, g = StartElse(f, c)
    PROVE  /\ Well(g) /\ Later(f, g) /\ InstrIDs(g) = InstrIDs(f)
           /\ \A i \in InstrIDs(f) : i # c => Instr(g, i).operands = Instr(f, i).operands
           /\ ~Unpatched(g, c)
<1> DEFINE h == CreateBlock(f, "if_false", c)
           t == LastBlock(h)
<1>0. g = PatchOperand(h, c, 2, t)
  BY DEF StartElse
<1>1. /\ f \in FunctionType /\ Core(f) /\ Complete(f) /\ IfsOK(f) /\ JoinsPatched(f)
  BY DEF Well, ShapeOK
<1>2. /\ c \in Nat /\ c + 1 \in InstrIDs(f)
      /\ Instr(f, c).opcode = "BR" /\ Len(Instr(f, c).operands) = 3
      /\ Instr(f, c).operands[2].id # 0
      /\ 3 \in DOMAIN Instr(f, c).operands
      /\ Instr(f, c).operands[3].kind = "BLOCK" /\ Instr(f, c).operands[3].id = 0
  BY SuspendedBranch
<1> HIDE DEF h
<1>3. /\ h \in FunctionType /\ h.blocks # <<>> /\ Core(h)
      /\ h.instructions = f.instructions
      /\ InstrIDs(h) = InstrIDs(f)
      /\ \A i : Instr(h, i) = Instr(f, i) /\ (Follows(h, i) <=> Follows(f, i))
  <2>1. \A b \in BlockIDs(f) : Block(f, b).label # LabelFor("if_false", c)
    BY <1>1, <1>2 DEF IfsOK, IfOK, HasElse, Labelled
  <2> QED
    BY <1>1, <1>2, <2>1, Roles, CreateCore DEF h
<1>4. /\ t = Len(f.blocks)
      /\ BlockIDs(h) = BlockIDs(f) \cup {t} /\ t \in Nat
      /\ \A b \in BlockIDs(f) : Block(h, b) = Block(f, b) /\ b < t
      /\ Block(h, t).label = LabelFor("if_false", c)
  <2>1. /\ LastBlock(h) = Len(f.blocks)
        /\ BlockIDs(h) = BlockIDs(f) \cup {LastBlock(h)} /\ LastBlock(h) \in Nat
        /\ \A b \in BlockIDs(f) : Block(h, b) = Block(f, b)
        /\ Block(h, LastBlock(h)).label = LabelFor("if_false", c)
    <3> DEFINE role == "if_false"
    <3>1. h = CreateBlock(f, role, c) /\ role \in LabelRole
      BY Roles DEF h
    <3>2. LabelFor("if_false", c) = LabelFor(role, c)
      OBVIOUS
    <3> HIDE DEF role
    <3>3. f \in FunctionType /\ c \in Nat
      BY <1>1, <1>2
    <3> QED
      BY <3>1, <3>2, <3>3, CreateLists
  <2>2. \A b \in BlockIDs(f) : b < Len(f.blocks)
    BY <1>1, FunctionFields DEF BlockIDs, LastBlock
  <2> QED
    BY <2>1, <2>2
<1>5. \A i : ~Lists(h, t, i)
  BY <1>1, <1>2, Roles, CreateMembers DEF h
<1>6. t # 0
  BY <1>1, <1>4, FunctionFields DEF Well
<1> HIDE DEF t
<1>7. Retargeted(h, g, c, 2, t)
  BY <1>0, <1>2, <1>3, <1>4, PatchRetargets
<1>8. \A b \in BlockIDs(h) : Lists(h, b, c) => b < t
  BY <1>4, <1>5
<1>9. /\ Core(g)
      /\ \A i \in InstrIDs(h) :
           IsConditionalBranch(Instr(g, i)) <=> IsConditionalBranch(Instr(h, i))
      /\ Complete(h) => Complete(g)
  BY <1>2, <1>3, <1>7, <1>8, RetargetCore
<1>10. Complete(g)
  BY <1>1, <1>3, <1>9 DEF Complete
<1>11. \A b, r, i : Labelled(g, b, r, i) <=> Labelled(h, b, r, i)
  BY <1>7 DEF Labelled, Retargeted
<1>12. ASSUME NEW i \in InstrIDs(f), IsConditionalBranch(Instr(f, i)), i # c
       PROVE  IfOK(g, i)
  <2>1. IfOK(f, i) /\ i + 1 \in InstrIDs(f)
    BY <1>1, <1>12, JumpBehind DEF IfsOK
  <2>2. i + 1 # c
    BY <1>2, <2>1 DEF IfOK
  <2>3. IfOK(h, i)
    <3> DEFINE role == "if_false"
    <3>1. h = CreateBlock(f, role, c) /\ role \in LabelRole
      BY Roles DEF h
    <3>2. f \in FunctionType /\ c \in Nat /\ c # i
      BY <1>1, <1>2, <1>12
    <3> HIDE DEF role
    <3> QED
      BY <2>1, <3>1, <3>2, CreateIfOK
  <2> QED
    BY <1>3, <1>7, <1>12, <2>1, <2>2, <2>3, RetargetIfOK
<1>13. IfOK(g, c)
  <2>1. IfOK(f, c)
    BY <1>1 DEF IfsOK
  <2>2. /\ Instr(g, c + 1).operands = Instr(f, c + 1).operands
        /\ Instr(g, c + 1).opcode = Instr(f, c + 1).opcode
        /\ Instr(g, c).operands[3].id = t
    BY <1>2, <1>3, <1>7 DEF Retargeted
  <2>3. Instr(g, c).operands[2] = Instr(f, c).operands[2]
    <3>1. 2 \in DOMAIN Instr(f, c).operands
      BY <1>1, <1>2, InstrFields
    <3> QED
      BY <1>2, <1>3, <1>7, <3>1 DEF Retargeted
  <2>4. \A b, r : Labelled(f, b, r, c) => Labelled(g, b, r, c)
    BY <1>4, <1>11 DEF Labelled
  <2>5. Labelled(g, t, "if_false", c) /\ HasElse(g, c)
    <3>1. Labelled(g, t, "if_false", c)
      BY <1>4, <1>11 DEF Labelled
    <3> QED
      BY <3>1 DEF HasElse, Labelled
  <2> QED
    BY <1>6, <2>1, <2>2, <2>3, <2>4, <2>5 DEF IfOK
<1>14. InstrIDs(g) = InstrIDs(f) /\ g \in FunctionType /\ g.blocks # <<>>
  BY <1>3, <1>7 DEF Retargeted
<1>17. \A i \in InstrIDs(f) : i # c => Instr(g, i).operands = Instr(f, i).operands
  BY <1>3, <1>7 DEF Retargeted
<1>15. Well(g)
  <2>1. JoinsPatched(g)
    <3> SUFFICES ASSUME NEW b \in BlockIDs(g), Block(g, b).label.role = "if_end"
                 PROVE  /\ Block(g, b).label.id + 1 \in InstrIDs(g)
                        /\ ~Unpatched(g, Block(g, b).label.id + 1)
      BY DEF JoinsPatched
    <3>1. b \in BlockIDs(f) /\ Block(g, b) = Block(f, b)
      <4>1. LabelFor("if_false", c).role # "if_end"
        BY DEF LabelFor
      <4> QED
        BY <1>4, <1>7, <4>1 DEF Retargeted
    <3> DEFINE i == Block(f, b).label.id + 1
    <3>2. i \in InstrIDs(f) /\ ~Unpatched(f, i)
      BY <1>1, <3>1 DEF JoinsPatched
    <3>3. i # c
      <4>1. Unpatched(f, c)
        OBVIOUS
      <4> QED
        BY <3>2, <4>1
    <3> HIDE DEF i
    <3>4. ~Unpatched(g, i)
      BY <1>17, <3>2, <3>3 DEF Unpatched
    <3> QED
      BY <1>14, <3>1, <3>2, <3>4 DEF i
  <2> QED
    BY <1>3, <1>9, <1>10, <1>12, <1>13, <1>14, <2>1 DEF Well, ShapeOK, IfsOK
<1>16. Later(f, g)
  <2>1. Later(f, h)
    BY <1>3, SameIsLater
  <2>2. Later(h, g)
    BY <1>2, <1>3, <1>7, RetargetIsLater
  <2> QED
    BY <2>1, <2>2, LaterTransitive
<1>18. ~Unpatched(g, c)
  <2>1. IsConditionalBranch(Instr(g, c))
    BY <1>3, <1>9
  <2> QED
    BY <1>2, <1>3, <1>6, <1>7, <1>14, <1>15, <2>1, SuspendedBranch DEF Retargeted
<1> QED
  BY <1>14, <1>15, <1>16, <1>17, <1>18

\* The last block becomes the target of all branches left open by one if
\* statement, and of no others.
LEMMA EndIfWell ==
    ASSUME NEW f, Well(f), NEW c \in InstrIDs(f), IsConditionalBranch(Instr(f, c)),
           Unpatched(f, c + 1),
           NEW e \in InstrIDs(f), Instr(f, e).opcode = "BR", Len(Instr(f, e).operands) = 1,
           ~Follows(f, e), Unpatched(f, e),
           NEW g, g = EndIf(f, c, c + 1, e)
    PROVE  /\ Well(g) /\ Later(f, g) /\ InstrIDs(g) = InstrIDs(f)
           /\ \A i \in InstrIDs(f) : i \notin {c, c + 1, e} =>
                Instr(g, i).operands = Instr(f, i).operands
           /\ ~Unpatched(g, c) /\ ~Unpatched(g, c + 1) /\ ~Unpatched(g, e)
<1> DEFINE h == CreateBlock(f, "if_end", c)
           t == LastBlock(h)
           h1 == IF Instr(h, c).operands[3].id = 0 THEN PatchOperand(h, c, 2, t) ELSE h
           h2 == PatchOperand(h1, e, 0, t)
<1>0. g = PatchOperand(h2, c + 1, 0, t)
  BY DEF EndIf
<1>1. /\ f \in FunctionType /\ Core(f) /\ Complete(f) /\ IfsOK(f) /\ JoinsPatched(f)
  BY DEF Well, ShapeOK
<1>2. /\ c \in Nat /\ c + 1 \in InstrIDs(f) /\ Follows(f, c + 1)
      /\ Instr(f, c).opcode = "BR" /\ Len(Instr(f, c).operands) = 3
  BY SuspendedBranch
<1>3. c # c + 1 /\ e # c /\ e # c + 1
  BY <1>2
<1> HIDE DEF h
<1>4. /\ h \in FunctionType /\ h.blocks # <<>> /\ Core(h)
      /\ h.instructions = f.instructions
      /\ InstrIDs(h) = InstrIDs(f)
      /\ \A i : Instr(h, i) = Instr(f, i) /\ (Follows(h, i) <=> Follows(f, i))
  <2>1. \A b \in BlockIDs(f) : Block(f, b).label # LabelFor("if_end", c)
    <3>1. LabelFor("if_end", c).role = "if_end" /\ LabelFor("if_end", c).id = c
      BY DEF LabelFor
    <3> QED
      BY <1>1, <3>1 DEF JoinsPatched
  <2> QED
    BY <1>1, <1>2, <2>1, Roles, CreateCore DEF h
<1>5. /\ t = Len(f.blocks)
      /\ BlockIDs(h) = BlockIDs(f) \cup {t} /\ t \in Nat
      /\ \A b \in BlockIDs(f) : Block(h, b) = Block(f, b) /\ b < t
      /\ Block(h, t).label = LabelFor("if_end", c)
  <2>1. /\ LastBlock(h) = Len(f.blocks)
        /\ BlockIDs(h) = BlockIDs(f) \cup {LastBlock(h)} /\ LastBlock(h) \in Nat
        /\ \A b \in BlockIDs(f) : Block(h, b) = Block(f, b)
        /\ Block(h, LastBlock(h)).label = LabelFor("if_end", c)
    <3> DEFINE role == "if_end"
    <3>1. h = CreateBlock(f, role, c) /\ role \in LabelRole
      BY Roles DEF h
    <3>2. LabelFor("if_end", c) = LabelFor(role, c)
      OBVIOUS
    <3> HIDE DEF role
    <3>3. f \in FunctionType /\ c \in Nat
      BY <1>1, <1>2
    <3> QED
      BY <3>1, <3>2, <3>3, CreateLists
  <2>2. \A b \in BlockIDs(f) : b < Len(f.blocks)
    BY <1>1, FunctionFields DEF BlockIDs, LastBlock
  <2> QED
    BY <2>1, <2>2
<1>6. \A i : ~Lists(h, t, i)
  BY <1>1, <1>2, Roles, CreateMembers DEF h
<1>7. t # 0
  BY <1>1, <1>5, FunctionFields DEF Well
<1> HIDE DEF t
<1>8. Labelled(h, t, "if_end", c) /\ \A b \in BlockIDs(h) : \A i : Lists(h, b, i) => b < t
  BY <1>5, <1>6 DEF Labelled
<1>9. Shaped(h)
  <2>1. ASSUME NEW i \in InstrIDs(f), IsConditionalBranch(Instr(f, i)) PROVE IfOK(h, i)
    <3>1. IfOK(f, i)
      BY <1>1, <2>1 DEF IfsOK
    <3> QED
      BY <1>1, <1>2, <3>1, Roles, CreateIfOK DEF h
  <2> QED
    BY <1>1, <1>4, <2>1 DEF Shaped, IfsOK, Complete
<1> HIDE DEF h1
<1>10. /\ Shaped(h1) /\ Later(h, h1) /\ InstrIDs(h1) = InstrIDs(h) /\ BlockIDs(h1) = BlockIDs(h)
       /\ \A b, i : Lists(h1, b, i) <=> Lists(h, b, i)
       /\ \A b : Block(h1, b) = Block(h, b)
       /\ \A i \in InstrIDs(h) : i # c => Instr(h1, i).operands = Instr(h, i).operands
       /\ ~Unpatched(h1, c)
  <2>1. /\ 3 \in DOMAIN Instr(h, c).operands /\ 2 \in DOMAIN Instr(h, c).operands
        /\ Instr(h, c).operands[3].kind = "BLOCK"
        /\ Unpatched(h, c) <=> Instr(h, c).operands[3].id = 0
        /\ c + 1 \in InstrIDs(h)
    BY <1>2, <1>4, <1>9, SuspendedBranch, InstrFields
  <2>2. CASE Instr(h, c).operands[3].id # 0
    <3>1. h1 = h
      BY <2>2 DEF h1
    <3> QED
      BY <1>9, <2>1, <2>2, <3>1, SameIsLater
  <2>3. CASE Instr(h, c).operands[3].id = 0
    <3>1. h1 = PatchOperand(h, c, 2, t)
      BY <2>3 DEF h1
    <3>2. Retargeted(h, h1, c, 2, t)
      BY <1>2, <1>4, <1>5, <2>1, <3>1, PatchRetargets
    <3>3. ASSUME NEW i \in InstrIDs(h), IsConditionalBranch(Instr(h, i)), i = c \/ i + 1 = c
          PROVE  IfOK(h1, i)
      <4>1. IfOK(h, i)
        BY <1>9, <3>3 DEF Shaped, IfsOK
      <4>2. i = c
        <5>1. Len(Instr(h, i + 1).operands) = 1
          BY <4>1 DEF IfOK
        <5>2. Len(Instr(h, c).operands) = 3
          BY <1>2, <1>4
        <5> QED
          BY <3>3, <5>1, <5>2
      <4>3. ~HasElse(h, c)
        BY <2>3, <4>1, <4>2 DEF IfOK
      <4>4. /\ Instr(h1, c + 1).operands = Instr(h, c + 1).operands
            /\ Instr(h1, c + 1).opcode = Instr(h, c + 1).opcode
            /\ Instr(h1, c).operands[3].id = t
            /\ Instr(h1, c).operands[2] = Instr(h, c).operands[2]
        BY <1>2, <1>3, <1>4, <2>1, <3>2 DEF Retargeted
      <4>5. \A b, r : Labelled(h1, b, r, c) <=> Labelled(h, b, r, c)
        BY <3>2 DEF Labelled, Retargeted
      <4>6. ~HasElse(h1, c)
        BY <3>2, <4>3, <4>5 DEF HasElse, Retargeted
      <4> QED
        BY <1>8, <4>1, <4>2, <4>4, <4>5, <4>6 DEF IfOK
    <3>4. Shaped(h1) /\ Later(h, h1)
      <4>1. /\ c \in InstrIDs(h) /\ t \in Nat /\ 2 \in Nat
            /\ 2 + 1 \in DOMAIN Instr(h, c).operands
            /\ Instr(h, c).operands[2 + 1].kind = "BLOCK"
            /\ Instr(h, c).operands[2 + 1].id = 0
            /\ \A b \in BlockIDs(h) : Lists(h, b, c) => b < t
        BY <1>4, <1>5, <1>8, <2>1, <2>3
      <4> QED
        BY <1>9, <3>1, <3>3, <4>1, PatchWell
    <3>5. ~Unpatched(h1, c)
      <4>1. c \in InstrIDs(h1) /\ IsConditionalBranch(Instr(h1, c))
        BY <1>4, <3>4, LaterKeeps DEF Later
      <4>2. Instr(h1, c).operands[3].id = t
        BY <3>2 DEF Retargeted
      <4> QED
        BY <1>7, <3>4, <4>1, <4>2, SuspendedBranch
    <3> QED
      BY <3>2, <3>4, <3>5 DEF Retargeted
  <2> QED
    BY <2>2, <2>3
<1>11. h1 \in FunctionType
  BY <1>10 DEF Shaped
<1> HIDE DEF h2
<1>12. /\ Shaped(h2) /\ Later(h1, h2) /\ Retargeted(h1, h2, e, 0, t)
  <2>1. /\ e \in InstrIDs(h1) /\ Instr(h1, e).opcode = "BR"
        /\ Len(Instr(h1, e).operands) = 1
        /\ Unpatched(h1, e) /\ ~Follows(h1, e)
    <3>1. e \in InstrIDs(h) /\ ~Follows(h, e)
      BY <1>4
    <3>2. Instr(h1, e).operands = Instr(f, e).operands /\ Instr(h1, e).opcode = "BR"
      BY <1>3, <1>4, <1>10, <3>1 DEF Later
    <3>3. ~Follows(h1, e)
      BY <1>4, <1>10, <3>1, LaterKeeps
    <3> QED
      BY <1>10, <3>1, <3>2, <3>3 DEF Unpatched
  <2>2. WellFormed(Instr(h1, e))
    BY <1>10, <2>1 DEF Shaped, Core, AllWellFormed
  <2>3. /\ 0 + 1 \in DOMAIN Instr(h1, e).operands
        /\ Instr(h1, e).operands[0 + 1].kind = "BLOCK"
        /\ Instr(h1, e).operands[0 + 1].id = 0
    BY <1>11, <2>1, <2>2, OpenTargets
  <2>4. ASSUME NEW i \in InstrIDs(h1), IsConditionalBranch(Instr(h1, i)), i = e \/ i + 1 = e
        PROVE  FALSE
    <3>1. i # e
      BY <2>1, <2>4 DEF IsConditionalBranch
    <3>2. Follows(h1, i + 1)
      BY <1>10, <1>11, <2>4, JumpBehind DEF Shaped
    <3> QED
      BY <2>1, <2>4, <3>1, <3>2
  <2>5. \A b \in BlockIDs(h1) : Lists(h1, b, e) => b < t
    BY <1>8, <1>10
  <2> QED
    BY <1>5, <1>10, <2>1, <2>3, <2>4, <2>5, PatchWell DEF h2
<1>13. h2 \in FunctionType /\ InstrIDs(h2) = InstrIDs(f) /\ BlockIDs(h2) = BlockIDs(h)
  BY <1>4, <1>10, <1>12 DEF Retargeted
<1>14. IsConditionalBranch(Instr(h2, c)) /\ c \in InstrIDs(h2)
  <2>1. IsConditionalBranch(Instr(h1, c)) /\ c \in InstrIDs(h1)
    BY <1>4, <1>10, LaterKeeps
  <2> QED
    BY <1>11, <1>12, <1>13, <2>1, LaterKeeps
<1>15. Instr(h2, c + 1).operands = Instr(f, c + 1).operands
  BY <1>2, <1>3, <1>4, <1>10, <1>12 DEF Retargeted
<1>16. /\ 0 + 1 \in DOMAIN Instr(h2, c + 1).operands
       /\ Instr(h2, c + 1).operands[0 + 1].kind = "BLOCK"
       /\ Instr(h2, c + 1).operands[0 + 1].id = 0
       /\ c + 1 \in InstrIDs(h2)
  <2>1. Unpatched(h2, c + 1)
    BY <1>15 DEF Unpatched
  <2> QED
    BY <1>12, <1>14, <2>1, SuspendedBranch
<1>17. Retargeted(h2, g, c + 1, 0, t)
  BY <1>0, <1>5, <1>13, <1>16, PatchRetargets
<1>18. Labelled(g, t, "if_end", c)
  BY <1>8, <1>10, <1>12, <1>17 DEF Labelled, Retargeted
<1>19. ASSUME NEW i \in InstrIDs(h2), IsConditionalBranch(Instr(h2, i)),
              i = c + 1 \/ i + 1 = c + 1
       PROVE  IfOK(g, i)
  <2>1. IfOK(h2, i) /\ IfOK(h2, c)
    BY <1>12, <1>14, <1>19 DEF Shaped, IfsOK
  <2>2. i = c
    <3>1. i # c + 1
      BY <1>14, <1>19, <2>1 DEF IfOK, IsConditionalBranch
    <3>2. i \in Nat
      BY <1>12, <1>13, LastBlockIn DEF Shaped
    <3> QED
      BY <1>2, <1>19, <3>1, <3>2
  <2>3. /\ Instr(g, c).operands = Instr(h2, c).operands
        /\ Instr(g, c + 1).opcode = Instr(h2, c + 1).opcode
        /\ Len(Instr(g, c + 1).operands) = Len(Instr(h2, c + 1).operands)
        /\ Instr(g, c + 1).operands[1].id = t
    BY <1>3, <1>14, <1>16, <1>17 DEF Retargeted
  <2>4. \A b, r : Labelled(g, b, r, c) <=> Labelled(h2, b, r, c)
    BY <1>17 DEF Labelled, Retargeted
  <2>5. HasElse(g, c) <=> HasElse(h2, c)
    BY <1>17, <2>4 DEF HasElse, Retargeted
  <2> QED
    BY <1>18, <2>1, <2>2, <2>3, <2>4, <2>5 DEF IfOK
<1>20. Shaped(g) /\ Later(h2, g)
  <2>1. \A b \in BlockIDs(h2) : Lists(h2, b, c + 1) => b < t
    BY <1>8, <1>10, <1>12 DEF Retargeted
  <2> QED
    BY <1>0, <1>5, <1>12, <1>16, <1>19, <2>1, PatchWell
<1>21. Later(f, g)
  <2>1. Later(f, h)
    BY <1>4, SameIsLater
  <2> QED
    BY <1>10, <1>12, <1>20, <2>1, LaterTransitive
<1>22. InstrIDs(g) = InstrIDs(f)
  BY <1>13, <1>17 DEF Retargeted
<1>23. ASSUME NEW i \in InstrIDs(f), i \notin {c, c + 1, e}
       PROVE  Instr(g, i).operands = Instr(f, i).operands
  <2>1. Instr(h1, i).operands = Instr(f, i).operands
    BY <1>4, <1>10, <1>23
  <2>2. Instr(h2, i).operands = Instr(h1, i).operands
    BY <1>4, <1>10, <1>12, <1>23 DEF Retargeted
  <2>3. Instr(g, i).operands = Instr(h2, i).operands
    BY <1>13, <1>17, <1>23 DEF Retargeted
  <2> QED
    BY <2>1, <2>2, <2>3
<1>24. ~Unpatched(g, c)
  <2>1. Instr(h2, c).operands = Instr(h1, c).operands
    BY <1>3, <1>4, <1>10, <1>12 DEF Retargeted
  <2>2. Instr(g, c).operands = Instr(h2, c).operands
    BY <1>3, <1>14, <1>17 DEF Retargeted
  <2> QED
    BY <1>10, <2>1, <2>2 DEF Unpatched
<1>25. ~Unpatched(g, c + 1)
  <2>1. IsConditionalBranch(Instr(g, c)) /\ c \in InstrIDs(g)
    BY <1>13, <1>14, <1>20, <1>22, LaterKeeps
  <2>2. Instr(g, c + 1).operands[1].id = t
    BY <1>17 DEF Retargeted
  <2> QED
    BY <1>7, <1>20, <2>1, <2>2, SuspendedBranch
<1>26. ~Unpatched(g, e)
  <2>1. /\ e \in InstrIDs(h2) /\ Instr(h2, e).operands[1].id = t
        /\ Instr(g, e).operands = Instr(h2, e).operands
    BY <1>3, <1>13, <1>12, <1>17 DEF Retargeted
  <2>2. Instr(g, e).opcode = "BR" /\ Len(Instr(g, e).operands) = 1
    BY <1>21 DEF Later
  <2>3. g \in FunctionType /\ WellFormed(Instr(g, e)) /\ e \in InstrIDs(g)
    BY <1>20, <1>22 DEF Shaped, Core, AllWellFormed
  <2> QED
    BY <1>7, <2>1, <2>2, <2>3, OpenTargets
<1>27. JoinsPatched(g)
  <2> SUFFICES ASSUME NEW b \in BlockIDs(g), Block(g, b).label.role = "if_end"
               PROVE  /\ Block(g, b).label.id + 1 \in InstrIDs(g)
                      /\ ~Unpatched(g, Block(g, b).label.id + 1)
    BY DEF JoinsPatched
  <2>1. BlockIDs(g) = BlockIDs(h) /\ Block(g, b) = Block(h, b)
    BY <1>10, <1>12, <1>17 DEF Retargeted
  <2>2. CASE b = t
    <3>1. Block(h, b).label.id = c
      BY <1>5, <2>2 DEF LabelFor
    <3> QED
      BY <1>2, <1>22, <1>25, <2>1, <3>1
  <2>3. CASE b # t
    <3> DEFINE i == Block(f, b).label.id + 1
    <3>1. Block(g, b) = Block(f, b) /\ b \in BlockIDs(f)
      BY <1>5, <2>1, <2>3
    <3>2. i \in InstrIDs(f) /\ ~Unpatched(f, i)
      BY <1>1, <3>1 DEF JoinsPatched
    <3> HIDE DEF i
    <3>3. ~Unpatched(g, i)
      <4>1. CASE i \in {c, c + 1, e}
        BY <1>24, <1>25, <1>26, <4>1
      <4>2. CASE i \notin {c, c + 1, e}
        BY <1>23, <3>2, <4>2 DEF Unpatched
      <4> QED
        BY <4>1, <4>2
    <3> QED
      BY <1>22, <3>1, <3>2, <3>3 DEF i
  <2> QED
    BY <2>2, <2>3
<1>28. Well(g)
  BY <1>20, <1>27 DEF Well, ShapeOK, Shaped
<1> QED
  BY <1>21, <1>22, <1>23, <1>24, <1>25, <1>26, <1>28

-----------------------------------------------------------------------------
(* The suspended if statements on the call stack *)

IsIf(frame) == frame.at \in {"ifElse", "ifEnd"}

\* The ids a suspended visit(IfStatement) holds are those of the conditional
\* branch it has pushed, of the jump right behind it, and of the jump at the
\* end of its first branch.
IfFits(f, frame) ==
    LET ids == frame.ids
    IN /\ ids[1] \in InstrIDs(f) /\ IsConditionalBranch(Instr(f, ids[1]))
       /\ ids[2] = ids[1] + 1
       /\ frame.at = "ifEnd" =>
            /\ ids[3] \in InstrIDs(f) /\ Instr(f, ids[3]).opcode = "BR"
            /\ Len(Instr(f, ids[3]).operands) = 1 /\ ~Follows(f, ids[3])

\* The instructions it has left to patch: those of its else branch and end.
HeldIDs(frame) ==
    {frame.ids[1], frame.ids[2]} \cup (IF frame.at = "ifEnd" THEN {frame.ids[3]} ELSE {})
OpenIDs(frame) ==
    IF frame.at = "ifEnd" THEN {frame.ids[2], frame.ids[3]} ELSE {frame.ids[1], frame.ids[2]}

IfsFit(f, frames) == \A j \in DOMAIN frames : IsIf(frames[j]) => IfFits(f, frames[j])
Owned(f, frames) ==
    \A i \in InstrIDs(f) :
        Unpatched(f, i) <=>
            \E j \in DOMAIN frames : IsIf(frames[j]) /\ i \in OpenIDs(frames[j])
\* An if statement on the stack is within the one below it, and began later.
Nested(frames) ==
    \A j, k \in DOMAIN frames :
        j < k /\ IsIf(frames[j]) /\ IsIf(frames[k]) =>
            \A a \in HeldIDs(frames[j]), b \in HeldIDs(frames[k]) : b < a
Tidy(f, frames) == Well(f) /\ IfsFit(f, frames) /\ Owned(f, frames) /\ Nested(frames)

Finished(f) == Well(f) /\ \A i \in InstrIDs(f) : ~Unpatched(f, i)

ShapeInv ==
    /\ InFunction => Tidy(function, todo)
    /\ \A i \in DOMAIN module.functions : Finished(module.functions[i])

\* Stack t has the suspended if statements of stack s, d places further down.
Shifted(s, t, d) ==
    /\ d \in Int
    /\ \A j \in DOMAIN s : IsIf(s[j]) => j + d \in DOMAIN t /\ t[j + d] = s[j]
    /\ \A j \in DOMAIN t : IsIf(t[j]) => j - d \in DOMAIN s /\ s[j - d] = t[j]

\* Frames that are no suspended if statement.
NoIfs(frames) ==
    (\E S : frames \in Seq(S)) /\ \A j \in 1 .. Len(frames) : ~IsIf(frames[j])

\* Pushing other frames shifts the suspended if statements down.
LEMMA PushedIfs ==
    ASSUME NEW frames, NoIfs(frames), NEW s \in Seq(FrameType)
    PROVE  Shifted(s, frames \o s, Len(frames))
<1> DEFINE t == frames \o s
           n == Len(frames)
<1>0. PICK S : frames \in Seq(S)
  BY DEF NoIfs
<1> DEFINE T == S \cup FrameType
<1>7. frames \in Seq(T) /\ s \in Seq(T)
  BY <1>0
<1> HIDE DEF T
<1>1. /\ t \in Seq(T) /\ Len(t) = n + Len(s)
      /\ \A i \in 1 .. n + Len(s) : t[i] = IF i <= n THEN frames[i] ELSE s[i - n]
  BY <1>7, ConcatProperties
<1>2. n \in Nat /\ Len(s) \in Nat /\ DOMAIN s = 1 .. Len(s) /\ DOMAIN t = 1 .. Len(t)
  BY <1>7, <1>1
<1> HIDE DEF t, n
<1>3. ASSUME NEW j \in DOMAIN s PROVE j + n \in DOMAIN t /\ t[j + n] = s[j]
  BY <1>1, <1>2
<1>4. ASSUME NEW j \in DOMAIN t, IsIf(t[j]) PROVE j - n \in DOMAIN s /\ s[j - n] = t[j]
  <2>1. ~(j <= n)
    BY <1>1, <1>2, <1>4 DEF NoIfs, n
  <2> QED
    BY <1>1, <1>2, <2>1
<1>5. n \in Int
  BY <1>2
<1>6. Shifted(s, t, n)
  BY <1>3, <1>4, <1>5 DEF Shifted
<1> QED
  BY <1>6 DEF t, n

\* Returning from another visit shifts them up.
LEMMA PoppedIfs ==
    ASSUME NEW s \in Seq(FrameType), s # <<>>, ~IsIf(Head(s))
    PROVE  Shifted(s, Tail(s), -1) /\ Tail(s) \in Seq(FrameType)
<1>1. /\ Tail(s) \in Seq(FrameType) /\ Len(Tail(s)) = Len(s) - 1
      /\ \A j \in 1 .. Len(Tail(s)) : Tail(s)[j] = s[j + 1]
      /\ Head(s) = s[1] /\ Len(s) \in Nat /\ DOMAIN s = 1 .. Len(s)
      /\ DOMAIN Tail(s) = 1 .. Len(Tail(s))
  BY HeadTailProperties
<1>2. ASSUME NEW j \in DOMAIN s, IsIf(s[j])
      PROVE  j + (-1) \in DOMAIN Tail(s) /\ Tail(s)[j + (-1)] = s[j]
  <2>1. j # 1
    BY <1>1, <1>2
  <2>2. j - 1 \in 1 .. Len(Tail(s)) /\ (j - 1) + 1 = j /\ j + (-1) = j - 1
    BY <1>1, <2>1
  <2> QED
    BY <1>1, <2>2
<1>3. ASSUME NEW j \in DOMAIN Tail(s), IsIf(Tail(s)[j])
      PROVE  j - (-1) \in DOMAIN s /\ s[j - (-1)] = Tail(s)[j]
  <2>1. j - (-1) = j + 1 /\ j + 1 \in 1 .. Len(s)
    BY <1>1
  <2> QED
    BY <1>1, <2>1
<1> QED
  BY <1>1, <1>2, <1>3 DEF Shifted

\* Shifting twice.
LEMMA ShiftedTransitive ==
    ASSUME NEW s, DOMAIN s \subseteq Int, NEW t, NEW u, DOMAIN u \subseteq Int,
           NEW d, NEW e, Shifted(s, t, d), Shifted(t, u, e)
    PROVE  Shifted(s, u, d + e)
<1>1. d \in Int /\ e \in Int /\ d + e \in Int
  BY DEF Shifted
<1>2. ASSUME NEW j \in DOMAIN s, IsIf(s[j])
      PROVE  j + (d + e) \in DOMAIN u /\ u[j + (d + e)] = s[j]
  <2>1. j + d \in DOMAIN t /\ t[j + d] = s[j]
    BY <1>2 DEF Shifted
  <2>2. (j + d) + e \in DOMAIN u /\ u[(j + d) + e] = t[j + d]
    BY <1>2, <2>1 DEF Shifted
  <2>3. (j + d) + e = j + (d + e)
    BY <1>1
  <2> QED
    BY <2>1, <2>2, <2>3
<1>3. ASSUME NEW j \in DOMAIN u, IsIf(u[j])
      PROVE  j - (d + e) \in DOMAIN s /\ s[j - (d + e)] = u[j]
  <2>1. j - e \in DOMAIN t /\ t[j - e] = u[j]
    BY <1>3 DEF Shifted
  <2>2. (j - e) - d \in DOMAIN s /\ s[(j - e) - d] = t[j - e]
    BY <1>3, <2>1 DEF Shifted
  <2>3. (j - e) - d = j - (d + e)
    BY <1>1
  <2> QED
    BY <2>1, <2>2, <2>3
<1> QED
  BY <1>1, <1>2, <1>3 DEF Shifted

\* Straight-line code leaves every suspended if statement as it is.
LEMMA StraightTidy ==
    ASSUME NEW f, NEW g, NEW s \in Seq(FrameType), NEW t \in Seq(FrameType), NEW d,
           Tidy(f, s), Runs(f, g), Shifted(s, t, d)
    PROVE  Tidy(g, t)
<1>1. /\ Well(f) /\ Well(g) /\ Straight(f, g) /\ f \in FunctionType
      /\ DOMAIN s \subseteq Int /\ DOMAIN t \subseteq Int /\ d \in Int
  BY DEF Tidy, Runs, Well, Shifted
<1>2. /\ InstrIDs(f) \subseteq InstrIDs(g)
      /\ \A i \in InstrIDs(f) : Instr(g, i) = Instr(f, i)
      /\ Later(f, g)
  BY <1>1, SameIsLater DEF Straight
<1>3. IfsFit(g, t)
  <2>1. SUFFICES ASSUME NEW j \in DOMAIN t, IsIf(t[j]) PROVE IfFits(g, t[j])
    BY DEF IfsFit
  <2>2. IfFits(f, t[j])
    BY <2>1 DEF Shifted, Tidy, IfsFit
  <2> QED
    BY <1>1, <1>2, <2>2, LaterKeeps DEF IfFits
<1>4. Owned(g, t)
  <2>1. SUFFICES ASSUME NEW i \in InstrIDs(g)
                 PROVE  Unpatched(g, i) <=>
                          \E j \in DOMAIN t : IsIf(t[j]) /\ i \in OpenIDs(t[j])
    BY DEF Owned
  <2>2. (\E j \in DOMAIN t : IsIf(t[j]) /\ i \in OpenIDs(t[j])) <=>
        (\E j \in DOMAIN s : IsIf(s[j]) /\ i \in OpenIDs(s[j]))
    BY DEF Shifted
  <2>3. CASE i \in InstrIDs(f)
    <3>1. Unpatched(g, i) <=> Unpatched(f, i)
      BY <1>2, <2>3 DEF Unpatched
    <3> QED
      BY <2>2, <2>3, <3>1 DEF Tidy, Owned
  <2>4. CASE i \notin InstrIDs(f)
    <3>1. Instr(g, i).opcode # "BR" /\ WellFormed(Instr(g, i))
      BY <1>1, <2>4 DEF Straight, Well, ShapeOK, Core, AllWellFormed
    <3>2. ~Unpatched(g, i)
      BY <3>1 DEF WellFormed, Unpatched
    <3>3. ASSUME NEW j \in DOMAIN s, IsIf(s[j]), i \in OpenIDs(s[j]) PROVE FALSE
      <4>1. IfFits(f, s[j])
        BY <3>3 DEF Tidy, IfsFit
      <4>2. s[j].ids[1] + 1 \in InstrIDs(f)
        BY <1>1, <4>1, SuspendedBranch DEF IfFits
      <4> QED
        BY <2>4, <3>3, <4>1, <4>2 DEF IfFits, OpenIDs, IsIf
    <3> QED
      BY <2>2, <3>2, <3>3
  <2> QED
    BY <2>3, <2>4
<1>5. Nested(t)
  <2>1. SUFFICES ASSUME NEW j \in DOMAIN t, NEW k \in DOMAIN t, j < k, IsIf(t[j]), IsIf(t[k]),
                        NEW a \in HeldIDs(t[j]), NEW b \in HeldIDs(t[k])
                 PROVE  b < a
    BY DEF Nested
  <2>2. /\ j - d \in DOMAIN s /\ s[j - d] = t[j]
        /\ k - d \in DOMAIN s /\ s[k - d] = t[k]
    BY <2>1 DEF Shifted
  <2>3. j - d < k - d
    BY <1>1, <2>1
  <2> QED
    BY <2>1, <2>2, <2>3 DEF Tidy, Nested
<1> QED
  BY <1>1, <1>3, <1>4, <1>5 DEF Tidy

-----------------------------------------------------------------------------
(* Handlers that emit straight-line code *)

\* What most handlers do: more code in the last block, the same suspended if
\* statements.
RunStep ==
    /\ InFunction /\ Runs(function, function') /\ UNCHANGED module
    /\ \E d : Shifted(todo, todo', d)
\* A step that keeps the shape of every function and the instructions emitted.
Keeps == ShapeInv' /\ (function' # NoFunction => Later(function, function'))

\* No frame, one, two or three that are no suspended if statement.
LEMMA NoFrames == NoIfs(<<>>)
<1>1. <<>> \in Seq({}) /\ Len(<<>>) = 0
  OBVIOUS
<1> QED
  BY <1>1 DEF NoIfs

\* One frame that is not an if statement.
LEMMA OneNoIf ==
    ASSUME NEW a, ~IsIf(a) PROVE NoIfs(<<a>>)
<1> DEFINE frames == <<a>>
<1>1. /\ frames \in Seq({a}) /\ Len(frames) = 1
      /\ frames[1] = a
  OBVIOUS
<1> HIDE DEF frames
<1>2. NoIfs(frames)
  BY <1>1 DEF NoIfs
<1> QED
  BY <1>2 DEF frames

\* Two of them.
LEMMA TwoNoIfs ==
    ASSUME NEW a, ~IsIf(a), NEW b, ~IsIf(b) PROVE NoIfs(<<a, b>>)
<1> DEFINE frames == <<a, b>>
<1>1. /\ frames \in Seq({a, b}) /\ Len(frames) = 2
      /\ frames[1] = a /\ frames[2] = b
  OBVIOUS
<1> HIDE DEF frames
<1>2. NoIfs(frames)
  BY <1>1 DEF NoIfs
<1> QED
  BY <1>2 DEF frames

\* Three of them.
LEMMA ThreeNoIfs ==
    ASSUME NEW a, ~IsIf(a), NEW b, ~IsIf(b), NEW c, ~IsIf(c) PROVE NoIfs(<<a, b, c>>)
<1> DEFINE frames == <<a, b, c>>
<1>1. /\ frames \in Seq({a, b, c}) /\ Len(frames) = 3
      /\ frames[1] = a /\ frames[2] = b /\ frames[3] = c
  OBVIOUS
<1> HIDE DEF frames
<1>2. NoIfs(frames)
  BY <1>1 DEF NoIfs
<1> QED
  BY <1>2 DEF frames

\* Both halves of a concatenation are free of if statements.
LEMMA ConcatNoIfs ==
    ASSUME NEW xs, NoIfs(xs), NEW ys, NoIfs(ys) PROVE NoIfs(xs \o ys)
<1>1. PICK S : xs \in Seq(S)
  BY DEF NoIfs
<1>2. PICK T : ys \in Seq(T)
  BY DEF NoIfs
<1> DEFINE U == S \cup T
           zs == xs \o ys
<1>3. xs \in Seq(U) /\ ys \in Seq(U)
  BY <1>1, <1>2
<1> HIDE DEF U
<1>4. /\ zs \in Seq(U) /\ Len(zs) = Len(xs) + Len(ys)
      /\ \A i \in 1 .. Len(xs) + Len(ys) :
           zs[i] = IF i <= Len(xs) THEN xs[i] ELSE ys[i - Len(xs)]
  BY <1>3, ConcatProperties
<1>5. Len(xs) \in Nat /\ Len(ys) \in Nat
  BY <1>3
<1> HIDE DEF zs
<1>6. ASSUME NEW j \in 1 .. Len(zs) PROVE ~IsIf(zs[j])
  <2>1. CASE j <= Len(xs)
    BY <1>4, <1>5, <2>1 DEF NoIfs
  <2>2. CASE ~(j <= Len(xs))
    <3>1. j - Len(xs) \in 1 .. Len(ys)
      BY <1>4, <1>5, <2>2
    <3> QED
      BY <1>4, <1>5, <2>2, <3>1 DEF NoIfs
  <2> QED
    BY <2>1, <2>2
<1>7. NoIfs(zs)
  BY <1>4, <1>6 DEF NoIfs
<1> QED
  BY <1>7 DEF zs

\* A child or a resumption at another place is no suspended if statement.
LEMMA OtherFrames ==
    ASSUME NEW at, at \notin {"ifElse", "ifEnd"}
    PROVE  /\ ~IsIf(Frame(at))
           /\ \A position : ~IsIf(Child(at, position))
           /\ \A arg, type, ids : ~IsIf(Resume(at, arg, type, ids))
BY DEF IsIf, Frame, Child, Resume

\* Pushing frames, and going on with frames in the place of the head.
LEMMA PushShifts ==
    ASSUME IndInv, NEW frames, NoIfs(frames), todo' = frames \o todo
    PROVE  \E d : Shifted(todo, todo', d)
BY PushedIfs DEF IndInv, TypeOK

\* Continue(frames) replaces the top frame: the older ones only move.
LEMMA ContinueShifts ==
    ASSUME IndInv, IndInv', todo # <<>>, ~IsIf(Head(todo)),
           NEW frames, NoIfs(frames), Continue(frames)
    PROVE  \E d : Shifted(todo, todo', d)
<1>1. todo \in Seq(FrameType) /\ todo' \in Seq(FrameType)
  BY DEF IndInv, TypeOK
<1>2. Shifted(todo, Tail(todo), -1) /\ Tail(todo) \in Seq(FrameType)
  BY <1>1, PoppedIfs
<1>3. Shifted(Tail(todo), todo', Len(frames))
  BY <1>2, PushedIfs DEF Continue
<1>4. Shifted(todo, todo', (-1) + Len(frames))
  BY <1>1, <1>2, <1>3, ShiftedTransitive
<1> QED
  BY <1>4

\* A handler that leaves the call stack alone moves no frame.
LEMMA SameShifts ==
    ASSUME IndInv, UNCHANGED todo
    PROVE  \E d : Shifted(todo, todo', d)
<1>1. Shifted(todo, todo', 0)
  BY DEF IndInv, TypeOK, Shifted
<1> QED
  BY <1>1

\* Where a handler other than that of an if statement goes on.
LEMMA AtOther ==
    ASSUME IndInv, NEW place, place \notin {"ifElse", "ifEnd"}, At(place)
    PROVE  InFunction /\ todo # <<>> /\ ~IsIf(Head(todo))
BY AtFacts DEF IsIf

\* Straight-line code keeps the shape.
LEMMA RunKeeps ==
    ASSUME IndInv, IndInv', ShapeInv, RunStep
    PROVE  Keeps
<1>1. /\ Runs(function, function') /\ UNCHANGED module /\ InFunction
      /\ Tidy(function, todo)
  BY DEF RunStep, ShapeInv
<1>2. PICK d : Shifted(todo, todo', d)
  BY DEF RunStep
<1>3. Tidy(function', todo')
  BY <1>1, <1>2, StraightTidy DEF IndInv, TypeOK
<1>4. Later(function, function')
  BY <1>1, SameIsLater DEF Runs, Straight
<1> QED
  BY <1>1, <1>3, <1>4 DEF ShapeInv, Keeps

\* Handlers that emit nothing.
LEMMA NothingEmitted ==
    ASSUME ShapeInv, InFunction, UNCHANGED <<function, module>>,
           \E d : Shifted(todo, todo', d)
    PROVE  RunStep
BY RunsReflexive DEF RunStep, ShapeInv, Tidy

\* Handlers that emit one instruction.
LEMMA OneEmitted ==
    ASSUME ShapeInv, InFunction, UNCHANGED module,
           NEW instr \in LLVMInstruction, WellFormed(instr), instr.opcode # "BR",
           function' = EmitInstr(function, instr),
           \E d : Shifted(todo, todo', d)
    PROVE  RunStep
BY EmitRuns DEF RunStep, ShapeInv, Tidy

-----------------------------------------------------------------------------
(* The instructions the handlers emit *)

\* An instruction that is no branch, with operands that are no blocks.
LEMMA NullaryWell ==
    ASSUME NEW opcode, NEW type \in LLVMType,
           opcode = "ALLOCA" \/ (opcode = "RET" /\ type = "void"),
           NEW instr, instr = Instruction(opcode, type, <<>>)
    PROVE  instr \in LLVMInstruction /\ WellFormed(instr) /\ instr.opcode # "BR"
<1>1. <<>> \in Seq(LLVMValueID) /\ DOMAIN <<>> = {} /\ opcode \in LLVMOpcode
  BY DEF LLVMOpcode
<1>2. /\ instr \in LLVMInstruction /\ instr.operands = <<>>
      /\ instr.type = type /\ instr.opcode = opcode
  BY <1>1, InstructionType DEF Instruction
<1>3. opcode \notin LLVM!Operation \cup {"LOAD", "ICMP", "STORE", "BR"}
  BY DEF LLVM!Operation
<1> QED
  BY <1>1, <1>2, <1>3 DEF WellFormed

\* A load or a return with one operand keeps the function well formed.
LEMMA UnaryWell ==
    ASSUME NEW opcode \in {"LOAD", "RET"}, NEW type \in LLVMType,
           NEW v \in LLVMValueID, v.kind # "BLOCK",
           NEW instr, instr = Instruction(opcode, type, <<v>>)
    PROVE  instr \in LLVMInstruction /\ WellFormed(instr) /\ instr.opcode # "BR"
<1> DEFINE operands == <<v>>
<1>1. /\ operands \in Seq(LLVMValueID) /\ DOMAIN operands = {1} /\ Len(operands) = 1
      /\ operands[1] = v /\ opcode \in LLVMOpcode
  BY DEF LLVMOpcode
<1>2. instr = Instruction(opcode, type, operands)
  OBVIOUS
<1> HIDE DEF operands
<1>3. /\ instr \in LLVMInstruction /\ instr.operands = operands
      /\ instr.type = type /\ instr.opcode = opcode
  BY <1>1, <1>2, InstructionType DEF Instruction
<1>4. opcode \notin LLVM!Operation \cup {"ICMP", "STORE", "BR"}
  BY DEF LLVM!Operation
<1> QED
  BY <1>1, <1>3, <1>4 DEF WellFormed

\* The instruction of a binary operator keeps the function well formed.
LEMMA BinaryWell ==
    ASSUME NEW instr \in LLVMInstruction, NEW v, v.kind \in {"INSTR", "PARAM", "CONST", "GLOBAL"},
           NEW w, w.kind \in {"INSTR", "PARAM", "CONST", "GLOBAL"},
           instr.operands = <<v, w>>, instr.opcode \in LLVM!Operation,
           instr.opcode \in {"ICMP", "STORE"} => v.kind \in {"INSTR", "PARAM"}
    PROVE  WellFormed(instr) /\ instr.opcode # "BR"
<1> DEFINE operands == <<v, w>>
<1>1. /\ DOMAIN operands = {1, 2} /\ Len(operands) = 2
      /\ operands[1] = v /\ operands[2] = w /\ instr.operands = operands
  OBVIOUS
<1>2. instr.opcode \notin {"LOAD", "RET", "BR"}
  BY DEF LLVM!Operation
<1> HIDE DEF operands
<1> QED
  BY <1>1, <1>2 DEF WellFormed

\* Any instruction with two operands that are not blocks does.
LEMMA PairWell ==
    ASSUME NEW opcode \in LLVM!Operation, NEW type \in LLVMType,
           NEW v \in LLVMValueID, v.kind # "BLOCK", NEW w \in LLVMValueID, w.kind # "BLOCK",
           opcode \in {"ICMP", "STORE"} => v.kind \in {"INSTR", "PARAM"},
           NEW instr, instr = Instruction(opcode, type, <<v, w>>)
    PROVE  instr \in LLVMInstruction /\ WellFormed(instr) /\ instr.opcode # "BR"
<1>1. opcode \in LLVMOpcode
  BY DEF LLVMOpcode, LLVM!Operation
<1>2. instr \in LLVMInstruction /\ instr.operands = <<v, w>> /\ instr.opcode = opcode
  BY <1>1, PairInstruction DEF Instruction
<1>3. v.kind \in {"INSTR", "PARAM", "CONST", "GLOBAL"} /\ w.kind \in {"INSTR", "PARAM", "CONST", "GLOBAL"}
  BY DEF LLVMValueID, LLVMValueKind
<1> QED
  BY <1>1, <1>2, <1>3, BinaryWell

\* The id of an instruction, as an operand.
LEMMA InstrOperand ==
    ASSUME NEW id \in Nat \cup {NPos}
    PROVE  /\ Value("INSTR", id) \in LLVMValueID
           /\ Value("INSTR", id).kind = "INSTR" /\ Value("INSTR", id).id = id
BY DEF Value, LLVMValueID, LLVMValueKind

\* `size() - 1`, taken as an operand, is the last instruction or the wrapped index.
LEMMA LastOperand ==
    ASSUME NEW f \in FunctionType
    PROVE  /\ LastInstr(f) \in Nat \cup {NPos}
           /\ Value("INSTR", LastInstr(f)) \in LLVMValueID
           /\ Value("INSTR", LastInstr(f)).kind = "INSTR"
           /\ Value("INSTR", LastInstr(f)).id = LastInstr(f)
<1>1. LastInstr(f) \in Nat \cup {NPos}
  BY FunctionFields DEF LastInstr, NPos
<1> QED
  BY <1>1, InstrOperand

\* What an identifier stands for is a global or an instruction.
LEMMA ResolvedKind ==
    ASSUME IndInv, NEW n, Resolvable(n)
    PROVE  ResolveIdentifier(n).kind \in {"GLOBAL", "INSTR"}
<1>1. PICK i \in DOMAIN identifiers :
         n \in DOMAIN identifiers[i] /\ ResolveIdentifier(n) = identifiers[i][n]
  BY ResolvedIsHeld DEF IndInv, TypeOK
<1>2. StorageOK(i, identifiers[i][n])
  BY <1>1 DEF IndInv, LayersOK
<1> QED
  BY <1>1, <1>2 DEF StorageOK

\* The opcode of a binary operator.
LEMMA BinaryOpcode ==
    ASSUME NEW op \in BinaryOperator, NEW lhs, NEW rhs, NEW type
    PROVE  LET instr == BinaryInstr(op, lhs, rhs, type)
           IN IF op \in EqualityOperator THEN instr.opcode = "ICMP" /\ instr.type = "i1"
              ELSE /\ instr.opcode \in LLVM!Operation \ {"ICMP", "STORE"}
                   /\ instr.type = toLLVMType(type)
<1>1. CASE op \in AddMultOperator
  BY <1>1 DEF BinaryInstr, AddMultInstr, Instruction, AddMultOperator, BitwiseOperator,
              EqualityOperator, LLVM!Operation
<1>2. CASE op \in BitwiseOperator
  BY <1>2 DEF BinaryInstr, BitwiseInstr, Instruction, AddMultOperator, BitwiseOperator,
              EqualityOperator, LLVM!Operation
<1>3. CASE op \in EqualityOperator
  BY <1>3 DEF BinaryInstr, EqualityInstr, AddMultOperator, BitwiseOperator, EqualityOperator
<1> QED
  BY <1>1, <1>2, <1>3 DEF BinaryOperator

\* The opcode of a compound assignment.
LEMMA CompoundIsOperation ==
    ASSUME NEW op PROVE CompoundOpcode(op) \in LLVM!Operation \ {"ICMP", "STORE"}
BY DEF CompoundOpcode, LLVM!Operation

-----------------------------------------------------------------------------
(* The expression handlers run on *)

\* A handler that only goes on with other frames, and one that emits besides.
LEMMA ContinueRuns ==
    ASSUME IndInv, IndInv', ShapeInv, NEW place, place \notin {"ifElse", "ifEnd"}, At(place),
           NEW frames, NoIfs(frames), Continue(frames), UNCHANGED <<function, module>>
    PROVE  RunStep
BY AtOther, ContinueShifts, NothingEmitted

\* A handler that only appends instructions to the function and returns is a run.
LEMMA ContinueEmits ==
    ASSUME IndInv, IndInv', ShapeInv, NEW place, place \notin {"ifElse", "ifEnd"}, At(place),
           Continue(<<>>), UNCHANGED module,
           NEW instr \in LLVMInstruction, WellFormed(instr), instr.opcode # "BR",
           function' = EmitInstr(function, instr)
    PROVE  RunStep
BY AtOther, NoFrames, ContinueShifts, OneEmitted

\* ListExpression and Parentheses go on with their expressions.
LEMMA ListExpressionRuns ==
    ASSUME IndInv, IndInv', ShapeInv, NEW two \in BOOLEAN, ListExpression(two)
    PROVE  RunStep
<1> DEFINE a == Child("expr", "discarded")
           b == Child("expr", Head(todo).arg)
           xs == IF two THEN <<a>> ELSE <<>>
           ys == <<b>>
<1>1. ~IsIf(a) /\ ~IsIf(b) /\ Continue(xs \o ys)
  BY OtherFrames DEF ListExpression
<1> HIDE DEF a, b
<1>2. NoIfs(xs) /\ NoIfs(ys)
  BY <1>1, NoFrames, OneNoIf
<1> HIDE DEF xs, ys
<1> QED
  BY <1>1, <1>2, ConcatNoIfs, ContinueRuns DEF ListExpression, unit

\* visit(PrimaryExpression) of a parenthesised one.
LEMMA ParenthesesRuns ==
    ASSUME IndInv, IndInv', ShapeInv, Parentheses
    PROVE  RunStep
<1> DEFINE a == Child("list", Head(todo).arg)
<1>1. ~IsIf(a) /\ Continue(<<a>>)
  BY OtherFrames DEF Parentheses
<1> HIDE DEF a
<1> QED
  BY <1>1, OneNoIf, ContinueRuns DEF Parentheses, unit

\* An expression without a handler is passed over.
LEMMA UnhandledExpressionRuns ==
    ASSUME IndInv, IndInv', ShapeInv, NEW t, UnhandledExpression(t)
    PROVE  RunStep
BY NoFrames, ContinueRuns DEF UnhandledExpression, unit

\* A binary expression visits its two sides.
LEMMA BinaryExpressionRuns ==
    ASSUME IndInv, IndInv', ShapeInv, NEW op, BinaryExpression(op)
    PROVE  RunStep
<1> DEFINE a == Child("expr", "rvalue")
           b == Frame("rvalue")
           c == Child("binaryLhs", op)
<1>1. ~IsIf(a) /\ ~IsIf(b) /\ ~IsIf(c) /\ Continue(<<a, b, c>>)
  BY OtherFrames DEF BinaryExpression
<1> HIDE DEF a, b, c
<1> QED
  BY <1>1, ThreeNoIfs, ContinueRuns DEF BinaryExpression, unit

\* A binary operator between its operands.
LEMMA BinaryLhsRuns ==
    ASSUME IndInv, IndInv', ShapeInv, BinaryLhs
    PROVE  RunStep
<1> DEFINE a == Child("expr", "rvalue")
           b == Frame("rvalue")
           c == Resume("binary", Head(todo).arg, evaluated, <<LastInstr(function)>>)
<1>1. ~IsIf(a) /\ ~IsIf(b) /\ ~IsIf(c) /\ Continue(<<a, b, c>>)
  BY OtherFrames DEF BinaryLhs
<1> HIDE DEF a, b, c
<1> QED
  BY <1>1, ThreeNoIfs, ContinueRuns DEF BinaryLhs, unit

\* An assignment visits its two sides.
LEMMA AssignmentExpressionRuns ==
    ASSUME IndInv, IndInv', ShapeInv, NEW op, AssignmentExpression(op)
    PROVE  RunStep
<1> DEFINE a == Child("expr", "rvalue")
           b == Frame("rvalue")
           c == Child("assignLhs", op)
<1>1. ~IsIf(a) /\ ~IsIf(b) /\ ~IsIf(c) /\ Continue(<<a, b, c>>)
  BY OtherFrames DEF AssignmentExpression
<1> HIDE DEF a, b, c
<1> QED
  BY <1>1, ThreeNoIfs, ContinueRuns DEF AssignmentExpression, unit

\* visit(AssignmentExpression) between its two sides.
LEMMA AssignmentLhsRuns ==
    ASSUME IndInv, IndInv', ShapeInv, AssignmentLhs
    PROVE  RunStep
<1> DEFINE a == Frame("lvalue")
           b == Resume("assign", Head(todo).arg, evaluated, <<LastInstr(function)>>)
<1>1. ~IsIf(a) /\ ~IsIf(b) /\ Continue(<<a, b>>)
  BY OtherFrames DEF AssignmentLhs
<1> HIDE DEF a, b
<1> QED
  BY <1>1, TwoNoIfs, ContinueRuns DEF AssignmentLhs, unit

\* _evaluateAsRValue loads from an address or does nothing.
LEMMA EvaluateAsRValueRuns ==
    ASSUME IndInv, IndInv', ShapeInv, EvaluateAsRValue
    PROVE  RunStep
<1> DEFINE v == Value("INSTR", LastInstr(function))
           load == Instruction("LOAD", toLLVMType(evaluated), <<v>>)
<1>1. /\ At("rvalue") /\ Continue(<<>>) /\ UNCHANGED module
      /\ function' = EmitInstr(function, load) \/ UNCHANGED function
  BY DEF EvaluateAsRValue, unit
<1>2. function \in FunctionType /\ toLLVMType(evaluated) \in LLVMType
  BY ToLLVMType DEF IndInv, TypeOK
<1>3. v \in LLVMValueID /\ v.kind # "BLOCK"
  BY <1>2, LastOperand
<1> HIDE DEF v
<1>4. load \in LLVMInstruction /\ WellFormed(load) /\ load.opcode # "BR"
  BY <1>2, <1>3, UnaryWell
<1> HIDE DEF load
<1> QED
  BY <1>1, <1>4, NoFrames, ContinueRuns, ContinueEmits

\* A constant is one addition.
LEMMA PrimaryExpressionRuns ==
    ASSUME IndInv, IndInv', ShapeInv, NEW c \in Literals, PrimaryExpression(c)
    PROVE  RunStep
<1> DEFINE f == [function EXCEPT !.consts = Append(@, c)]
           v == Value("CONST", Len(function.consts))
           w == Value("CONST", 0)
           instr == Instruction("ADD", "i32", <<v, w>>)
<1>1. InFunction /\ todo # <<>> /\ ~IsIf(Head(todo)) /\ Sound(function, gs) /\ Len(gs) \in Nat
  BY AtOther, InFunctionFacts DEF PrimaryExpression
<1>2. /\ f \in FunctionType /\ f.instructions = function.instructions
      /\ f.blocks = function.blocks /\ v \in LLVMValueID
  BY <1>1, PushConstant, FunctionFields DEF Grows, Sound, FunctionType, LLVMFunction
<1>3. Runs(function, f)
  BY <1>1, <1>2, SameCode DEF ShapeInv, Tidy
<1> HIDE DEF f
<1>4. w \in LLVMValueID /\ v.kind # "BLOCK" /\ w.kind # "BLOCK" /\ "i32" \in LLVMType
  BY DEF Value, LLVMValueID, LLVMValueKind, LLVMType
<1>5. "ADD" \in LLVM!Operation \ {"ICMP", "STORE"}
  BY DEF LLVM!Operation
<1> HIDE DEF v, w
<1>6. instr \in LLVMInstruction /\ WellFormed(instr) /\ instr.opcode # "BR"
  BY <1>2, <1>4, <1>5, PairWell
<1> HIDE DEF instr
<1>7. function' = EmitInstr(f, instr) /\ Continue(<<>>) /\ UNCHANGED module
  BY DEF PrimaryExpression, unit, f, instr, v, w
<1>8. Runs(f, function')
  BY <1>3, <1>6, <1>7, EmitRuns DEF Runs
<1> QED
  BY <1>1, <1>3, <1>7, <1>8, RunsTransitive, NoFrames, ContinueShifts DEF RunStep

\* An identifier is one addition to its address.
LEMMA IdentifierExpressionRuns ==
    ASSUME IndInv, IndInv', ShapeInv, NEW n, IdentifierExpression(n)
    PROVE  RunStep
<1> DEFINE v == ResolveIdentifier(n)
           w == Value("CONST", 0)
           instr == Instruction("ADD", "ptr", <<v, w>>)
<1>1. /\ At("lvalue") \/ At("expr")
      /\ Resolvable(n) /\ Continue(<<>>) /\ UNCHANGED module
      /\ function' = EmitInstr(function, instr)
  BY DEF IdentifierExpression, EmitAddress, unit
<1>2. InFunction
  BY <1>1, AtOther
<1>3. v \in LLVMValueID /\ v.kind # "BLOCK"
  BY <1>1, <1>2, ResolvedOperand, ResolvedKind
<1>4. w \in LLVMValueID /\ w.kind # "BLOCK" /\ "ptr" \in LLVMType
  BY DEF Value, LLVMValueID, LLVMValueKind, LLVMType
<1>5. "ADD" \in LLVM!Operation /\ "ADD" \notin {"ICMP", "STORE"}
  BY DEF LLVM!Operation
<1> HIDE DEF v, w
<1>6. instr \in LLVMInstruction /\ WellFormed(instr) /\ instr.opcode # "BR"
  BY <1>3, <1>4, <1>5, PairWell
<1> HIDE DEF instr
<1> QED
  BY <1>1, <1>6, ContinueEmits

\* A binary operator is one instruction on its two sides.
LEMMA FinishBinaryRuns ==
    ASSUME IndInv, IndInv', ShapeInv, FinishBinary
    PROVE  RunStep
<1> DEFINE frame == Head(todo)
           lhs == LastInstr(function)
           rhs == frame.ids[1]
           v == Value("INSTR", lhs)
           w == Value("INSTR", rhs)
           instr == BinaryInstr(frame.arg, lhs, rhs, frame.type)
<1>1. /\ At("binary") /\ Continue(<<>>) /\ UNCHANGED module
      /\ function' = EmitInstr(function, instr)
  BY DEF FinishBinary, unit
<1>2. /\ function \in FunctionType /\ frame \in FrameType
      /\ frame.arg \in BinaryOperator /\ rhs \in NPos .. LastInstr(function)
  BY <1>1, AtFacts DEF FrameOK, IndInv, TypeOK
<1>3. lhs \in Nat \cup {NPos} /\ rhs \in Nat \cup {NPos} /\ frame.type \in CType
  BY <1>2, LastOperand DEF NPos, FrameType
<1>4. v \in LLVMValueID /\ v.kind = "INSTR" /\ w \in LLVMValueID /\ w.kind = "INSTR"
  BY <1>3, InstrOperand
<1>5. instr \in LLVMInstruction /\ instr.operands = <<v, w>>
  BY <1>2, <1>3, <1>4, BinaryInstrType
<1>6. instr.opcode \in LLVM!Operation
  BY <1>2, BinaryOpcode DEF LLVM!Operation
<1> HIDE DEF v, w, instr
<1>7. WellFormed(instr) /\ instr.opcode # "BR"
  BY <1>4, <1>5, <1>6, BinaryWell
<1> QED
  BY <1>1, <1>5, <1>7, ContinueEmits

\* The tail of visit(AssignmentExpression) is straight-line code.
LEMMA AssignRuns ==
    ASSUME NEW f, Well(f), NEW op, NEW lhs \in NPos .. LastInstr(f),
           NEW rhs \in NPos .. LastInstr(f), NEW g, g = Assign(f, op, lhs, rhs)
    PROVE  Runs(f, g)
<1> DEFINE v == Value("INSTR", lhs)
           w == Value("INSTR", rhs)
           type == IF rhs = NPos THEN "void" ELSE Instr(f, rhs).type
           load == Instruction("LOAD", type, <<v>>)
           loaded == EmitInstr(f, load)
           last == Value("INSTR", LastInstr(loaded))
           operation == Instruction(CompoundOpcode(op), type, <<last, w>>)
           result == EmitInstr(loaded, operation)
           store == Instruction("STORE", "void", <<w, v>>)
           computed == IF op = "=" THEN f ELSE result
<1>1. /\ f \in FunctionType /\ Len(f.instructions) \in Nat
      /\ lhs \in Nat \cup {NPos} /\ rhs \in Nat \cup {NPos}
  BY FunctionFields DEF Well, LastInstr, NPos
<1>2. /\ v \in LLVMValueID /\ v.kind = "INSTR"
      /\ w \in LLVMValueID /\ w.kind = "INSTR"
  BY <1>1, InstrOperand
<1>3. type \in LLVMType
  <2>1. CASE rhs = NPos
    BY <2>1 DEF LLVMType
  <2>2. CASE rhs # NPos
    <3>1. rhs \in InstrIDs(f)
      BY <2>2, <1>1 DEF InstrIDs, LastInstr, NPos
    <3> QED
      BY <2>2, <3>1, <1>1, InstrFields DEF LLVMInstruction
  <2> QED
    BY <2>1, <2>2
<1>4. g = EmitInstr(computed, store)
  BY DEF Assign
<1> HIDE DEF v, w, type
<1>5. load \in LLVMInstruction /\ WellFormed(load) /\ load.opcode # "BR"
  BY <1>2, <1>3, UnaryWell
<1> HIDE DEF load
<1>6. Runs(f, loaded) /\ Well(loaded)
  BY <1>5, EmitRuns DEF Runs
<1> HIDE DEF loaded
<1>7. last \in LLVMValueID /\ last.kind = "INSTR"
  BY <1>6, LastOperand DEF Well
<1> HIDE DEF last
<1>8. operation \in LLVMInstruction /\ WellFormed(operation) /\ operation.opcode # "BR"
  BY <1>2, <1>3, <1>7, CompoundIsOperation, PairWell
<1> HIDE DEF operation
<1>9. Runs(f, result)
  BY <1>6, <1>8, EmitRuns, RunsTransitive
<1> HIDE DEF result
<1>10. Runs(f, computed) /\ Well(computed)
  BY <1>9, RunsReflexive DEF Runs
<1>11. "STORE" \in LLVM!Operation /\ "void" \in LLVMType
  BY DEF LLVM!Operation, LLVMType
<1> HIDE DEF computed
<1>12. store \in LLVMInstruction /\ WellFormed(store) /\ store.opcode # "BR"
  BY <1>2, <1>11, PairWell
<1> HIDE DEF store
<1>13. Runs(computed, g)
  BY <1>4, <1>10, <1>12, EmitRuns
<1> QED
  BY <1>10, <1>13, RunsTransitive

\* An assignment ends in straight-line code.
LEMMA FinishAssignmentRuns ==
    ASSUME IndInv, IndInv', ShapeInv, FinishAssignment
    PROVE  RunStep
<1> DEFINE frame == Head(todo)
<1>1. /\ At("assign") /\ Continue(<<>>) /\ UNCHANGED module
      /\ function' = Assign(function, frame.arg, LastInstr(function), frame.ids[1])
  BY DEF FinishAssignment, unit
<1>2. /\ InFunction /\ function \in FunctionType
      /\ frame.ids[1] \in NPos .. LastInstr(function)
  BY <1>1, AtFacts DEF FrameOK, IndInv, TypeOK
<1>3. LastInstr(function) \in NPos .. LastInstr(function)
  BY <1>2, FunctionFields DEF LastInstr, NPos
<1>4. Runs(function, function')
  BY <1>1, <1>2, <1>3, AssignRuns DEF ShapeInv, Tidy
<1> QED
  BY <1>1, <1>2, <1>4, AtOther, NoFrames, ContinueShifts DEF RunStep

\* Every expression handler runs on or ends the process.
LEMMA ExpressionsRun ==
    ASSUME IndInv, IndInv', ShapeInv, Expressions
    PROVE  RunStep \/ UNCHANGED <<function, module, todo>>
<1>1. CASE EvaluateAsRValue
  BY <1>1, EvaluateAsRValueRuns
<1>2. CASE EvaluateAsRValueThrows \/ UntypedOperand \/ \E n \in Names : IdentifierThrows(n)
  BY <1>2 DEF EvaluateAsRValueThrows, UntypedOperand, IdentifierThrows, Stop, unit
<1>3. CASE \E two \in BOOLEAN : ListExpression(two)
  BY <1>3, ListExpressionRuns
<1>4. CASE Parentheses
  BY <1>4, ParenthesesRuns
<1>5. CASE \E c \in Literals : PrimaryExpression(c)
  BY <1>5, PrimaryExpressionRuns
<1>6. CASE \E n \in Names : IdentifierExpression(n)
  BY <1>6, IdentifierExpressionRuns
<1>7. CASE \E t \in {"int", "double"} : UnhandledExpression(t)
  BY <1>7, UnhandledExpressionRuns
<1>8. CASE \E op \in Operators \cap BinaryOperator : BinaryExpression(op)
  BY <1>8, BinaryExpressionRuns
<1>9. CASE BinaryLhs \/ FinishBinary
  BY <1>9, BinaryLhsRuns, FinishBinaryRuns
<1>10. CASE \E op \in Operators \cap AssignmentOperator : AssignmentExpression(op)
  BY <1>10, AssignmentExpressionRuns
<1>11. CASE AssignmentLhs \/ FinishAssignment
  BY <1>11, AssignmentLhsRuns, FinishAssignmentRuns
<1> QED
  BY <1>1, <1>2, <1>3, <1>4, <1>5, <1>6, <1>7, <1>8, <1>9, <1>10, <1>11 DEF Expressions

-----------------------------------------------------------------------------
(* The declaration handlers run on *)

\* A step that leaves the call stack, or pushes one frame on it.
LEMMA PushOne ==
    ASSUME IndInv, NEW at, at \notin {"ifElse", "ifEnd"}, todo' = <<Frame(at)>> \o todo
    PROVE  \E d : Shifted(todo, todo', d)
BY OtherFrames, OneNoIf, PushShifts

\* An alloca is an instruction.
LEMMA AllocaWell ==
    ASSUME NEW type \in VarTypes
    PROVE  Alloca(type) \in LLVMInstruction /\ WellFormed(Alloca(type))
           /\ Alloca(type).opcode # "BR"
BY VarTypesAreTypes, ToLLVMType, NullaryWell DEF Alloca

\* Pushing a parameter and storing it is straight-line code.
LEMMA AddParameterRuns ==
    ASSUME NEW f, Well(f), NEW n \in Names, NEW g, g = AddParameter(f, n)
    PROVE  Runs(f, g)
<1> DEFINE h == [f EXCEPT !.params = Append(@, n)]
           v == Value("PARAM", Len(f.params))
           w == Value("INSTR", LastInstr(f))
           store == Instruction("STORE", "void", <<v, w>>)
<1>1. f \in FunctionType /\ Append(f.params, n) \in Seq(Names) /\ Len(f.params) \in Nat
  BY FunctionFields DEF Well
<1>2. h \in FunctionType /\ h.instructions = f.instructions /\ h.blocks = f.blocks
  BY <1>1 DEF FunctionType, LLVMFunction
<1>3. Runs(f, h) /\ Well(h)
  BY <1>2, SameCode DEF Runs
<1>4. v \in LLVMValueID /\ v.kind = "PARAM"
  BY <1>1 DEF Value, LLVMValueID, LLVMValueKind
<1>5. w \in LLVMValueID /\ w.kind = "INSTR"
  BY <1>1, LastOperand
<1>6. "STORE" \in LLVM!Operation /\ "void" \in LLVMType
  BY DEF LLVM!Operation, LLVMType
<1>7. g = EmitInstr(h, store)
  BY DEF AddParameter
<1> HIDE DEF h, v, w
<1>8. store \in LLVMInstruction /\ WellFormed(store) /\ store.opcode # "BR"
  BY <1>4, <1>5, <1>6, PairWell
<1> HIDE DEF store
<1>9. Runs(h, g)
  BY <1>3, <1>7, <1>8, EmitRuns
<1> QED
  BY <1>3, <1>9, RunsTransitive

\* A parameter is an alloca and a store, or with a pointer declarator a store.
LEMMA ParameterRuns ==
    ASSUME IndInv, ShapeInv, NEW n \in Names,
           (n \in VarNames /\ \E type \in VarTypes : ParameterIdentifier(n, type))
           \/ ParameterPointer(n)
    PROVE  RunStep
<1>1. /\ InFunction /\ Well(function) /\ UNCHANGED <<todo, module>>
  BY AtOther DEF ParameterIdentifier, ParameterPointer, ShapeInv, Tidy, unit
<1>2. Runs(function, function')
  <2>1. ASSUME NEW type \in VarTypes, ParameterIdentifier(n, type) PROVE Runs(function, function')
    <3> DEFINE f == EmitInstr(function, Alloca(type))
    <3>1. function' = AddParameter(f, n)
      BY <2>1 DEF ParameterIdentifier
    <3>2. Runs(function, f) /\ Well(f)
      BY <1>1, AllocaWell, EmitRuns DEF Runs
    <3> HIDE DEF f
    <3>3. Runs(f, function')
      BY <3>1, <3>2, AddParameterRuns
    <3> QED
      BY <3>2, <3>3, RunsTransitive
  <2>2. ASSUME ParameterPointer(n) PROVE Runs(function, function')
    BY <1>1, <2>2, AddParameterRuns DEF ParameterPointer
  <2> QED
    BY <2>1, <2>2
<1> QED
  BY <1>1, <1>2, SameShifts DEF RunStep

\* A local variable is an alloca.
LEMMA LocalRuns ==
    ASSUME IndInv, ShapeInv, NEW n, NEW type \in VarTypes,
           LocalIdentifier(n, type) \/ LocalInitialised(n, type)
    PROVE  RunStep
<1>1. /\ InFunction /\ UNCHANGED module
      /\ function' = EmitInstr(function, Alloca(type))
      /\ UNCHANGED todo \/ todo' = <<Frame("init")>> \o todo
  BY AtOther DEF LocalIdentifier, LocalInitialised, unit
<1>2. \E d : Shifted(todo, todo', d)
  BY <1>1, SameShifts, PushOne
<1> QED
  BY <1>1, <1>2, AllocaWell, OneEmitted

\* One with a pointer declarator is nothing.
LEMMA LocalPointerRuns ==
    ASSUME IndInv, ShapeInv, NEW n, LocalPointer(n) \/ PointerInitialised(n)
    PROVE  RunStep
<1>1. /\ InFunction /\ UNCHANGED <<function, module>>
      /\ UNCHANGED todo \/ todo' = <<Frame("init")>> \o todo
  BY AtOther DEF LocalPointer, PointerInitialised, unit
<1> QED
  BY <1>1, SameShifts, PushOne, NothingEmitted

\* A function declared in a block gives its name to the one it is in.
LEMMA LocalPrototypeRuns ==
    ASSUME IndInv, ShapeInv, NEW g \in FuncNames, LocalPrototype(g)
    PROVE  RunStep
<1>1. /\ InFunction /\ UNCHANGED module /\ todo' = <<Frame("params")>> \o todo
      /\ function' = [function EXCEPT !.name = g] /\ Well(function)
  BY AtOther DEF LocalPrototype, ShapeInv, Tidy, unit
<1>2. /\ function' \in FunctionType /\ function'.instructions = function.instructions
      /\ function'.blocks = function.blocks
  BY <1>1 DEF Well, FunctionType, LLVMFunction
<1>3. Runs(function, function')
  BY <1>1, <1>2, SameCode
<1> QED
  BY <1>1, <1>3, PushOne DEF RunStep

\* An initializer visits its expression, or the initializers in its braces.
LEMMA InitializerExpressionRuns ==
    ASSUME IndInv, IndInv', ShapeInv, InitializerExpression
    PROVE  RunStep
<1> DEFINE a == Child("expr", "unloaded")
           b == Frame("store")
<1>1. ~IsIf(a) /\ ~IsIf(b) /\ Continue(<<a, b>>)
  BY OtherFrames DEF InitializerExpression
<1> HIDE DEF a, b
<1> QED
  BY <1>1, TwoNoIfs, ContinueRuns DEF InitializerExpression, unit

\* visit(InitializerList).
LEMMA InitializerListRuns ==
    ASSUME IndInv, IndInv', ShapeInv, NEW two \in BOOLEAN, InitializerList(two)
    PROVE  RunStep
<1> DEFINE a == Frame("init")
           b == Frame("store")
           xs == IF two THEN <<a>> ELSE <<>>
           ys == <<a, b>>
<1>1. ~IsIf(a) /\ ~IsIf(b) /\ Continue(xs \o ys)
  BY OtherFrames DEF InitializerList
<1> HIDE DEF a, b
<1>2. NoIfs(xs) /\ NoIfs(ys)
  BY <1>1, NoFrames, OneNoIf, TwoNoIfs
<1> HIDE DEF xs, ys
<1> QED
  BY <1>1, <1>2, ConcatNoIfs, ContinueRuns DEF InitializerList, unit

\* ... and stores the last instruction.
LEMMA InitializerStoreRuns ==
    ASSUME IndInv, IndInv', ShapeInv, InitializerStore
    PROVE  RunStep
<1> DEFINE v == Value("INSTR", LastInstr(function))
           w == ResolveIdentifier(initialising)
           store == Instruction("STORE", "void", <<v, w>>)
<1>1. /\ At("store") /\ Resolvable(initialising) /\ Continue(<<>>) /\ UNCHANGED module
      /\ function' = EmitInstr(function, store)
  BY DEF InitializerStore, unit
<1>2. InFunction /\ function \in FunctionType
  BY <1>1, AtOther DEF IndInv, TypeOK
<1>3. v \in LLVMValueID /\ v.kind = "INSTR"
  BY <1>2, LastOperand
<1>4. w \in LLVMValueID /\ w.kind # "BLOCK"
  BY <1>1, <1>2, ResolvedOperand, ResolvedKind
<1>5. "STORE" \in LLVM!Operation /\ "void" \in LLVMType
  BY DEF LLVM!Operation, LLVMType
<1> HIDE DEF v, w
<1>6. store \in LLVMInstruction /\ WellFormed(store) /\ store.opcode # "BR"
  BY <1>3, <1>4, <1>5, PairWell
<1> HIDE DEF store
<1> QED
  BY <1>1, <1>6, ContinueEmits

\* Every declaration handler runs on or ends the process.
LEMMA DeclarationsRun ==
    ASSUME IndInv, IndInv', ShapeInv, Declarations
    PROVE  RunStep \/ UNCHANGED <<function, module, todo>>
<1>1. CASE \E n \in VarNames, t \in VarTypes : ParameterIdentifier(n, t)
  BY <1>1, ParameterRuns DEF Names
<1>2. CASE \E n \in VarNames, t \in VarTypes : LocalIdentifier(n, t) \/ LocalInitialised(n, t)
  BY <1>2, LocalRuns
<1>3. CASE \E n \in PtrNames : ParameterPointer(n)
  BY <1>3, ParameterRuns DEF Names
<1>4. CASE \E n \in PtrNames : LocalPointer(n) \/ PointerInitialised(n)
  BY <1>4, LocalPointerRuns
<1>5. CASE ParameterAbstract \/ InitializerThrows
  BY <1>5 DEF ParameterAbstract, InitializerThrows, Stop, unit
<1>6. CASE \E g \in FuncNames : LocalPrototype(g)
  BY <1>6, LocalPrototypeRuns
<1>7. CASE InitializerExpression
  BY <1>7, InitializerExpressionRuns
<1>8. CASE \E two \in BOOLEAN : InitializerList(two)
  BY <1>8, InitializerListRuns
<1>9. CASE InitializerStore
  BY <1>9, InitializerStoreRuns
<1>10. CASE EndList
  <2>1. \E place : place \notin {"ifElse", "ifEnd"} /\ At(place)
    BY <1>10 DEF EndList
  <2> QED
    BY <2>1, <1>10, NoFrames, ContinueRuns DEF EndList, unit
<1> QED
  BY <1>1, <1>2, <1>3, <1>4, <1>5, <1>6, <1>7, <1>8, <1>9, <1>10 DEF Declarations

-----------------------------------------------------------------------------
(* The other statement handlers run on *)

\* Statements that only visit their children.
LEMMA PlainStatementRuns ==
    ASSUME IndInv, IndInv', ShapeInv,
           NextStatement \/ CompoundStatement \/ EndCompound \/ ExpressionStatement
           \/ UnhandledStatement \/ IfStatement \/ ReturnExpression
    PROVE  RunStep
<1>1. CASE NextStatement
  <2>1. InFunction /\ UNCHANGED <<function, module>> /\ todo' = <<Frame("stmt")>> \o todo
    BY <1>1, AtOther DEF NextStatement, unit
  <2> QED
    BY <2>1, PushOne, NothingEmitted
<1>2. CASE CompoundStatement
  <2> DEFINE a == Frame("decls")
             b == Frame("stmts")
             c == Frame("endScope")
  <2>1. ~IsIf(a) /\ ~IsIf(b) /\ ~IsIf(c) /\ Continue(<<a, b, c>>)
    BY <1>2, OtherFrames DEF CompoundStatement
  <2> HIDE DEF a, b, c
  <2> QED
    BY <1>2, <2>1, ThreeNoIfs, ContinueRuns DEF CompoundStatement, unit
<1>3. CASE EndCompound
  BY <1>3, NoFrames, ContinueRuns DEF EndCompound, unit
<1>4. CASE ExpressionStatement
  <2> DEFINE a == Child("list", "discarded")
  <2>1. ~IsIf(a) /\ Continue(<<a>>)
    BY <1>4, OtherFrames DEF ExpressionStatement
  <2> HIDE DEF a
  <2> QED
    BY <1>4, <2>1, OneNoIf, ContinueRuns DEF ExpressionStatement, unit
<1>5. CASE UnhandledStatement
  BY <1>5, NoFrames, ContinueRuns DEF UnhandledStatement, unit
<1>6. CASE IfStatement
  <2> DEFINE a == Child("list", "unloaded")
             b == Frame("ifThen")
  <2>1. ~IsIf(a) /\ ~IsIf(b) /\ Continue(<<a, b>>)
    BY <1>6, OtherFrames DEF IfStatement
  <2> HIDE DEF a, b
  <2> QED
    BY <1>6, <2>1, TwoNoIfs, ContinueRuns DEF IfStatement, unit
<1>7. CASE ReturnExpression
  <2> DEFINE a == Child("list", "rvalue")
             b == Frame("rvalue")
             c == Frame("return")
  <2>1. ~IsIf(a) /\ ~IsIf(b) /\ ~IsIf(c) /\ Continue(<<a, b, c>>)
    BY <1>7, OtherFrames DEF ReturnExpression
  <2> HIDE DEF a, b, c
  <2> QED
    BY <1>7, <2>1, ThreeNoIfs, ContinueRuns DEF ReturnExpression, unit
<1> QED
  BY <1>1, <1>2, <1>3, <1>4, <1>5, <1>6, <1>7

\* A return is one instruction.
LEMMA ReturnRuns ==
    ASSUME IndInv, IndInv', ShapeInv, FinishReturn \/ ReturnVoid
    PROVE  RunStep
<1>1. CASE FinishReturn
  <2> DEFINE v == Value("INSTR", LastInstr(function))
             instr == Instruction("RET", toLLVMType(evaluated), <<v>>)
  <2>1. /\ At("return") /\ Continue(<<>>) /\ UNCHANGED module
        /\ function' = EmitInstr(function, instr)
    BY <1>1 DEF FinishReturn, unit
  <2>2. /\ v \in LLVMValueID /\ v.kind = "INSTR" /\ toLLVMType(evaluated) \in LLVMType
    BY LastOperand, ToLLVMType DEF IndInv, TypeOK
  <2> HIDE DEF v
  <2>3. instr \in LLVMInstruction /\ WellFormed(instr) /\ instr.opcode # "BR"
    BY <2>2, UnaryWell
  <2> HIDE DEF instr
  <2> QED
    BY <2>1, <2>3, ContinueEmits
<1>2. CASE ReturnVoid
  <2> DEFINE instr == Instruction("RET", "void", <<>>)
  <2>1. /\ At("stmt") /\ Continue(<<>>) /\ UNCHANGED module
        /\ function' = EmitInstr(function, instr) /\ "void" \in LLVMType
    BY <1>2 DEF ReturnVoid, unit, LLVMType
  <2>2. instr \in LLVMInstruction /\ WellFormed(instr) /\ instr.opcode # "BR"
    BY <2>1, NullaryWell
  <2> HIDE DEF instr
  <2> QED
    BY <2>1, <2>2, ContinueEmits
<1> QED
  BY <1>1, <1>2

-----------------------------------------------------------------------------
(* The if statement *)

\* The head of the stack, with a visit suspended behind it or not, and the
\* rest one place further up.
LEMMA HeadAndRest ==
    ASSUME NEW s \in Seq(FrameType), s # <<>>
    PROVE  /\ 1 \in DOMAIN s /\ Head(s) = s[1] /\ DOMAIN s = 1 .. Len(s)
           /\ Tail(s) \in Seq(FrameType) /\ DOMAIN Tail(s) = 1 .. Len(s) - 1
           /\ Len(s) \in Nat
           /\ \A j \in DOMAIN Tail(s) : j + 1 \in DOMAIN s /\ Tail(s)[j] = s[j + 1]
           /\ \A j \in DOMAIN s : j # 1 => j - 1 \in DOMAIN Tail(s) /\ Tail(s)[j - 1] = s[j]
<1>1. /\ Tail(s) \in Seq(FrameType) /\ Len(Tail(s)) = Len(s) - 1
      /\ \A j \in 1 .. Len(Tail(s)) : Tail(s)[j] = s[j + 1]
      /\ Head(s) = s[1] /\ Len(s) \in Nat /\ DOMAIN s = 1 .. Len(s) /\ Len(s) > 0
      /\ DOMAIN Tail(s) = 1 .. Len(Tail(s))
  BY HeadTailProperties
<1>2. ASSUME NEW j \in DOMAIN s, j # 1
      PROVE  j - 1 \in DOMAIN Tail(s) /\ Tail(s)[j - 1] = s[j]
  <2>1. j - 1 \in 1 .. Len(Tail(s)) /\ (j - 1) + 1 = j
    BY <1>1, <1>2
  <2> QED
    BY <1>1, <2>1
<1> QED
  BY <1>1, <1>2

\* Every id held by a suspended if statement is one of an instruction.
LEMMA HeldExist ==
    ASSUME NEW f, Well(f), NEW frame, IsIf(frame), IfFits(f, frame)
    PROVE  /\ HeldIDs(frame) \subseteq InstrIDs(f) /\ OpenIDs(frame) \subseteq HeldIDs(frame)
           /\ frame.ids[1] \in Nat /\ frame.ids[2] = frame.ids[1] + 1
<1>1. frame.ids[1] \in Nat /\ frame.ids[1] + 1 \in InstrIDs(f)
  BY SuspendedBranch DEF IfFits
<1> QED
  BY <1>1 DEF IfFits, HeldIDs, OpenIDs, IsIf

\* A suspended if statement still fits the function later.
LEMMA FitsLater ==
    ASSUME NEW f \in FunctionType, NEW g, Later(f, g), NEW frame, IfFits(f, frame)
    PROVE  IfFits(g, frame)
<1>1. \A i \in InstrIDs(f) :
        /\ i \in InstrIDs(g)
        /\ Instr(g, i).opcode = Instr(f, i).opcode
        /\ Len(Instr(g, i).operands) = Len(Instr(f, i).operands)
        /\ IsConditionalBranch(Instr(g, i)) <=> IsConditionalBranch(Instr(f, i))
        /\ Follows(g, i) <=> Follows(f, i)
  BY LaterKeeps DEF Later
<1> QED
  BY <1>1 DEF IfFits

\* Whether a suspended if statement of a stack has instruction i to patch.
OpenIn(frames, i) ==
    \E j \in DOMAIN frames : IsIf(frames[j]) /\ i \in OpenIDs(frames[j])
\* Whether the if statements of a stack hold only ids below those of frame.
Below(frames, frame) ==
    \A j \in DOMAIN frames :
        IsIf(frames[j]) => \A a \in HeldIDs(frame), b \in HeldIDs(frames[j]) : b < a

\* What a tidy stack says of its head and of the rest.
LEMMA RestTidy ==
    ASSUME NEW f, NEW s \in Seq(FrameType), s # <<>>, Tidy(f, s)
    PROVE  /\ IfsFit(f, Tail(s)) /\ Nested(Tail(s))
           /\ \A i \in InstrIDs(f) :
                Unpatched(f, i) <=>
                    (IsIf(Head(s)) /\ i \in OpenIDs(Head(s))) \/ OpenIn(Tail(s), i)
           /\ IsIf(Head(s)) => IfFits(f, Head(s)) /\ Below(Tail(s), Head(s))
           /\ \A j \in DOMAIN Tail(s) : IsIf(Tail(s)[j]) => HeldIDs(Tail(s)[j]) \subseteq InstrIDs(f)
           /\ \A i : OpenIn(Tail(s), i) => i \in InstrIDs(f)
<1> DEFINE r == Tail(s)
           h == Head(s)
<1>1. /\ 1 \in DOMAIN s /\ h = s[1] /\ DOMAIN s = 1 .. Len(s) /\ Len(s) \in Nat
      /\ r \in Seq(FrameType) /\ DOMAIN r = 1 .. Len(s) - 1
      /\ \A j \in DOMAIN r : j + 1 \in DOMAIN s /\ r[j] = s[j + 1]
      /\ \A j \in DOMAIN s : j # 1 => j - 1 \in DOMAIN r /\ r[j - 1] = s[j]
  BY HeadAndRest
<1> HIDE DEF r, h
<1>2. IfsFit(f, r)
  BY <1>1 DEF Tidy, IfsFit
<1>3. Nested(r)
  <2>1. SUFFICES ASSUME NEW j \in DOMAIN r, NEW k \in DOMAIN r, j < k, IsIf(r[j]), IsIf(r[k]),
                        NEW a \in HeldIDs(r[j]), NEW b \in HeldIDs(r[k])
                 PROVE  b < a
    BY DEF Nested
  <2>2. /\ j + 1 \in DOMAIN s /\ k + 1 \in DOMAIN s /\ j + 1 < k + 1
        /\ s[j + 1] = r[j] /\ s[k + 1] = r[k]
    BY <1>1, <2>1
  <2> QED
    BY <2>1, <2>2 DEF Tidy, Nested
<1>4. ASSUME NEW i \in InstrIDs(f)
      PROVE  Unpatched(f, i) <=> (IsIf(h) /\ i \in OpenIDs(h)) \/ OpenIn(r, i)
  <2>1. Unpatched(f, i) <=> \E j \in DOMAIN s : IsIf(s[j]) /\ i \in OpenIDs(s[j])
    BY DEF Tidy, Owned
  <2>2. (\E j \in DOMAIN s : IsIf(s[j]) /\ i \in OpenIDs(s[j])) <=>
          (IsIf(h) /\ i \in OpenIDs(h)) \/ \E j \in DOMAIN r : IsIf(r[j]) /\ i \in OpenIDs(r[j])
    BY <1>1
  <2> QED
    BY <2>1, <2>2 DEF OpenIn
<1>5. ASSUME IsIf(h) PROVE IfFits(f, h) /\ Below(r, h)
  <2>1. IfFits(f, h)
    BY <1>1, <1>5 DEF Tidy, IfsFit
  <2>2. ASSUME NEW j \in DOMAIN r, IsIf(r[j]), NEW a \in HeldIDs(h), NEW b \in HeldIDs(r[j])
        PROVE  b < a
    <3>1. j + 1 \in DOMAIN s /\ s[j + 1] = r[j] /\ 1 < j + 1
      BY <1>1
    <3> QED
      BY <1>1, <1>5, <2>2, <3>1 DEF Tidy, Nested
  <2> QED
    BY <2>1, <2>2 DEF Below
<1>6. ASSUME NEW j \in DOMAIN r, IsIf(r[j])
      PROVE  HeldIDs(r[j]) \subseteq InstrIDs(f) /\ OpenIDs(r[j]) \subseteq InstrIDs(f)
  BY <1>2, <1>6, HeldExist DEF IfsFit, Tidy
<1>7. ASSUME NEW i, OpenIn(r, i) PROVE i \in InstrIDs(f)
  BY <1>6, <1>7 DEF OpenIn
<1> QED
  BY <1>2, <1>3, <1>4, <1>5, <1>6, <1>7 DEF r, h

\* Suspending an if statement in its branch, above older ones.
LEMMA PushTidy ==
    ASSUME NEW g, Well(g), NEW r \in Seq(FrameType), IfsFit(g, r), Nested(r),
           NEW a \in FrameType, ~IsIf(a), NEW x \in FrameType, IsIf(x),
           IfFits(g, x), Below(r, x),
           \A i \in InstrIDs(g) : Unpatched(g, i) <=> i \in OpenIDs(x) \/ OpenIn(r, i)
    PROVE  Tidy(g, <<a, x>> \o r)
<1> DEFINE t == <<a, x>> \o r
<1>1. /\ t \in Seq(FrameType) /\ Len(t) = 2 + Len(r) /\ Len(r) \in Nat
      /\ DOMAIN t = 1 .. Len(t) /\ DOMAIN r = 1 .. Len(r)
      /\ t[1] = a /\ t[2] = x
      /\ \A j \in DOMAIN t : j > 2 => j - 2 \in DOMAIN r /\ t[j] = r[j - 2]
      /\ \A j \in DOMAIN r : j + 2 \in DOMAIN t /\ t[j + 2] = r[j]
  <2> DEFINE front == <<a, x>>
  <2>1. front \in Seq(FrameType) /\ Len(front) = 2 /\ front[1] = a /\ front[2] = x
    OBVIOUS
  <2>2. t = front \o r
    OBVIOUS
  <2> HIDE DEF front, t
  <2>3. /\ t \in Seq(FrameType) /\ Len(t) = Len(front) + Len(r)
        /\ \A i \in 1 .. Len(front) + Len(r) :
             t[i] = IF i <= Len(front) THEN front[i] ELSE r[i - Len(front)]
    BY <2>1, <2>2, ConcatProperties
  <2> QED
    BY <2>1, <2>3
<1> HIDE DEF t
<1>2. \A j \in DOMAIN t : IsIf(t[j]) => j >= 2
  <2>1. ASSUME NEW j \in DOMAIN t, IsIf(t[j]) PROVE j >= 2
    <3>1. j # 1
      BY <1>1, <2>1
    <3> QED
      BY <1>1, <3>1
  <2> QED
    BY <2>1
<1>3. IfsFit(g, t)
  <2>1. ASSUME NEW j \in DOMAIN t, IsIf(t[j]) PROVE IfFits(g, t[j])
    BY <1>1, <1>2, <2>1 DEF IfsFit
  <2> QED
    BY <2>1 DEF IfsFit
<1>4. \A i : (\E j \in DOMAIN t : IsIf(t[j]) /\ i \in OpenIDs(t[j])) <=>
                 i \in OpenIDs(x) \/ OpenIn(r, i)
  <2>1. 2 \in DOMAIN t
    BY <1>1
  <2>2. ASSUME NEW i, NEW j \in DOMAIN t, IsIf(t[j]), i \in OpenIDs(t[j])
        PROVE  i \in OpenIDs(x) \/ OpenIn(r, i)
    <3>1. CASE j = 2
      BY <1>1, <2>2, <3>1
    <3>2. CASE j # 2
      <4>1. j - 2 \in DOMAIN r /\ t[j] = r[j - 2]
        BY <1>1, <1>2, <2>2, <3>2
      <4> QED
        BY <2>2, <4>1 DEF OpenIn
    <3> QED
      BY <3>1, <3>2
  <2>3. ASSUME NEW i, i \in OpenIDs(x) \/ OpenIn(r, i)
        PROVE  \E j \in DOMAIN t : IsIf(t[j]) /\ i \in OpenIDs(t[j])
    BY <1>1, <2>1, <2>3 DEF OpenIn
  <2> QED
    BY <2>2, <2>3
<1>5. Owned(g, t)
  BY <1>4 DEF Owned
<1>6. Nested(t)
  <2>1. SUFFICES ASSUME NEW j \in DOMAIN t, NEW k \in DOMAIN t, j < k, IsIf(t[j]), IsIf(t[k]),
                        NEW c \in HeldIDs(t[j]), NEW b \in HeldIDs(t[k])
                 PROVE  b < c
    BY DEF Nested
  <2>2. j >= 2 /\ k > 2 /\ k - 2 \in DOMAIN r /\ t[k] = r[k - 2]
    BY <1>1, <1>2, <2>1
  <2>3. CASE j = 2
    BY <1>1, <2>1, <2>2, <2>3 DEF Below
  <2>4. CASE j # 2
    <3>1. j - 2 \in DOMAIN r /\ t[j] = r[j - 2] /\ j - 2 < k - 2
      BY <1>1, <2>1, <2>2, <2>4
    <3> QED
      BY <2>1, <2>2, <3>1 DEF Nested
  <2> QED
    BY <2>3, <2>4
<1>7. Tidy(g, t)
  BY <1>3, <1>5, <1>6 DEF Tidy
<1> QED
  BY <1>7 DEF t

\* An if statement whose condition has been visited.
LEMMA IfThenKeeps ==
    ASSUME IndInv, IndInv', ShapeInv, IfThen
    PROVE  Keeps
<1> DEFINE n == Len(function.instructions)
           r == Tail(todo)
           ids == <<n, n + 1>>
           a == Frame("stmt")
           x == Resume("ifElse", "", "void", ids)
<1>1. /\ InFunction /\ todo # <<>> /\ todo \in Seq(FrameType) /\ ~IsIf(Head(todo))
      /\ Tidy(function, todo) /\ Well(function)
  BY AtOther, AtFacts DEF IfThen, ShapeInv, Tidy
<1>2. function' = StartIf(function) /\ Continue(<<a, x>>) /\ UNCHANGED module
  BY DEF IfThen, unit
<1>3. /\ Well(function') /\ Later(function, function')
      /\ n \in Nat /\ n \notin InstrIDs(function) /\ n + 1 \notin InstrIDs(function)
      /\ InstrIDs(function') = InstrIDs(function) \cup {n, n + 1}
      /\ \A i \in InstrIDs(function) : Instr(function', i) = Instr(function, i)
      /\ IsConditionalBranch(Instr(function', n))
      /\ Unpatched(function', n) /\ Unpatched(function', n + 1)
  BY <1>1, <1>2, StartIfWell
<1>4. /\ IfsFit(function, r) /\ Nested(r) /\ r \in Seq(FrameType)
      /\ \A i \in InstrIDs(function) : Unpatched(function, i) <=> OpenIn(r, i)
      /\ \A j \in DOMAIN r : IsIf(r[j]) => HeldIDs(r[j]) \subseteq InstrIDs(function)
      /\ \A i : OpenIn(r, i) => i \in InstrIDs(function)
  BY <1>1, RestTidy, HeadAndRest
<1>5. \A i \in InstrIDs(function) : i \in Nat /\ i < n
  BY <1>1, LastBlockIn DEF Well
<1>6. ids \in Seq(Nat \cup {NPos}) /\ ids[1] = n /\ ids[2] = n + 1
  BY <1>3
<1>7. "ifElse" \in Place /\ "" \in FrameArg /\ "void" \in CType
  BY DEF Place, FrameArg, CType
<1> HIDE DEF n, r, ids
<1>8. a \in FrameType /\ ~IsIf(a)
  BY PlainFrame, OtherFrames
<1>9. x \in FrameType /\ IsIf(x) /\ x.at = "ifElse" /\ x.ids = ids
  BY <1>6, <1>7, ResumeType DEF Resume, IsIf
<1> HIDE DEF a, x
<1>10. HeldIDs(x) = {n, n + 1} /\ OpenIDs(x) = {n, n + 1} /\ IfFits(function', x)
  BY <1>3, <1>6, <1>9 DEF HeldIDs, OpenIDs, IfFits
<1>11. Below(r, x)
  <2>1. ASSUME NEW j \in DOMAIN r, IsIf(r[j]), NEW c \in HeldIDs(x), NEW b \in HeldIDs(r[j])
        PROVE  b < c
    BY <1>3, <1>4, <1>5, <1>10, <2>1
  <2> QED
    BY <2>1 DEF Below
<1>12. IfsFit(function', r)
  BY <1>1, <1>3, <1>4, FitsLater DEF IfsFit, Well
<1>13. \A i \in InstrIDs(function') :
         Unpatched(function', i) <=> i \in OpenIDs(x) \/ OpenIn(r, i)
  <2>1. \A i \in InstrIDs(function) : Unpatched(function', i) <=> Unpatched(function, i)
    BY <1>3 DEF Unpatched
  <2> QED
    BY <2>1, <1>3, <1>4, <1>10
<1>14. Tidy(function', <<a, x>> \o r)
  BY <1>3, <1>4, <1>8, <1>9, <1>10, <1>11, <1>12, <1>13, PushTidy
<1>15. Tidy(function', todo')
  BY <1>2, <1>14 DEF Continue, r
<1> QED
  BY <1>2, <1>3, <1>15 DEF ShapeInv, Keeps

\* What a suspended if statement at the head is about to patch.
LEMMA HeadIf ==
    ASSUME IndInv, ShapeInv, At("ifElse") \/ At("ifEnd")
    PROVE  LET ids == Head(todo).ids
               f   == function
           IN /\ InFunction /\ todo # <<>> /\ todo \in Seq(FrameType) /\ Tail(todo) \in Seq(FrameType)
              /\ Well(f) /\ IfsFit(f, Tail(todo)) /\ Nested(Tail(todo))
              /\ IsIf(Head(todo)) /\ IfFits(f, Head(todo)) /\ Below(Tail(todo), Head(todo))
              /\ ids[1] \in InstrIDs(f) /\ IsConditionalBranch(Instr(f, ids[1]))
              /\ ids[2] = ids[1] + 1 /\ ids[2] \in InstrIDs(f) /\ ids[1] \in Nat
              /\ HeldIDs(Head(todo)) \subseteq InstrIDs(f)
              /\ \A i \in InstrIDs(f) :
                   Unpatched(f, i) <=> i \in OpenIDs(Head(todo)) \/ OpenIn(Tail(todo), i)
              /\ \A i : OpenIn(Tail(todo), i) =>
                   i \in InstrIDs(f) /\ \A a \in HeldIDs(Head(todo)) : i < a
              /\ \A j \in DOMAIN Tail(todo) :
                   IsIf(Tail(todo)[j]) => HeldIDs(Tail(todo)[j]) \subseteq InstrIDs(f)
<1> DEFINE h == Head(todo)
           r == Tail(todo)
<1>1. /\ InFunction /\ todo # <<>> /\ todo \in Seq(FrameType) /\ IsIf(h)
      /\ Tidy(function, todo) /\ Well(function)
  BY AtFacts DEF ShapeInv, Tidy, IsIf
<1>2. /\ r \in Seq(FrameType)
      /\ IfsFit(function, r) /\ Nested(r) /\ IfFits(function, h) /\ Below(r, h)
      /\ \A i \in InstrIDs(function) :
           Unpatched(function, i) <=> i \in OpenIDs(h) \/ OpenIn(r, i)
      /\ \A j \in DOMAIN r : IsIf(r[j]) => HeldIDs(r[j]) \subseteq InstrIDs(function)
      /\ \A i : OpenIn(r, i) => i \in InstrIDs(function)
  BY <1>1, RestTidy, HeadAndRest
<1> HIDE DEF h, r
<1>3. HeldIDs(h) \subseteq InstrIDs(function) /\ h.ids[2] \in HeldIDs(h)
  BY <1>1, <1>2, HeldExist DEF HeldIDs
<1>4. /\ h.ids[1] \in InstrIDs(function) /\ IsConditionalBranch(Instr(function, h.ids[1]))
      /\ h.ids[2] = h.ids[1] + 1 /\ h.ids[2] \in InstrIDs(function) /\ h.ids[1] \in Nat
  BY <1>1, <1>2, <1>3, HeldExist DEF IfFits
<1>5. ASSUME NEW i, OpenIn(r, i), NEW a \in HeldIDs(h) PROVE i < a
  <2>1. PICK j \in DOMAIN r : IsIf(r[j]) /\ i \in OpenIDs(r[j])
    BY <1>5 DEF OpenIn
  <2>2. i \in HeldIDs(r[j])
    BY <2>1 DEF OpenIDs, HeldIDs
  <2> QED
    BY <1>2, <1>5, <2>1, <2>2 DEF Below
<1> QED
  BY <1>1, <1>2, <1>3, <1>4, <1>5 DEF h, r

\* It enters its else branch: a jump at the end of the first one.
LEMMA IfElseKeeps ==
    ASSUME IndInv, IndInv', ShapeInv, IfElse
    PROVE  Keeps
<1> DEFINE h == Head(todo)
           c == h.ids[1]
           r == Tail(todo)
           n == Len(function.instructions)
           f == EmitInstr(function, JumpEnd)
           ids == Append(h.ids, n)
           a == Frame("stmt")
           x == Resume("ifEnd", "", "void", ids)
<1>1. /\ At("ifElse") /\ h.at = "ifElse"
      /\ function' = StartElse(f, c) /\ Continue(<<a, x>>) /\ UNCHANGED module
  BY DEF IfElse, unit, At
<1>2. /\ InFunction /\ r \in Seq(FrameType)
      /\ Well(function) /\ IfsFit(function, r) /\ Nested(r) /\ Below(r, h)
      /\ c \in InstrIDs(function) /\ IsConditionalBranch(Instr(function, c))
      /\ h.ids[2] = c + 1 /\ c + 1 \in InstrIDs(function) /\ c \in Nat
      /\ \A i \in InstrIDs(function) :
           Unpatched(function, i) <=> i \in OpenIDs(h) \/ OpenIn(r, i)
      /\ \A i : OpenIn(r, i) => i \in InstrIDs(function) /\ \A b \in HeldIDs(h) : i < b
      /\ \A j \in DOMAIN r : IsIf(r[j]) => HeldIDs(r[j]) \subseteq InstrIDs(function)
  BY <1>1, HeadIf
<1>3. h.ids \in Seq(Nat \cup {NPos}) /\ Len(h.ids) = 2
  BY <1>1, SuspendedIf
<1>4. OpenIDs(h) = {c, c + 1} /\ HeldIDs(h) = {c, c + 1}
  BY <1>1, <1>2 DEF OpenIDs, HeldIDs
<1>5. /\ Well(f) /\ Later(function, f)
      /\ InstrIDs(f) = InstrIDs(function) \cup {n}
      /\ n \in Nat /\ n \notin InstrIDs(function)
      /\ \A i \in InstrIDs(function) : Instr(f, i) = Instr(function, i)
      /\ Instr(f, n) = JumpEnd /\ ~Follows(f, n) /\ Unpatched(f, n)
  BY <1>2, EmitJumpWell
<1>6. \A i \in InstrIDs(function) : i \in Nat /\ i < n
  BY <1>2, LastBlockIn DEF Well
<1>7. /\ ids \in Seq(Nat \cup {NPos}) /\ Len(ids) = 3
      /\ ids[1] = c /\ ids[2] = c + 1 /\ ids[3] = n
  BY <1>2, <1>3, <1>5, AppendThird
<1>8. "ifEnd" \in Place /\ "" \in FrameArg /\ "void" \in CType
  BY DEF Place, FrameArg, CType
<1> HIDE DEF h, c, r, n, f, ids
<1>9. a \in FrameType /\ ~IsIf(a)
  BY PlainFrame, OtherFrames
<1>10. x \in FrameType /\ IsIf(x) /\ x.at = "ifEnd" /\ x.ids = ids
  BY <1>7, <1>8, ResumeType DEF Resume, IsIf
<1> HIDE DEF a, x
<1>11. \A i \in InstrIDs(function) : Unpatched(f, i) <=> Unpatched(function, i)
  BY <1>5 DEF Unpatched
<1>12. c \in InstrIDs(f) /\ IsConditionalBranch(Instr(f, c)) /\ Unpatched(f, c)
  BY <1>2, <1>4, <1>5, <1>11
<1>13. /\ Well(function') /\ Later(f, function') /\ InstrIDs(function') = InstrIDs(f)
       /\ \A i \in InstrIDs(f) : i # c => Instr(function', i).operands = Instr(f, i).operands
       /\ ~Unpatched(function', c)
  BY <1>1, <1>5, <1>12, StartElseWell
<1>14. Later(function, function')
  BY <1>5, <1>13, LaterTransitive
<1>15. HeldIDs(x) = {c, c + 1, n} /\ OpenIDs(x) = {c + 1, n}
  BY <1>7, <1>10 DEF HeldIDs, OpenIDs
<1>16. IfFits(function', x)
  <2>1. IsConditionalBranch(Instr(function', c)) /\ ~Follows(function', n)
    BY <1>2, <1>5, <1>12, <1>13, LaterKeeps DEF Well
  <2>2. Instr(function', n).opcode = "BR" /\ Len(Instr(function', n).operands) = 1
    BY <1>5, <1>13, JumpEndFields DEF Later
  <2> QED
    BY <2>1, <2>2, <1>5, <1>7, <1>10, <1>12, <1>13 DEF IfFits
<1>17. Below(r, x)
  <2>1. ASSUME NEW j \in DOMAIN r, IsIf(r[j]), NEW d \in HeldIDs(x), NEW b \in HeldIDs(r[j])
        PROVE  b < d
    <3>1. d \in {c, c + 1} \/ d = n
      BY <1>15
    <3> QED
      BY <3>1, <2>1, <1>2, <1>4, <1>6 DEF Below
  <2> QED
    BY <2>1 DEF Below
<1>18. IfsFit(function', r)
  BY <1>2, <1>14, FitsLater DEF IfsFit, Well
<1>19. ASSUME NEW i \in InstrIDs(function')
       PROVE  Unpatched(function', i) <=> i \in OpenIDs(x) \/ OpenIn(r, i)
  <2>1. CASE i = c
    <3>1. ~OpenIn(r, i)
      BY <2>1, <1>2, <1>4
    <3> QED
      BY <2>1, <3>1, <1>2, <1>5, <1>6, <1>13, <1>15
  <2>2. CASE i # c
    <3>1. Unpatched(function', i) <=> Unpatched(f, i)
      BY <2>2, <1>13 DEF Unpatched
    <3>2. i \in InstrIDs(function) \/ i = n
      BY <1>5, <1>13
    <3> QED
      BY <2>2, <3>1, <3>2, <1>2, <1>4, <1>5, <1>11, <1>15
  <2> QED
    BY <2>1, <2>2
<1>20. Tidy(function', <<a, x>> \o r)
  BY <1>2, <1>9, <1>10, <1>13, <1>16, <1>17, <1>18, <1>19, PushTidy
<1>21. Tidy(function', todo')
  BY <1>1, <1>20 DEF Continue, r
<1> QED
  BY <1>1, <1>14, <1>21 DEF ShapeInv, Keeps

\* The join of an if statement whose end jump is instruction e of f: f is the
\* function before the join block, with the rest of the stack owning the rest.
LEMMA JoinTidy ==
    ASSUME NEW f, Well(f), NEW r \in Seq(FrameType), IfsFit(f, r), Nested(r),
           NEW c \in InstrIDs(f), IsConditionalBranch(Instr(f, c)), Unpatched(f, c + 1),
           NEW e \in InstrIDs(f), Instr(f, e).opcode = "BR", Len(Instr(f, e).operands) = 1,
           ~Follows(f, e), Unpatched(f, e),
           \A i \in InstrIDs(f) : i \notin {c, c + 1, e} => (Unpatched(f, i) <=> OpenIn(r, i)),
           \A i \in {c, c + 1, e} : ~OpenIn(r, i),
           NEW g, g = EndIf(f, c, c + 1, e)
    PROVE  Tidy(g, r) /\ Later(f, g)
<1>1. /\ Well(g) /\ Later(f, g) /\ InstrIDs(g) = InstrIDs(f)
      /\ \A i \in InstrIDs(f) : i \notin {c, c + 1, e} =>
           Instr(g, i).operands = Instr(f, i).operands
      /\ ~Unpatched(g, c) /\ ~Unpatched(g, c + 1) /\ ~Unpatched(g, e)
  BY EndIfWell
<1>2. IfsFit(g, r)
  BY <1>1, FitsLater DEF IfsFit, Well
<1>3. ASSUME NEW i \in InstrIDs(g) PROVE Unpatched(g, i) <=> OpenIn(r, i)
  <2>1. CASE i \in {c, c + 1, e}
    BY <2>1, <1>1
  <2>2. CASE i \notin {c, c + 1, e}
    BY <2>2, <1>1 DEF Unpatched
  <2> QED
    BY <2>1, <2>2
<1>4. Owned(g, r)
  BY <1>3 DEF Owned, OpenIn
<1> QED
  BY <1>1, <1>2, <1>4 DEF Tidy

\* An if statement without an else part: its end jump, then the join.
LEMMA IfWithoutElseKeeps ==
    ASSUME IndInv, IndInv', ShapeInv, IfWithoutElse
    PROVE  Keeps
<1> DEFINE h == Head(todo)
           c == h.ids[1]
           r == Tail(todo)
           n == Len(function.instructions)
           f == EmitInstr(function, JumpEnd)
<1>1. /\ At("ifElse") /\ h.at = "ifElse" /\ Continue(<<>>) /\ UNCHANGED module
      /\ function' = EndIf(f, c, h.ids[2], n)
  BY DEF IfWithoutElse, unit, At
<1>2. /\ InFunction /\ r \in Seq(FrameType)
      /\ Well(function) /\ IfsFit(function, r) /\ Nested(r)
      /\ c \in InstrIDs(function) /\ IsConditionalBranch(Instr(function, c))
      /\ h.ids[2] = c + 1 /\ c + 1 \in InstrIDs(function) /\ c \in Nat
      /\ \A i \in InstrIDs(function) :
           Unpatched(function, i) <=> i \in OpenIDs(h) \/ OpenIn(r, i)
      /\ \A i : OpenIn(r, i) => i \in InstrIDs(function) /\ \A b \in HeldIDs(h) : i < b
  BY <1>1, HeadIf
<1>3. OpenIDs(h) = {c, c + 1} /\ HeldIDs(h) = {c, c + 1}
  BY <1>1, <1>2 DEF OpenIDs, HeldIDs
<1>4. /\ Well(f) /\ Later(function, f)
      /\ InstrIDs(f) = InstrIDs(function) \cup {n}
      /\ n \in Nat /\ n \notin InstrIDs(function)
      /\ \A i \in InstrIDs(function) : Instr(f, i) = Instr(function, i)
      /\ Instr(f, n) = JumpEnd /\ ~Follows(f, n) /\ Unpatched(f, n)
  BY <1>2, EmitJumpWell
<1>5. todo' = r
  BY <1>1, <1>2 DEF Continue, r
<1> HIDE DEF h, c, r, n, f
<1>6. \A i \in InstrIDs(function) : Unpatched(f, i) <=> Unpatched(function, i)
  BY <1>4 DEF Unpatched
<1>7. /\ IfsFit(f, r) /\ c \in InstrIDs(f) /\ IsConditionalBranch(Instr(f, c))
      /\ Unpatched(f, c + 1) /\ n \in InstrIDs(f)
      /\ Instr(f, n).opcode = "BR" /\ Len(Instr(f, n).operands) = 1
  BY <1>2, <1>3, <1>4, <1>6, FitsLater, JumpEndFields DEF IfsFit, Well
<1>8. \A i \in {c, c + 1, n} : ~OpenIn(r, i)
  <2>1. ~OpenIn(r, c) /\ ~OpenIn(r, c + 1)
    <3>1. c \in HeldIDs(h) /\ c + 1 \in HeldIDs(h) /\ ~(c < c) /\ ~(c + 1 < c + 1)
      BY <1>2, <1>3
    <3> QED
      BY <3>1, <1>2
  <2>2. ~OpenIn(r, n)
    BY <1>2, <1>4
  <2> QED
    BY <2>1, <2>2
<1>9. \A i \in InstrIDs(f) : i \notin {c, c + 1, n} => (Unpatched(f, i) <=> OpenIn(r, i))
  BY <1>2, <1>3, <1>4, <1>6
<1>10. function' = EndIf(f, c, c + 1, n)
  BY <1>1, <1>2
<1>11. Tidy(function', r) /\ Later(f, function')
  BY <1>2, <1>4, <1>7, <1>8, <1>9, <1>10, JoinTidy
<1>12. Later(function, function')
  BY <1>4, <1>11, LaterTransitive
<1> QED
  BY <1>1, <1>5, <1>11, <1>12 DEF ShapeInv, Keeps

\* The end of an if statement with an else part.
LEMMA IfEndKeeps ==
    ASSUME IndInv, IndInv', ShapeInv, IfEnd
    PROVE  Keeps
<1> DEFINE h == Head(todo)
           c == h.ids[1]
           e == h.ids[3]
           r == Tail(todo)
           f == function
<1>1. /\ At("ifEnd") /\ h.at = "ifEnd" /\ Continue(<<>>) /\ UNCHANGED module
      /\ function' = EndIf(f, c, h.ids[2], e)
  BY DEF IfEnd, unit, At
<1>2. /\ InFunction /\ r \in Seq(FrameType)
      /\ Well(f) /\ IfsFit(f, r) /\ Nested(r) /\ IfFits(f, h)
      /\ c \in InstrIDs(f) /\ IsConditionalBranch(Instr(f, c))
      /\ h.ids[2] = c + 1 /\ c + 1 \in InstrIDs(f) /\ c \in Nat
      /\ \A i \in InstrIDs(f) :
           Unpatched(f, i) <=> i \in OpenIDs(h) \/ OpenIn(r, i)
      /\ \A i : OpenIn(r, i) => i \in InstrIDs(f) /\ \A b \in HeldIDs(h) : i < b
  BY <1>1, HeadIf
<1>3. OpenIDs(h) = {c + 1, e} /\ HeldIDs(h) = {c, c + 1, e}
  BY <1>1, <1>2 DEF OpenIDs, HeldIDs
<1>4. /\ e \in InstrIDs(f) /\ Instr(f, e).opcode = "BR"
      /\ Len(Instr(f, e).operands) = 1 /\ ~Follows(f, e)
  BY <1>1, <1>2 DEF IfFits
<1>5. todo' = r
  BY <1>1, <1>2 DEF Continue, r
<1>6. e \in Nat
  BY <1>2, <1>4, LastBlockIn DEF Well
<1> HIDE DEF h, c, e, r
<1>7. \A i \in {c, c + 1, e} : ~OpenIn(r, i)
  <2>1. /\ c \in HeldIDs(h) /\ c + 1 \in HeldIDs(h) /\ e \in HeldIDs(h)
        /\ ~(c < c) /\ ~(c + 1 < c + 1) /\ ~(e < e)
    BY <1>2, <1>3, <1>6
  <2> QED
    BY <2>1, <1>2
<1>8. \A i \in InstrIDs(f) : i \notin {c, c + 1, e} => (Unpatched(f, i) <=> OpenIn(r, i))
  BY <1>2, <1>3
<1>9. function' = EndIf(f, c, c + 1, e) /\ Unpatched(f, c + 1) /\ Unpatched(f, e)
  BY <1>1, <1>2, <1>3, <1>4
<1>10. Tidy(function', r) /\ Later(f, function')
  BY <1>2, <1>4, <1>7, <1>8, <1>9, JoinTidy
<1> QED
  BY <1>1, <1>5, <1>10 DEF ShapeInv, Keeps

\* Every statement handler keeps the shape.
LEMMA StatementsKeep ==
    ASSUME IndInv, IndInv', ShapeInv, Statements
    PROVE  RunStep \/ UNCHANGED <<function, module, todo>> \/ Keeps
<1>1. CASE NextStatement \/ CompoundStatement \/ EndCompound \/ ExpressionStatement
           \/ UnhandledStatement \/ IfStatement \/ ReturnExpression
  BY <1>1, PlainStatementRuns
<1>2. CASE FinishReturn \/ ReturnVoid
  BY <1>2, ReturnRuns
<1>3. CASE EmptyStatement
  BY <1>3 DEF EmptyStatement, Stop, unit
<1>4. CASE IfThen \/ IfElse \/ IfWithoutElse \/ IfEnd
  BY <1>4, IfThenKeeps, IfElseKeeps, IfWithoutElseKeeps, IfEndKeeps
<1> QED
  BY <1>1, <1>2, <1>3, <1>4 DEF Statements

-----------------------------------------------------------------------------
(* Functions begin and end *)

\* A function that has its entry block only.
LEMMA NewFunctionWell ==
    ASSUME NEW name \in FuncNames \cup {NoFunctionName},
           NEW f, f = NewFunction \/ f = [NewFunction EXCEPT !.name = name]
    PROVE  Well(f) /\ InstrIDs(f) = {}
<1> DEFINE block == [label |-> [role |-> "entry", id |-> 0], instrIDs |-> <<>>]
<1>1. NewFunction = [NoFunction EXCEPT !.blocks = <<block>>, !.consts = <<0>>]
  <2>1. Append(<<>>, block) = <<block>>
    OBVIOUS
  <2> HIDE DEF block
  <2>2. CreateBlock(NoFunction, "entry", 0) = [NoFunction EXCEPT !.blocks = <<block>>]
    BY <2>1 DEF CreateBlock, NoFunction, block
  <2> QED
    BY <2>2 DEF NewFunction, NoFunction
<1> HIDE DEF block
<1>2. f.blocks = <<block>> /\ f.instructions = <<>>
  BY <1>1 DEF NoFunction
<1>3. f \in FunctionType /\ InstrIDs(f) = {} /\ Len(f.instructions) = 0
  <2>1. 0 \in Nat /\ Len(<<>>) = 0
    OBVIOUS
  <2>2. f \in FunctionType /\ InstrIDs(f) = {}
    <3>1. Len(<<>>) \in Nat
      OBVIOUS
    <3>2. /\ Sound(NewFunction, <<>>) /\ Sound([NewFunction EXCEPT !.name = name], <<>>)
          /\ InstrIDs(NewFunction) = {}
          /\ InstrIDs([NewFunction EXCEPT !.name = name]) = {}
      BY <3>1, NewFunctionSound
    <3> QED
      BY <3>2 DEF Sound
  <2> QED
    BY <2>1, <2>2, <1>2
<1>4. Len(f.blocks) = 1 /\ f.blocks # <<>> /\ f.blocks[1] = block
  BY <1>2
<1>5. /\ BlockIDs(f) = {0} /\ Block(f, 0).instrIDs = <<>> /\ Block(f, 0).label.role = "entry"
      /\ DOMAIN Block(f, 0).instrIDs = {}
  BY <1>4 DEF BlockIDs, LastBlock, Block, block
<1>6. AllWellFormed(f) /\ AllPlaced(f) /\ Forward(f) /\ IfsOK(f)
  BY <1>3 DEF AllWellFormed, AllPlaced, Forward, IfsOK
<1>7. /\ ListsExisting(f) /\ InOrder(f)
      /\ OwnLabels(f) /\ LabelsDiffer(f) /\ JoinsPatched(f)
  BY <1>5 DEF ListsExisting, Lists, InOrder, OwnLabels, LabelsDiffer, JoinsPatched
<1>8. Complete(f)
  BY <1>3 DEF Complete, Follows
<1> QED
  BY <1>3, <1>4, <1>6, <1>7, <1>8 DEF Well, ShapeOK, Core

\* A function begins.
LEMMA FunctionDefinitionKeeps ==
    ASSUME IndInv, IndInv', ShapeInv,
           NEW g \in FuncNames, NEW pointer \in BOOLEAN, FunctionDefinition(g, pointer)
    PROVE  Keeps
<1> DEFINE a == Frame("params")
           b == Frame("decls")
           c == Frame("stmts")
<1>1. /\ function' = NewFunction \/ function' = [NewFunction EXCEPT !.name = g]
      /\ todo' = <<b, c>> \/ todo' = <<a, b, c>>
      /\ UNCHANGED module /\ function = NoFunction
  BY DEF FunctionDefinition, unit, Outside, InFunction
<1>2. Well(function') /\ InstrIDs(function') = {}
  BY <1>1, NewFunctionWell
<1>3. \A j \in DOMAIN todo' : ~IsIf(todo'[j])
  <2>1. ~IsIf(a) /\ ~IsIf(b) /\ ~IsIf(c)
    BY OtherFrames
  <2> HIDE DEF a, b, c
  <2>2. NoIfs(todo') /\ DOMAIN todo' = 1 .. Len(todo')
    BY <1>1, <2>1, TwoNoIfs, ThreeNoIfs DEF IndInv, TypeOK
  <2> QED
    BY <2>2 DEF NoIfs
<1>4. Tidy(function', todo')
  BY <1>2, <1>3 DEF Tidy, IfsFit, Owned, Nested
<1>5. InstrIDs(function) = {}
  BY <1>1 DEF NoFunction, InstrIDs, LastInstr
<1> QED
  BY <1>1, <1>4, <1>5 DEF ShapeInv, Keeps, Later

\* A function ends: no suspended if statement, no branch left to patch.
LEMMA EndFunctionKeeps ==
    ASSUME IndInv, ShapeInv, EndFunction
    PROVE  Keeps
<1>1. /\ InFunction /\ todo = <<>> /\ Tidy(function, todo) /\ Well(function)
      /\ function' = NoFunction
      /\ module' = [module EXCEPT !.functions = Append(@, function)]
  BY DEF EndFunction, ShapeInv, Tidy
<1>2. Finished(function)
  BY <1>1 DEF Finished, Tidy, Owned
<1>3. module.functions \in Seq(FunctionType) /\ function \in FunctionType
      /\ module \in [functions : Seq(FunctionType), globals : Seq(VarNames \cup {NoName})]
  BY DEF IndInv, TypeOK
<1>4. module'.functions = Append(module.functions, function)
  BY <1>1, <1>3
<1>5. ASSUME NEW i \in DOMAIN module'.functions PROVE Finished(module'.functions[i])
  <2>1. /\ Len(module.functions) \in Nat
        /\ DOMAIN module.functions = 1 .. Len(module.functions)
        /\ DOMAIN module'.functions = 1 .. Len(module.functions) + 1
        /\ \A j \in 1 .. Len(module.functions) : module'.functions[j] = module.functions[j]
        /\ module'.functions[Len(module.functions) + 1] = function
    BY <1>3, <1>4
  <2> QED
    BY <2>1, <1>2 DEF ShapeInv
<1> QED
  BY <1>1, <1>5 DEF ShapeInv, Keeps, InFunction

\* A step that leaves functions and the call stack alone.
LEMMA SameKeeps ==
    ASSUME ShapeInv, UNCHANGED <<function, todo>>, module'.functions = module.functions
    PROVE  Keeps
BY SameIsLater DEF ShapeInv, Keeps, InFunction

\* The external declarations keep the shape.
LEMMA ExternalKeeps ==
    ASSUME IndInv, IndInv', ShapeInv, External
    PROVE  Keeps
<1>1. CASE GlobalDeclaration \/ (\E n \in VarNames, t \in VarTypes : GlobalIdentifier(n, t))
           \/ (\E n \in PtrNames : GlobalPointer(n)) \/ (\E n \in VarNames : GlobalInitialised(n))
           \/ EndUnit
  <2>1. UNCHANGED <<function, todo, module>>
    BY <1>1 DEF GlobalDeclaration, GlobalIdentifier, GlobalPointer, GlobalInitialised, EndUnit,
                Stop, unit
  <2> QED
    BY <2>1, SameKeeps
<1>2. CASE EndGlobal
  <2>1. UNCHANGED <<function, todo>> /\ module' = [module EXCEPT !.globals = Append(@, global[1])]
    BY <1>2 DEF EndGlobal
  <2>2. module'.functions = module.functions
    BY <2>1 DEF IndInv, TypeOK
  <2> QED
    BY <2>1, <2>2, SameKeeps
<1>3. CASE \E g \in FuncNames, pointer \in BOOLEAN : FunctionDefinition(g, pointer)
  BY <1>3, FunctionDefinitionKeeps
<1>4. CASE EndFunction
  BY <1>4, EndFunctionKeeps
<1> QED
  BY <1>1, <1>2, <1>3, <1>4 DEF External

-----------------------------------------------------------------------------
(* The invariant and what follows from it *)

\* Nothing is compiled initially.
LEMMA InitShapeInv == Init => ShapeInv
<1> SUFFICES ASSUME Init PROVE ShapeInv
  OBVIOUS
<1>1. ~InFunction /\ DOMAIN module.functions = {}
  BY DEF Init, InFunction
<1> QED
  BY <1>1 DEF ShapeInv

\* Every step of the visitor keeps the shape.
LEMMA StepKeeps == IndInv /\ IndInv' /\ ShapeInv /\ [Next]_vars => Keeps
<1> SUFFICES ASSUME IndInv, IndInv', ShapeInv, [Next]_vars PROVE Keeps
  OBVIOUS
<1>1. CASE External
  BY <1>1, ExternalKeeps
<1>2. CASE Declarations
  BY <1>2, DeclarationsRun, RunKeeps, SameKeeps
<1>3. CASE Expressions
  BY <1>3, ExpressionsRun, RunKeeps, SameKeeps
<1>4. CASE Statements
  BY <1>4, StatementsKeep, RunKeeps, SameKeeps
<1>5. CASE Ended \/ UNCHANGED vars
  BY <1>5, SameKeeps DEF Ended, vars
<1> QED
  BY <1>1, <1>2, <1>3, <1>4, <1>5 DEF Next

\* In every reachable state the function under construction is well formed, the
\* suspended visit(IfStatement)s own exactly its unpatched branches, and the
\* functions that are finished have none.
THEOREM ShapeInvariant == Spec => [](IndInv /\ ShapeInv)
<1>1. Init => IndInv /\ ShapeInv
  BY InitIndInv, InitShapeInv
<1>2. IndInv /\ ShapeInv /\ [Next]_vars => (IndInv /\ ShapeInv)'
  BY StepIndInv, StepKeeps DEF Keeps
<1> QED
  BY <1>1, <1>2, PTL DEF Spec

\* Every function so far has the shape.
LEMMA AllWell ==
    ASSUME IndInv, ShapeInv, NEW f \in AllFunctions
    PROVE  Well(f)
BY DEF AllFunctions, Functions, ShapeInv, Tidy, Finished

\* Whatever is nested in what, the blocks list the instructions in the order of
\* emission and leave out only the jumps pushed behind conditional branches.
THEOREM InstructionsPlaced == Spec => []PlacedInOrder
<1>1. ASSUME IndInv, ShapeInv PROVE PlacedInOrder
  <2>1. SUFFICES ASSUME NEW f \in AllFunctions
                 PROVE  /\ InOrder(f)
                        /\ AllPlaced(f)
    BY DEF PlacedInOrder, InOrder, AllPlaced, Follows
  <2> QED
    BY <1>1, <2>1, AllWell DEF Well, ShapeOK, Core
<1> QED
  BY <1>1, ShapeInvariant, PTL

\* Every target of a finished function was patched, and leads to a later block
\* than the one its branch is in.
THEOREM BranchesForward == Spec => []BranchesGoForward
<1>1. ASSUME IndInv, ShapeInv PROVE BranchesGoForward
  <2>1. SUFFICES ASSUME NEW f \in Functions, NEW i \in InstrIDs(f), NEW v \in Operands(f, i),
                        v.kind = "BLOCK"
                 PROVE  /\ v.id # 0
                        /\ \A b \in BlockIDs(f) : Lists(f, b, i) => b < v.id
    BY DEF BranchesGoForward
  <2>2. Finished(f)
    BY <1>1, <2>1 DEF Functions, ShapeInv
  <2>3. PICK k \in DOMAIN Instr(f, i).operands : v = Instr(f, i).operands[k]
    BY DEF Operands
  <2>4. v.id # 0
    BY <2>1, <2>2, <2>3 DEF Finished, Unpatched
  <2> QED
    BY <2>1, <2>2, <2>3, <2>4 DEF Finished, Well, ShapeOK, Core, Forward
<1> QED
  BY <1>1, ShapeInvariant, PTL

\* The ids of a suspended if statement as the property writes them.
LEMMA OpenIDsOf ==
    ASSUME NEW f, NEW frame, FrameOK(f, frame), IsIf(frame), IfFits(f, frame), Well(f),
           frame.ids \in Seq(Nat \cup {NPos})
    PROVE  LET ids == {frame.ids[k] : k \in DOMAIN frame.ids}
           IN OpenIDs(frame) = IF frame.at = "ifElse" THEN ids ELSE ids \ {frame.ids[1]}
<1>1. /\ DOMAIN frame.ids = 1 .. Len(frame.ids)
      /\ Len(frame.ids) = (IF frame.at = "ifElse" THEN 2 ELSE 3)
      /\ frame.at \in {"ifElse", "ifEnd"}
  BY DEF FrameOK, IsIf
<1>2. frame.ids[1] \in Nat /\ frame.ids[2] = frame.ids[1] + 1 /\ frame.ids[2] # frame.ids[1]
  BY HeldExist
<1>3. CASE frame.at = "ifElse"
  <2>1. DOMAIN frame.ids = {1, 2}
    BY <1>1, <1>3
  <2> QED
    BY <1>3, <2>1 DEF OpenIDs
<1>4. CASE frame.at = "ifEnd"
  <2>1. DOMAIN frame.ids = {1, 2, 3}
    BY <1>1, <1>4
  <2>2. frame.ids[3] # frame.ids[1]
    <3>1. /\ Len(Instr(f, frame.ids[1]).operands) = 3
          /\ Len(Instr(f, frame.ids[3]).operands) = 1
      BY <1>4 DEF IfFits, IsConditionalBranch
    <3>2. ASSUME frame.ids[3] = frame.ids[1] PROVE FALSE
      <4>1. 3 # 1
        OBVIOUS
      <4> QED
        BY <3>1, <3>2, <4>1, Zenon
    <3> QED
      BY <3>2
  <2> QED
    BY <1>2, <1>4, <2>1, <2>2 DEF OpenIDs
<1> QED
  BY <1>1, <1>3, <1>4

\* A branch to block 0 is one that a suspended visit(IfStatement) will patch, and
\* it holds no other.
THEOREM UnpatchedOwned == Spec => []UnpatchedAreOwned
<1>1. ASSUME IndInv, ShapeInv PROVE UnpatchedAreOwned
  <2> DEFINE Part(frame) ==
               LET ids == {frame.ids[k] : k \in DOMAIN frame.ids}
               IN IF frame.at = "ifElse" THEN ids ELSE ids \ {frame.ids[1]}
  <2>1. CASE InFunction
    <3>1. Tidy(function, todo) /\ Well(function) /\ function \in FunctionType
      BY <1>1, <2>1 DEF ShapeInv, Tidy, Well
    <3>2. ASSUME NEW i \in InstrIDs(function)
          PROVE  (\E v \in Operands(function, i) : v = Value("BLOCK", 0)) <=> Unpatched(function, i)
      <4>1. \A k \in DOMAIN Instr(function, i).operands :
              Instr(function, i).operands[k] \in LLVMValueID
        BY <3>1, InstrFields
      <4>2. \A v \in LLVMValueID : v = Value("BLOCK", 0) <=> v.kind = "BLOCK" /\ v.id = 0
        BY DEF LLVMValueID, Value
      <4> QED
        BY <4>1, <4>2 DEF Operands, Unpatched
    <3>3. ASSUME NEW j \in DOMAIN todo, IsIf(todo[j]) PROVE OpenIDs(todo[j]) = Part(todo[j])
      <4>1. todo[j] \in FrameType
        BY <1>1 DEF IndInv, TypeOK
      <4>2. todo[j].ids \in Seq(Nat \cup {NPos})
        BY <4>1 DEF FrameType
      <4>3. FrameOK(function, todo[j])
        BY <1>1 DEF IndInv, FramesOK
      <4>4. IfFits(function, todo[j])
        BY <3>1, <3>3 DEF Tidy, IfsFit
      <4> QED
        BY <3>1, <3>3, <4>2, <4>3, <4>4, OpenIDsOf
    <3>4. ASSUME NEW j \in DOMAIN todo, IsIf(todo[j])
          PROVE  OpenIDs(todo[j]) \subseteq InstrIDs(function)
      BY <3>1, <3>4, HeldExist DEF Tidy, IfsFit
    <3> HIDE DEF Part
    <3>5. \A i : i \in UnpatchedIDs <=> \E j \in DOMAIN todo : IsIf(todo[j]) /\ i \in Part(todo[j])
      BY <3>1, <3>2, <3>3, <3>4 DEF UnpatchedIDs, Tidy, Owned
    <3>6. \A i : i \in UNION {Part(frame) : frame \in IfFrames} <=>
                 \E j \in DOMAIN todo : IsIf(todo[j]) /\ i \in Part(todo[j])
      BY DEF IfFrames, IsIf
    <3>7. UnpatchedIDs = UNION {Part(frame) : frame \in IfFrames}
      BY <3>5, <3>6
    <3> QED
      BY <3>7 DEF UnpatchedAreOwned, Part
  <2>2. CASE ~InFunction
    <3>1. function = NoFunction /\ todo = <<>>
      BY <1>1, <2>2, OutsideFacts
    <3>2. InstrIDs(function) = {} /\ DOMAIN todo = {}
      BY <3>1 DEF NoFunction, InstrIDs, LastInstr
    <3>3. UnpatchedIDs = {} /\ IfFrames = {}
      BY <3>2 DEF UnpatchedIDs, IfFrames
    <3> QED
      BY <3>3 DEF UnpatchedAreOwned
  <2> QED
    BY <2>1, <2>2
<1> QED
  BY <1>1, ShapeInvariant, PTL

\* In a finished function both branches of an if statement and its join are the
\* blocks created for it, however statements nest.
THEOREM IfBlocks == Spec => []IfBlocksMatch
<1>1. ASSUME IndInv, ShapeInv PROVE IfBlocksMatch
  <2>1. SUFFICES ASSUME NEW f \in Functions, NEW c \in InstrIDs(f), IsConditionalBranch(Instr(f, c))
                 PROVE  LET target(k) == Block(f, Instr(f, c).operands[k].id).label
                            end       == Block(f, Instr(f, c + 1).operands[1].id).label
                            part(role) == [role |-> role, id |-> c]
                            hasElse   == \E b \in BlockIDs(f) : Block(f, b).label = part("if_false")
                        IN /\ target(2) = part("if_true")
                           /\ target(3) = part(IF hasElse THEN "if_false" ELSE "if_end")
                           /\ end = part("if_end")
    BY DEF IfBlocksMatch
  <2>2. Finished(f) /\ Well(f)
    BY <1>1 DEF Functions, ShapeInv, Finished
  <2>3. /\ c + 1 \in InstrIDs(f) /\ Instr(f, c).operands[3].id # 0
        /\ Instr(f, c + 1).operands[1].id # 0
    BY <2>1, <2>2, SuspendedBranch DEF Finished
  <2>4. IfOK(f, c)
    BY <2>1, <2>2 DEF Well, ShapeOK, IfsOK
  <2>5. /\ Labelled(f, Instr(f, c).operands[2].id, "if_true", c)
        /\ Labelled(f, Instr(f, c + 1).operands[1].id, "if_end", c)
        /\ HasElse(f, c) => Labelled(f, Instr(f, c).operands[3].id, "if_false", c)
        /\ ~HasElse(f, c) => Labelled(f, Instr(f, c).operands[3].id, "if_end", c)
    BY <2>3, <2>4 DEF IfOK
  <2>6. HasElse(f, c) <=> \E b \in BlockIDs(f) : Block(f, b).label = LabelFor("if_false", c)
    BY DEF HasElse, Labelled
  <2>7. /\ Block(f, Instr(f, c).operands[2].id).label = LabelFor("if_true", c)
        /\ Block(f, Instr(f, c + 1).operands[1].id).label = LabelFor("if_end", c)
        /\ Block(f, Instr(f, c).operands[3].id).label =
             IF HasElse(f, c) THEN LabelFor("if_false", c) ELSE LabelFor("if_end", c)
    BY <2>5 DEF Labelled
  <2> QED
    BY <2>6, <2>7 DEF LabelFor
<1> QED
  BY <1>1, ShapeInvariant, PTL

\* No handler changes what was emitted, but for a branch target that was 0.
THEOREM InstructionsKept == Spec => AppendOnly
<1>1. ASSUME IndInv, IndInv', ShapeInv, [Next]_vars, function' # NoFunction
      PROVE  \A i \in InstrIDs(function) :
               i \in InstrIDs(function') /\ PatchedOnce(Instr(function, i), Instr(function', i))
  <2>1. Later(function, function')
    BY <1>1, StepKeeps DEF Keeps
  <2>2. SUFFICES ASSUME NEW i \in InstrIDs(function)
                 PROVE  i \in InstrIDs(function')
                        /\ PatchedOnce(Instr(function, i), Instr(function', i))
    OBVIOUS
  <2> DEFINE old == Instr(function, i)
             new == Instr(function', i)
  <2>3. i \in InstrIDs(function')
    BY <2>1 DEF Later
  <2>4. /\ old \in LLVMInstruction /\ new \in LLVMInstruction
        /\ \A k \in DOMAIN old.operands : old.operands[k] \in LLVMValueID
    BY <1>1, <2>3, InstrFields DEF IndInv, TypeOK
  <2>5. /\ new.opcode = old.opcode /\ new.type = old.type /\ new.cond = old.cond
        /\ Len(new.operands) = Len(old.operands)
        /\ \A k \in DOMAIN old.operands :
             /\ new.operands[k].kind = old.operands[k].kind
             /\ \/ new.operands[k] = old.operands[k]
                \/ old.operands[k].kind = "BLOCK" /\ old.operands[k].id = 0
    BY <2>1 DEF Later
  <2> HIDE DEF old, new
  <2>6. [new EXCEPT !.operands = old.operands] = old
    BY <2>4, <2>5 DEF LLVMInstruction
  <2>7. \A v \in LLVMValueID : v.kind = "BLOCK" /\ v.id = 0 => v = Value("BLOCK", 0)
    BY DEF LLVMValueID, Value
  <2>8. PatchedOnce(old, new)
    BY <2>4, <2>5, <2>6, <2>7 DEF PatchedOnce
  <2> QED
    BY <2>3, <2>8 DEF old, new
<1>2. IndInv /\ IndInv' /\ ShapeInv /\ [Next]_vars =>
        [function' # NoFunction =>
           \A i \in InstrIDs(function) :
             i \in InstrIDs(function') /\ PatchedOnce(Instr(function, i), Instr(function', i))]_vars
  BY <1>1
<1> QED
  BY <1>2, ShapeInvariant, PTL DEF Spec, AppendOnly
=============================================================================
