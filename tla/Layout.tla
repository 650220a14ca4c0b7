------------------------------- MODULE Layout -------------------------------
(* The order in which a function's instructions are laid out: block by      *)
(* block, without the allocas, which only reserve storage.                  *)
EXTENDS LLVMModule, SequencesExt

Allocas(f) == {id \in InstrIDs(f) : Instr(f, id).opcode = "ALLOCA"}
LinesOf(f, block) ==
    FlattenSeq([k \in DOMAIN block.instrIDs |->
        IF Instr(f, block.instrIDs[k]).opcode = "ALLOCA" THEN <<>> ELSE <<block.instrIDs[k]>>])
ListedIn(f, blocks) == FlattenSeq([b \in DOMAIN blocks |-> LinesOf(f, blocks[b])])
Lines(f) == ListedIn(f, f.blocks)
\* The line block b starts at.
Start(f, b) == Len(ListedIn(f, SubSeq(f.blocks, 1, b))) + 1
=============================================================================
