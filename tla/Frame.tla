------------------------------- MODULE Frame -------------------------------
(***************************************************************************)
(* The stack frame of a function, as RISCVEmitter lays it out: one slot    *)
(* per instruction of the arena, below what the prologue saves.  Offsets   *)
(* are distances below the frame pointer s0, which is the caller's sp.     *)
(***************************************************************************)
EXTENDS Integers

\* Mutant: room for ra only.
prologueSizeOneWord == 4
prologueSize == 8
stackItemSize == 8
wordBytes == 4

getSlotOffset(id) == prologueSize + id * stackItemSize

\* Mutant: dataSize in words of 4 bytes.
totalFrameSizeOfWords(numInstrs) ==
    ((prologueSize + numInstrs * wordBytes + 15) \div 16) * 16
\* (prologueSize + dataSize + 15) & ~15
totalFrameSize(numInstrs) ==
    ((prologueSize + numInstrs * stackItemSize + 15) \div 16) * 16

\* `sw ra, {totalFrameSize - 4}(sp)`, `sw s0, {totalFrameSize - 8}(sp)`
SavedRA == 4
SavedFP == 8
=============================================================================
