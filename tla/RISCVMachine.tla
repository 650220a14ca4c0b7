---------------------------- MODULE RISCVMachine ----------------------------
(***************************************************************************)
(* A RISC-V core that runs what RISCVEmitter prints, and the caller of the *)
(* compiled functions: with `sp` at the top of the stack, the first eight  *)
(* arguments in a0..a7 and values of its own in ra and s0.  Memory is word *)
(* addressed with an address every 4 bytes; globals are at the bottom, the *)
(* stack grows down from StackTop.                                         *)
(***************************************************************************)
EXTENDS RISCVEmitter, Layout, Word

CONSTANTS StackTop, CallerRA, CallerFP, GlobalIDs

Addresses == {a \in Word : a % wordBytes = 0}
VARIABLES
    func,    \* the IR function called last, NoFunction before the first call
    params,  \* the arguments of that call
    code,    \* the assembly of func
    lines,   \* the IR instructions it was printed for, in order
    lineOf,  \* the number of the one each line of code belongs to
    pc,      \* the next instruction of code, 0 when the caller runs
    regs, mem

machineVars == <<func, params, code, lines, lineOf, pc, regs, mem>>

ArgRegs == {ArgReg(i) : i \in 0 .. 7}
Registers == {"sp", "ra", "s0", "t0", "t1", "t2"} \cup ArgRegs

\* .data: a word for each global; slots below the frame pointer.
GlobalAddress(i) == wordBytes * i
SlotAddress(id) == Wrap(StackTop - getSlotOffset(id))
GlobalAddresses == {GlobalAddress(i) : i \in GlobalIDs}

ASSUME MachineAssumption ==
    /\ StackTop \in Addresses /\ CallerRA \in Word /\ CallerFP \in Word
    /\ GlobalIDs \subseteq Nat /\ GlobalAddresses \subseteq Addresses

\* Emitted code compared with the stack there is.
FitsInMemory(f) ==
    LET sp == StackTop - totalFrameSize(Len(f.instructions))
    IN sp >= 0 /\ \A a \in GlobalAddresses : a < sp

MachineInit ==
    /\ func = NoFunction /\ params = <<>> /\ code = <<>>
    /\ lines = <<>> /\ lineOf = <<>> /\ pc = 0
    /\ regs = [r \in Registers |-> 0]
    /\ mem = [a \in Addresses |-> 0]

\* In the prologue no line is going on yet; a label belongs to the line after
\* it; in the epilogue all lines are over.
LineAt(ids, asm, k) ==
    LET next == {l \in k .. Len(asm) : asm[l].id # NPos}
    IN CASE k \in DOMAIN prologue(0) -> 0
         [] k \notin DOMAIN prologue(0) /\ next = {} -> Len(ids) + 1
         [] OTHER -> CHOOSE l \in DOMAIN ids : ids[l] = asm[Min(next)].id

\* The arguments passed in registers.
Passed(arguments) == DOMAIN arguments \cap 1 .. 8

CallFunction(f, asm, arguments) ==
    /\ pc = 0
    /\ FitsInMemory(f)
    /\ func' = f /\ params' = arguments /\ code' = asm /\ pc' = 1
    /\ lines' = Lines(f) /\ lineOf' = [k \in DOMAIN asm |-> LineAt(Lines(f), asm, k)]
    /\ regs' = [r \in Registers |->
                  CASE r = "sp" -> StackTop
                    [] r = "ra" -> CallerRA
                    [] r = "s0" -> CallerFP
                    [] r \in {ArgReg(i - 1) : i \in Passed(arguments)} ->
                         arguments[CHOOSE i \in Passed(arguments) : r = ArgReg(i - 1)]
                    [] OTHER -> regs[r]]
    /\ UNCHANGED mem

-----------------------------------------------------------------------------
(* The instructions the emitter uses *)

ALU(op, a, b) ==
    CASE op = "add"  -> Wrap(a + b)
      [] op = "sub"  -> Wrap(a - b)
      [] op = "mul"  -> Wrap(a * b)
      [] op = "divu" -> IF b = 0 THEN WordSize - 1 ELSE a \div b
      [] op = "remu" -> IF b = 0 THEN a ELSE a % b
      [] op = "div"  -> IF b = 0 THEN WordSize - 1 ELSE Wrap(Quotient(Signed(a), Signed(b)))
      [] op = "rem"  -> IF b = 0 THEN a ELSE Wrap(Remainder(Signed(a), Signed(b)))
      [] op = "and"  -> And(a, b)
      [] op = "or"   -> Or(a, b)
      [] op = "xor"  -> Xor(a, b)
      [] op = "slt"  -> Flag(Signed(a) < Signed(b))
      [] op = "sltu" -> Flag(a < b)
BinaryOps == {"add", "sub", "mul", "divu", "remu", "div", "rem", "and", "or", "xor",
              "slt", "sltu"}
UnaryOps == {"mv", "seqz", "snez", "addi", "xori"}

InCode == pc # 0
Here == code[pc]
Arg(i) == Here.args[i]
Advance == pc' = pc + 1
Keep == UNCHANGED <<func, params, code, lines, lineOf>>
Write(reg, word) == regs' = [regs EXCEPT ![reg] = word] /\ UNCHANGED mem

ComputeBinary ==
    /\ InCode /\ Here.op \in BinaryOps
    /\ Write(Arg(1), ALU(Here.op, regs[Arg(2)], regs[Arg(3)]))
    /\ Advance /\ Keep

ComputeUnary ==
    /\ InCode /\ Here.op \in UnaryOps
    /\ LET source == regs[Arg(2)]
       IN Write(Arg(1), CASE Here.op = "mv"   -> source
                          [] Here.op = "seqz" -> Flag(source = 0)
                          [] Here.op = "snez" -> Flag(source # 0)
                          [] Here.op = "addi" -> Wrap(source + Arg(3))
                          [] Here.op = "xori" -> Xor(source, Wrap(Arg(3))))
    /\ Advance /\ Keep

LoadImmediate ==
    /\ InCode /\ Here.op \in {"li", "la"}
    /\ Write(Arg(1), IF Here.op = "li" THEN Wrap(Arg(2)) ELSE GlobalAddress(Arg(2)))
    /\ Advance /\ Keep

EffectiveAddress == Wrap(regs[Arg(3)] + Arg(2))
LoadWord ==
    /\ InCode /\ Here.op = "lw"
    /\ Write(Arg(1), mem[EffectiveAddress])
    /\ Advance /\ Keep

StoreWord ==
    /\ InCode /\ Here.op = "sw"
    /\ mem' = [mem EXCEPT ![EffectiveAddress] = regs[Arg(1)]]
    /\ UNCHANGED regs
    /\ Advance /\ Keep

\* The assembler knows the labels of this function only.
Labels(label) == {k \in DOMAIN code : code[k].op = "label" /\ code[k].args[1] = label}
Jump ==
    /\ InCode /\ Here.op = "j"
    /\ pc' \in Labels(Arg(1))
    /\ UNCHANGED <<regs, mem>> /\ Keep
BranchIfNotZero ==
    /\ InCode /\ Here.op = "bnez"
    /\ IF regs[Arg(1)] # 0 THEN pc' \in Labels(Arg(2)) ELSE Advance
    /\ UNCHANGED <<regs, mem>> /\ Keep

Skip ==
    /\ InCode /\ Here.op \in {"label", "nop"}
    /\ Advance
    /\ UNCHANGED <<regs, mem>> /\ Keep

ReturnToCaller ==
    /\ InCode /\ Here.op = "ret"
    /\ pc' = 0
    /\ UNCHANGED <<regs, mem>> /\ Keep

Step ==
    \/ ComputeBinary \/ ComputeUnary \/ LoadImmediate \/ LoadWord \/ StoreWord
    \/ Jump \/ BranchIfNotZero \/ Skip \/ ReturnToCaller

-----------------------------------------------------------------------------
(* What the core does in terms of the IR. *)

Over == Len(lines) + 1
Line == IF pc = 0 THEN Over ELSE lineOf[pc]
IR == INSTANCE IRMachine
        WITH line   <- Line,
             values <- [id \in ToSet(lines) |-> mem[SlotAddress(id)]],
             memory <- [a \in GlobalAddresses \cup {SlotAddress(id) : id \in Allocas(func)} |->
                          mem[a]],
             result <- IF Line = Over THEN regs["a0"] ELSE NPos,
             AllocaAddress <- SlotAddress
=============================================================================
