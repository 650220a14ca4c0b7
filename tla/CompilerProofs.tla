---------------------------- MODULE CompilerProofs ----------------------------
(***************************************************************************)
(* Proofs about RISCVEmitter and the assembly it prints, for programs,     *)
(* words and stacks of any size: the frame it lays out, that it prints     *)
(* every function to its end, that what it prints keeps to its frame and   *)
(* returns to its caller, and which line of the IR each line of it is for. *)
(***************************************************************************)
EXTENDS CompilerProps, IRValueProofs

-----------------------------------------------------------------------------
(* The powers of two *)

\* What the recursive function Power is.
PowersTo(g) == g = [n \in Nat |-> IF n = 0 THEN 1 ELSE 2 * g[n - 1]]
Powers(g, n) == \A i \in 0 .. n : g[i] \in Nat /\ g[i] = IF i = 0 THEN 1 ELSE 2 * g[i - 1]
LEMMA PowersUnique ==
    ASSUME NEW g, NEW h, NEW m \in Nat, NEW n \in Nat, Powers(g, m), Powers(h, n), m <= n
    PROVE  \A i \in 0 .. m : g[i] = h[i]
<1> DEFINE S == {i \in Nat : i <= m => g[i] = h[i]}
<1>1. 0 \in S
  BY DEF Powers
<1>2. ASSUME NEW i \in Nat, i \in S PROVE i + 1 \in S
  <2>1. SUFFICES ASSUME i + 1 <= m PROVE g[i + 1] = h[i + 1]
    OBVIOUS
  <2>2. i + 1 \in 0 .. m /\ i + 1 \in 0 .. n /\ i + 1 # 0 /\ (i + 1) - 1 = i /\ i <= m
    BY <2>1
  <2>3. g[i + 1] = 2 * g[i] /\ h[i + 1] = 2 * h[i]
    BY <2>2 DEF Powers
  <2> QED
    BY <1>2, <2>2, <2>3
<1> HIDE DEF S
<1>3. Nat \subseteq S
  BY <1>1, <1>2, SetInduction
<1> QED
  BY <1>3 DEF S

LEMMA PowersExist == \A n \in Nat : \E g : Powers(g, n)
<1> DEFINE G == {n \in Nat : \E g : Powers(g, n)}
<1>1. 0 \in G
  <2> DEFINE g == [i \in 0 .. 0 |-> 1]
  <2>1. Powers(g, 0)
    BY DEF Powers
  <2> QED
    BY <2>1
<1>2. ASSUME NEW n \in Nat, n \in G PROVE n + 1 \in G
  <2>1. PICK g : Powers(g, n)
    BY <1>2
  <2> DEFINE h == [i \in 0 .. n + 1 |-> IF i <= n THEN g[i] ELSE 2 * g[n]]
  <2>2. ASSUME NEW i \in 0 .. n + 1
        PROVE  h[i] \in Nat /\ h[i] = IF i = 0 THEN 1 ELSE 2 * h[i - 1]
    <3>1. CASE i <= n
      <4>1. h[i] = g[i] /\ (i # 0 => h[i - 1] = g[i - 1])
        BY <3>1
      <4>2. g[i] \in Nat /\ g[i] = IF i = 0 THEN 1 ELSE 2 * g[i - 1]
        BY <2>1, <3>1 DEF Powers
      <4> HIDE DEF h
      <4> QED
        BY <4>1, <4>2
    <3>2. CASE i = n + 1
      <4>1. h[i] = 2 * g[n] /\ h[i - 1] = g[n] /\ i # 0
        BY <3>2
      <4>2. g[n] \in Nat
        BY <2>1 DEF Powers
      <4> HIDE DEF h
      <4> QED
        BY <4>1, <4>2
    <3> QED
      BY <3>1, <3>2
  <2> HIDE DEF h
  <2>3. Powers(h, n + 1)
    BY <2>2 DEF Powers
  <2> QED
    BY <2>3
<1> HIDE DEF G
<1>3. Nat \subseteq G
  BY <1>1, <1>2, SetInduction
<1> QED
  BY <1>3 DEF G

LEMMA PowerFacts ==
    Power[0] = 1 /\ \A n \in Nat : Power[n] \in Nat /\ Power[n + 1] = 2 * Power[n]
<1> DEFINE G(n) == CHOOSE g : Powers(g, n)
           P == [n \in Nat |-> G(n)[n]]
<1>1. \A n \in Nat : Powers(G(n), n)
  BY PowersExist
<1>2. \A n \in Nat : P[n] = G(n)[n]
  OBVIOUS
<1> HIDE DEF G
<1>3. ASSUME NEW n \in Nat PROVE P[n] \in Nat /\ P[n] = IF n = 0 THEN 1 ELSE 2 * P[n - 1]
  <2>1. Powers(G(n), n)
    BY <1>1
  <2>2. G(n)[n] \in Nat /\ G(n)[n] = IF n = 0 THEN 1 ELSE 2 * G(n)[n - 1]
    BY <2>1 DEF Powers
  <2>3. CASE n = 0
    BY <1>2, <2>2, <2>3
  <2>4. CASE n # 0
    <3>1. n - 1 \in Nat /\ n - 1 <= n /\ n - 1 \in 0 .. n - 1
      BY <2>4
    <3>2. G(n - 1)[n - 1] = G(n)[n - 1]
      BY <1>1, <2>1, <3>1, PowersUnique
    <3>3. P[n - 1] = G(n - 1)[n - 1]
      BY <3>1
    <3> QED
      BY <1>2, <2>2, <2>4, <3>2, <3>3
  <2> QED
    BY <2>3, <2>4
<1>4. P = [n \in Nat |-> P[n]]
  OBVIOUS
<1> HIDE DEF P
<1>5. PowersTo(P)
  BY <1>3, <1>4 DEF PowersTo
<1> DEFINE Q == CHOOSE g : PowersTo(g)
<1>6. PowersTo(Q)
  BY <1>5
<1>7. Power = Q
  BY DEF Power, PowersTo
<1> HIDE DEF Q
<1>8. Power = [n \in Nat |-> IF n = 0 THEN 1 ELSE 2 * Power[n - 1]]
  BY <1>6, <1>7 DEF PowersTo
<1>9. \A n \in Nat : Power[n] = IF n = 0 THEN 1 ELSE 2 * Power[n - 1]
  BY <1>8
<1> DEFINE S == {n \in Nat : Power[n] \in Nat}
<1>10. 0 \in S
  BY <1>9
<1>11. ASSUME NEW n \in Nat, n \in S PROVE n + 1 \in S
  <2>1. Power[n + 1] = 2 * Power[(n + 1) - 1] /\ (n + 1) - 1 = n
    BY <1>9
  <2> QED
    BY <1>11, <2>1
<1> HIDE DEF S
<1>12. Nat \subseteq S
  BY <1>10, <1>11, SetInduction
<1>13. ASSUME NEW n \in Nat PROVE Power[n + 1] = 2 * Power[n]
  <2>1. Power[n + 1] = 2 * Power[(n + 1) - 1] /\ (n + 1) - 1 = n
    BY <1>9
  <2> QED
    BY <2>1
<1> QED
  BY <1>9, <1>12, <1>13 DEF S

\* There are at least two words.
LEMMA WordSizeIsNat == WordSize \in Nat /\ WordSize >= 2
<1>1. WordBits \in Nat /\ WordBits # 0
  BY WordAssumption
<1> DEFINE S == {n \in Nat : Power[n] >= 1}
<1>2. 0 \in S
  BY PowerFacts
<1>3. ASSUME NEW n \in Nat, n \in S PROVE n + 1 \in S
  BY <1>3, PowerFacts
<1> HIDE DEF S
<1>4. Nat \subseteq S
  BY <1>2, <1>3, SetInduction
<1>5. WordBits - 1 \in Nat /\ (WordBits - 1) + 1 = WordBits
  BY <1>1
<1>6. Power[WordBits - 1] \in Nat /\ Power[WordBits - 1] >= 1
  BY <1>4, <1>5, PowerFacts DEF S
<1>7. Power[(WordBits - 1) + 1] = 2 * Power[WordBits - 1]
  BY <1>5, PowerFacts
<1> QED
  BY <1>5, <1>6, <1>7 DEF WordSize

-----------------------------------------------------------------------------
(* The frame of a function.  A word at offset o below the frame pointer    *)
(* occupies the bytes o .. o - 3 below it.                                 *)

\* The bytes below the frame pointer that a word at that offset occupies.
Bytes(offset) == offset - wordBytes + 1 .. offset

\* The number of instructions determines the frame; it is what the rounding
\* leaves of the next 15 bytes.
LEMMA Rounding ==
    ASSUME NEW n \in Nat
    PROVE  /\ totalFrameSize(n) \in Nat
           /\ totalFrameSize(n) % 16 = 0
           /\ 8 + 8 * n <= totalFrameSize(n)
           /\ totalFrameSize(n) <= 8 * n + 23
BY DEF totalFrameSize, prologueSize, stackItemSize, wordBytes

\* Two instructions never share a byte of the frame.
THEOREM SlotsAreDisjoint ==
    ASSUME NEW i \in Nat, NEW j \in Nat, i # j
    PROVE  Bytes(getSlotOffset(i)) \cap Bytes(getSlotOffset(j)) = {}
BY DEF Bytes, getSlotOffset, prologueSize, stackItemSize, wordBytes

\* The slot of every instruction of the function is above sp, which
\* `addi sp, sp, -totalFrameSize` moved below all of them.
THEOREM SlotsAreInFrame ==
    ASSUME NEW n \in Nat, NEW id \in 0 .. n - 1
    PROVE  Bytes(getSlotOffset(id)) \subseteq 1 .. totalFrameSize(n)
<1>1. 8 * id + 8 <= 8 * n
  OBVIOUS
<1>2. totalFrameSize(n) \in Nat /\ 8 + 8 * n <= totalFrameSize(n)
  BY Rounding
<1> QED
  BY <1>1, <1>2 DEF Bytes, getSlotOffset, prologueSize, stackItemSize, wordBytes

\* No slot holds the return address the prologue saved.
THEOREM SlotsSpareReturnAddress ==
    ASSUME NEW id \in Nat
    PROVE  Bytes(getSlotOffset(id)) \cap Bytes(SavedRA) = {}
BY DEF Bytes, getSlotOffset, SavedRA, prologueSize, stackItemSize, wordBytes

\* Slot 0 is where the prologue saved the caller's frame pointer, whatever
\* the function: the first instruction's result replaces it.
THEOREM SlotZeroIsSavedFramePointer == getSlotOffset(0) = SavedFP
BY DEF getSlotOffset, SavedFP, prologueSize, stackItemSize, wordBytes

\* "sp must be 16-byte aligned": it stays so.
THEOREM StackStaysAligned ==
    ASSUME NEW n \in Nat, NEW sp \in Int, sp % 16 = 0
    PROVE  (sp - totalFrameSize(n)) % 16 = 0
<1>1. PICK k \in Int : totalFrameSize(n) = 16 * k
  BY DEF totalFrameSize, prologueSize, stackItemSize, wordBytes
<1>2. PICK m \in Int : sp = 16 * m
  OBVIOUS
<1> QED
  BY <1>1, <1>2

\* The immediates of addi, lw and sw are 12 bits wide: the frame of a function
\* with at most 253 instructions can be addressed.
THEOREM SmallFramesAreAddressable ==
    ASSUME NEW n \in 0 .. 253
    PROVE  totalFrameSize(n) < 2048 /\ \A id \in 0 .. n - 1 : getSlotOffset(id) <= 2048
<1>1. totalFrameSize(n) < 2048
  BY DEF totalFrameSize, prologueSize, stackItemSize, wordBytes
<1>2. \A id \in 0 .. n - 1 : getSlotOffset(id) <= 2048
  BY DEF getSlotOffset, prologueSize, stackItemSize, wordBytes
<1> QED
  BY <1>1, <1>2

-----------------------------------------------------------------------------
(* Emission *)

\* What the emitter and the core do, IRGen does not notice.
THEOREM CompilerGenerates == CompilerSpec => Spec
<1>1. CompilerInit => Init
  BY DEF CompilerInit
<1>2. [CompilerNext]_compilerVars => [Next]_vars
  BY DEF CompilerNext, compilerVars, GenerateIR, EmitFunction, EmitterThrows, CallCompiled, Execute
<1> QED
  BY <1>1, <1>2, PTL DEF CompilerSpec, Spec

\* What the finished functions are when the emitter reads them.
IRInv == IndInv /\ ShapeInv /\ ValueInv /\ NoWrappedIndex
LEMMA IRInvariant ==
    ASSUME Handled, NoPointers
    PROVE  CompilerSpec => []IRInv
<1>1. Spec => []NoWrappedIndex
  BY NoOperandWraps DEF Handled, NoPointers
<1> QED
  BY <1>1, CompilerGenerates, ValueInvariant, PTL DEF IRInv

\* The emitter finds what it needs of an instruction that is well formed.
LEMMA NeededExist ==
    ASSUME NEW instr, WellFormed(instr), instr.opcode \in LLVMOpcode,
           instr.operands \in Seq(LLVMValueID),
           instr.opcode = "RET" => instr.operands # <<>>,
           NEW k \in 1 .. Needed(instr)
    PROVE  k \in DOMAIN instr.operands
<1> DEFINE opcode == instr.opcode
           n == Len(instr.operands)
<1>1. /\ opcode \in LLVM!Operation \/ opcode \in {"LOAD", "RET", "BR", "ALLOCA"}
      /\ n \in Nat /\ DOMAIN instr.operands = 1 .. n
  BY DEF LLVMOpcode, LLVM!Operation
<1>2. CASE opcode \in LLVM!Operation
  <2>1. Needed(instr) = 2
    BY <1>2 DEF Needed, LLVM!Operation
  <2> QED
    BY <1>1, <1>2, <2>1 DEF WellFormed
<1>3. CASE opcode = "LOAD"
  <2>1. Needed(instr) = 1
    BY <1>3 DEF Needed
  <2> QED
    BY <1>1, <1>3, <2>1 DEF WellFormed
<1>4. CASE opcode = "RET"
  <2>1. Needed(instr) = 1
    BY <1>4 DEF Needed
  <2>2. n # 0
    BY <1>4
  <2> QED
    BY <1>1, <2>1, <2>2
<1>5. CASE opcode = "BR"
  <2>1. Needed(instr) = n
    BY <1>5 DEF Needed
  <2> QED
    BY <1>1, <1>5, <2>1
<1>6. CASE opcode = "ALLOCA"
  <2>1. Needed(instr) = 0
    BY <1>6 DEF Needed
  <2> QED
    BY <2>1
<1> QED
  BY <1>1, <1>2, <1>3, <1>4, <1>5, <1>6

\* A finished function without a `return;` and with at most eight parameters is
\* printed to its end.
LEMMA FinishedIsEmittable ==
    ASSUME IRInv, Handled, NoPointers, NEW f \in Functions,
           ~ReturnsNothing(f), Len(f.params) <= 8
    PROVE  Emittable(f, module.globals)
<1>1. f \in AllFunctions /\ IndInv /\ ShapeInv /\ ValueInv /\ NoWrappedIndex
  BY DEF AllFunctions, IRInv
<1>2. Well(f) /\ AllFine(f)
  BY <1>1, AllWell, AllFunctionsFine
<1>3. SUFFICES ASSUME NEW b \in BlockIDs(f), NEW i \in InstrIDs(f), Lists(f, b, i),
                      NEW k \in 1 .. Needed(Instr(f, i))
               PROVE  /\ k \in DOMAIN Instr(f, i).operands
                      /\ Loadable(f, module.globals, Instr(f, i).operands[k])
  BY DEF Emittable
<1>4. f \in FunctionType /\ WellFormed(Instr(f, i)) /\ Good(f, Instr(f, i))
  BY <1>2 DEF Well, ShapeOK, Core, AllWellFormed, AllFine, Fine
<1>5. Instr(f, i) \in LLVMInstruction
  BY <1>4, InstrFields
<1>6. k \in DOMAIN Instr(f, i).operands
  <2>1. Instr(f, i).opcode = "RET" => Instr(f, i).operands # <<>>
    BY <1>3 DEF ReturnsNothing
  <2> QED
    BY <1>4, <1>5, <2>1, NeededExist DEF LLVMInstruction
<1>7. \/ Instr(f, i).operands[k] = Value("INSTR", NPos)
      \/ InArena(f, module.globals, Instr(f, i).operands[k])
  BY <1>1, <1>6, OperandExists
<1>8. Instr(f, i).operands[k] # Value("INSTR", NPos)
  BY <1>1, <1>6 DEF NoWrappedIndex, Operands, Value
<1>9. Len(f.params) \in Nat
  BY <1>4, FunctionFields
<1> QED
  BY <1>6, <1>7, <1>8, <1>9 DEF Loadable, InArena

\* What is printed is the assembly of the first functions, and what the emitter
\* stopped at is the next.
Assemblies == {emitFunction(f) : f \in Functions}
EmitterInv ==
    /\ asm \in Seq(Assemblies) /\ Len(asm) <= Len(module.functions)
    /\ \A i \in DOMAIN asm :
         /\ Emittable(module.functions[i], module.globals)
         /\ asm[i] = emitFunction(module.functions[i])
    /\ status = "visiting" => asm = <<>> /\ ~thrown
    /\ thrown => Len(asm) < Len(module.functions) /\ ~Emittable(NextFunction, module.globals)
LEMMA StepEmitterInv ==
    ASSUME IRInv, IRInv', EmitterInv, [CompilerNext]_compilerVars
    PROVE  EmitterInv'
<1>1. /\ module.functions \in Seq(FunctionType) /\ module'.functions \in Seq(FunctionType)
      /\ Len(module.functions) \in Nat /\ Len(asm) \in Nat
  BY DEF IRInv, IndInv, TypeOK, EmitterInv
<1>2. CASE GenerateIR
  <2>1. /\ asm' = <<>> /\ ~thrown'
    BY <1>2 DEF GenerateIR, EmitterInv
  <2>2. Len(module'.functions) \in Nat
    BY <1>1
  <2> QED
    BY <2>1, <2>2 DEF EmitterInv
<1>3. CASE EmitFunction
  <2>1. /\ asm' = Append(asm, emitFunction(NextFunction)) /\ module' = module
        /\ status' = status /\ status = "done" /\ ~thrown /\ thrown' = thrown
        /\ Len(asm) < Len(module.functions)
    BY <1>3 DEF EmitFunction, Emitting, vars
  <2>2. /\ Len(asm) + 1 \in DOMAIN module.functions /\ Functions' = Functions
        /\ Assemblies' = Assemblies
    BY <1>1, <2>1 DEF Functions, Assemblies
  <2>3. NextFunction = module.functions[Len(asm) + 1] /\ emitFunction(NextFunction) \in Assemblies
    BY <2>2 DEF NextFunction, Functions, Assemblies
  <2>4. asm' \in Seq(Assemblies) /\ Len(asm') = Len(asm) + 1
    BY <2>1, <2>3 DEF EmitterInv
  <2>5. ASSUME NEW i \in DOMAIN asm'
        PROVE  /\ Emittable(module.functions[i], module.globals)
               /\ asm'[i] = emitFunction(module.functions[i])
    <3>1. Emittable(NextFunction, module.globals)
      BY <1>3 DEF EmitFunction
    <3> QED
      BY <2>1, <2>3, <2>4, <3>1 DEF EmitterInv, NextFunction
  <2> QED
    BY <1>1, <2>1, <2>2, <2>4, <2>5 DEF EmitterInv
<1>4. CASE EmitterThrows
  BY <1>1, <1>4 DEF EmitterInv, EmitterThrows, Emitting, NextFunction, Assemblies, Functions, vars
<1>5. CASE UNCHANGED <<vars, asm, thrown>>
  BY <1>5 DEF EmitterInv, NextFunction, Assemblies, Functions, vars
<1> QED
  BY <1>2, <1>3, <1>4, <1>5 DEF CompilerNext, CallCompiled, Execute, compilerVars

LEMMA EmitterInvariant ==
    ASSUME Handled, NoPointers
    PROVE  CompilerSpec => [](IRInv /\ EmitterInv)
<1>1. CompilerInit => EmitterInv
  <2> SUFFICES ASSUME CompilerInit PROVE EmitterInv
    OBVIOUS
  <2>1. /\ asm = <<>> /\ ~thrown /\ module.functions = <<>>
    BY DEF CompilerInit, Init
  <2> QED
    BY <2>1 DEF EmitterInv
<1>2. IRInv /\ IRInv' /\ EmitterInv /\ [CompilerNext]_compilerVars => EmitterInv'
  BY StepEmitterInv
<1> QED
  BY <1>1, <1>2, IRInvariant, PTL DEF CompilerSpec

\* In a program without pointers and without expressions that have no handler,
\* every function that IRGenVisitor finishes is printed to its end, unless it
\* has nine parameters or a `return;`: no other .at() of RISCVEmitter throws.
THEOREM FunctionsArePrinted ==
    ASSUME Handled, NoPointers
    PROVE  CompilerSpec => []EmissionSucceeds
<1>1. ASSUME IRInv, EmitterInv PROVE EmissionSucceeds
  <2> USE <1>1
  <2>1. SUFFICES ASSUME thrown, ~(Len(NextFunction.params) > 8), ~ReturnsNothing(NextFunction)
              PROVE  FALSE
    BY DEF EmissionSucceeds
  <2>2. /\ module.functions \in Seq(FunctionType) /\ Len(asm) \in Nat
        /\ Len(asm) < Len(module.functions)
    BY <2>1 DEF IRInv, IndInv, TypeOK, EmitterInv
  <2>3. NextFunction \in Functions /\ NextFunction \in FunctionType
    BY <2>2 DEF NextFunction, Functions
  <2>4. Len(NextFunction.params) <= 8
    BY <2>1, <2>3, FunctionFields
  <2> QED
    BY <2>1, <2>3, <2>4, FinishedIsEmittable DEF EmitterInv
<1> QED
  BY <1>1, EmitterInvariant, PTL

-----------------------------------------------------------------------------
(* Which registers and slots hold addresses: what is known before each     *)
(* line of the assembly, in terms of the code alone.  A fact is that a     *)
(* register or an instruction's slot holds the address of a variable, or   *)
(* that a register is zero.                                                *)

HasAddress(reg) == <<"address", reg>>
IsZero(reg) == <<"zero", reg>>
Holding(id) == <<"slot", id>>
About(reg) == {HasAddress(reg), IsZero(reg)}

\* The registers the code of an instruction changes.
Scratch == {"t0", "t1", "t2", "a0"}
RegisterOps == BinaryOps \cup UnaryOps \cup {"li", "la", "lw"}
SlotArgs(reg, id) == <<reg, -getSlotOffset(id), "s0">>
StoresResult(f, l, id) ==
    l.op = "sw" /\ id \in InstrIDs(f) \ Allocas(f) /\ l.args = SlotArgs(l.args[1], id)
\* Line l leaves the address of a variable in its register.
PutsAddress(f, l, A) ==
    \/ l.op = "la" /\ l.args[2] \in GlobalIDs
    \/ l.op = "addi" /\ \E id \in Allocas(f) : l.args = <<l.args[1], "s0", -getSlotOffset(id)>>
    \/ l.op = "lw" /\ \E id : Holding(id) \in A /\ l.args = SlotArgs(l.args[1], id)
    \/ l.op = "add" /\ HasAddress(l.args[2]) \in A /\ IsZero(l.args[3]) \in A

\* If A is known before line l of f, then B is after it.  What is known at a
\* label is what every jump to it knows: nothing.  A line loads from the frame or
\* a variable and stores to the slot of an instruction with a result, or to a
\* variable.
LoadsFrom(l, A) ==
    l.op = "lw" => l.args[3] = "s0" \/ (l.args[2] = 0 /\ HasAddress(l.args[3]) \in A)
LineOK(f, l, A, B) ==
    /\ {"op", "args"} \subseteq DOMAIN l
    /\ \/ l.op = "label" /\ A = {} /\ B = {}
       \/ l.op \in {"nop", "j", "bnez"} /\ B \subseteq A
       \/ l.op \in RegisterOps /\ l.args[1] \in Scratch /\ LoadsFrom(l, A)
          /\ B \subseteq A \ About(l.args[1])
       \/ PutsAddress(f, l, A) /\ l.args[1] \in Scratch
          /\ B \subseteq (A \ About(l.args[1])) \cup {HasAddress(l.args[1])}
       \/ l.op = "li" /\ l.args[2] = 0 /\ l.args[1] \in Scratch
          /\ B \subseteq (A \ About(l.args[1])) \cup {IsZero(l.args[1])}
       \/ \E id : StoresResult(f, l, id) /\ B \subseteq A \ {Holding(id)}
       \/ \E id : StoresResult(f, l, id) /\ HasAddress(l.args[1]) \in A
                  /\ B \subseteq A \cup {Holding(id)}
       \/ l.op = "sw" /\ l.args[2] = 0 /\ HasAddress(l.args[3]) \in A /\ B \subseteq A

\* T says what is known before each line of s and after the last.
Annotates(f, s, T) == \A k \in 1 .. Len(s) : LineOK(f, s[k], T[k], T[k + 1])
Typed(f, s, A, B) ==
    /\ IsSequence(s)
    /\ \E T : Annotates(f, s, T) /\ T[1] \subseteq A /\ B \subseteq T[Len(s) + 1]

LEMMA TypedOne ==
    ASSUME NEW f, NEW l, NEW A, NEW B, LineOK(f, l, A, B)
    PROVE  Typed(f, <<l>>, A, B)
<1> DEFINE s == <<l>>
           T == <<A, B>>
<1>1. /\ Len(s) = 1 /\ s[1] = l /\ s = [k \in 1 .. 1 |-> s[k]]
      /\ T[1] = A /\ T[1 + 1] = B
  OBVIOUS
<1> HIDE DEF s, T
<1>2. IsSequence(s) /\ Annotates(f, s, T)
  BY <1>1 DEF IsSequence, Annotates
<1> QED
  BY <1>1, <1>2 DEF Typed, s

LEMMA TypedNone ==
    ASSUME NEW f, NEW A
    PROVE  Typed(f, <<>>, A, A)
<1> DEFINE T == <<A>>
<1>1. T[1] = A /\ Len(<<>>) = 0 /\ IsSequence(<<>>)
  BY DEF IsSequence
<1> HIDE DEF T
<1>2. Annotates(f, <<>>, T)
  BY <1>1 DEF Annotates
<1> QED
  BY <1>1, <1>2 DEF Typed

\* Less may be claimed after a line.
LEMMA LineOKWeaker ==
    ASSUME NEW f, NEW l, NEW A, NEW B, NEW C, LineOK(f, l, A, B), C \subseteq B
    PROVE  LineOK(f, l, A, C)
BY DEF LineOK

LEMMA TypedConcat ==
    ASSUME NEW f, NEW s, NEW t, NEW A, NEW B, NEW C, Typed(f, s, A, B), Typed(f, t, B, C)
    PROVE  Typed(f, s \o t, A, C)
<1>1. PICK T : Annotates(f, s, T) /\ T[1] \subseteq A /\ B \subseteq T[Len(s) + 1]
  BY DEF Typed
<1>2. PICK U : Annotates(f, t, U) /\ U[1] \subseteq B /\ C \subseteq U[Len(t) + 1]
  BY DEF Typed
<1> DEFINE m == Len(s)
           n == Len(t)
           V == [k \in 1 .. m + n + 1 |-> IF k <= m THEN T[k] ELSE U[k - m]]
           w == s \o t
<1>3. /\ IsSequence(s) /\ IsSequence(t) /\ m \in Nat /\ n \in Nat
      /\ IsSequence(w) /\ Len(w) = m + n
      /\ \A k \in 1 .. m : w[k] = s[k]
      /\ \A k \in m + 1 .. m + n : w[k] = t[k - m]
  BY Concatenated DEF Typed, IsSequence
<1>4. /\ \A k \in 1 .. m : V[k] = T[k]
      /\ \A k \in m + 1 .. m + n + 1 : V[k] = U[k - m]
  BY <1>3
<1>5. V[m + 1] = U[1] /\ U[1] \subseteq T[m + 1]
  BY <1>1, <1>2, <1>3, <1>4
<1> HIDE DEF m, n, V, w
<1>6. ASSUME NEW k \in 1 .. m PROVE LineOK(f, w[k], V[k], V[k + 1])
  <2>1. LineOK(f, s[k], T[k], T[k + 1])
    BY <1>1 DEF Annotates, m
  <2>2. w[k] = s[k] /\ V[k] = T[k] /\ V[k + 1] \subseteq T[k + 1]
    BY <1>3, <1>4, <1>5
  <2> QED
    BY <2>1, <2>2, LineOKWeaker
<1>7. ASSUME NEW k \in m + 1 .. m + n PROVE LineOK(f, w[k], V[k], V[k + 1])
  <2>1. k - m \in 1 .. n /\ (k + 1) - m = (k - m) + 1 /\ k + 1 \in m + 1 .. m + n + 1
    BY <1>3
  <2>2. LineOK(f, t[k - m], U[k - m], U[(k - m) + 1])
    BY <1>2, <2>1 DEF Annotates, n
  <2> QED
    BY <1>3, <1>4, <2>1, <2>2
<1>8. Annotates(f, w, V)
  BY <1>3, <1>6, <1>7 DEF Annotates
<1>9. V[1] \subseteq A
  <2>1. CASE m = 0
    BY <1>1, <1>3, <1>5, <2>1 DEF m
  <2>2. CASE m # 0
    BY <1>1, <1>3, <1>4, <2>2
  <2> QED
    BY <2>1, <2>2
<1>10. C \subseteq V[Len(w) + 1]
  BY <1>2, <1>3, <1>4 DEF n
<1> QED
  BY <1>3, <1>8, <1>9, <1>10 DEF Typed, w

\* More may be known before, less claimed after.
LEMMA TypedWeaker ==
    ASSUME NEW f, NEW s, NEW A, NEW B, NEW C, NEW D,
           Typed(f, s, A, B), A \subseteq C, D \subseteq B
    PROVE  Typed(f, s, C, D)
BY DEF Typed

\* The instruction a line belongs to does not matter.
Stamp(s, id) == [k \in DOMAIN s |-> [s[k] EXCEPT !.id = id]]
LEMMA TypedStamped ==
    ASSUME NEW f, NEW s, NEW A, NEW B, NEW id, Typed(f, s, A, B)
    PROVE  Typed(f, Stamp(s, id), A, B)
<1> DEFINE t == [k \in DOMAIN s |-> [s[k] EXCEPT !.id = id]]
<1>1. PICK T : Annotates(f, s, T) /\ T[1] \subseteq A /\ B \subseteq T[Len(s) + 1]
  BY DEF Typed
<1>2. Len(s) \in Nat /\ DOMAIN s = 1 .. Len(s)
  BY SequenceFacts DEF Typed, IsSequence
<1>3. t = [k \in 1 .. Len(s) |-> [s[k] EXCEPT !.id = id]]
  BY <1>2
<1>4. Len(t) = Len(s) /\ IsSequence(t)
  BY <1>2, <1>3 DEF IsSequence
<1>5. ASSUME NEW k \in 1 .. Len(s) PROVE LineOK(f, t[k], T[k], T[k + 1])
  <2> DEFINE l == s[k]
             h == [l EXCEPT !.id = id]
  <2>1. LineOK(f, l, T[k], T[k + 1]) /\ t[k] = h
    BY <1>1, <1>3 DEF Annotates
  <2>2. DOMAIN h = DOMAIN l /\ ("op" \in DOMAIN l => h.op = l.op)
        /\ ("args" \in DOMAIN l => h.args = l.args)
    OBVIOUS
  <2> HIDE DEF h, l, t
  <2>3. LineOK(f, h, T[k], T[k + 1])
    BY <2>1, <2>2 DEF LineOK, PutsAddress, StoresResult, LoadsFrom
  <2> QED
    BY <2>1, <2>3
<1> HIDE DEF t
<1>6. Annotates(f, t, T)
  BY <1>4, <1>5 DEF Annotates
<1> QED
  BY <1>1, <1>4, <1>6 DEF Typed, Stamp, t

\* The pieces of a program are typed one after the other.
LEMMA TypedFlatten ==
    ASSUME NEW f, NEW S, IsSequence(S), NEW A,
           \A k \in 1 .. Len(S) : Typed(f, S[k], A[k], A[k + 1])
    PROVE  Typed(f, FlattenSeq(S), A[1], A[Len(S) + 1])
<1> DEFINE n == Len(S)
           g == CHOOSE flatten : FlattensTo(S, flatten)
<1>1. n \in Nat
  BY DEF IsSequence
<1>2. CASE n = 0
  <2>1. FlattenSeq(S) = S /\ S = <<>>
    BY <1>2 DEF FlattenSeq, IsSequence
  <2> QED
    BY <1>2, <2>1, TypedNone
<1>3. CASE n # 0
  <2>1. FlattenSeq(S) = g[n]
    BY <1>3 DEF FlattenSeq, FlattensTo
  <2>2. FlattensTo(S, g)
    <3>1. \E flatten : FlattensTo(S, flatten)
      BY <1>1, FlattenSolved
    <3> QED
      BY <3>1
  <2> HIDE DEF g
  <2> DEFINE G == {k \in Nat : k \in 1 .. n => Typed(f, g[k], A[1], A[k + 1])}
  <2>3. 0 \in G
    OBVIOUS
  <2>4. ASSUME NEW k \in Nat, k \in G PROVE k + 1 \in G
    <3>1. SUFFICES ASSUME k + 1 \in 1 .. n PROVE Typed(f, g[k + 1], A[1], A[(k + 1) + 1])
      OBVIOUS
    <3>2. g[k + 1] = IF k = 0 THEN S[k + 1] ELSE g[k] \o S[k + 1]
      <4> DEFINE h == [i \in 1 .. n |-> IF i = 1 THEN S[i] ELSE g[i - 1] \o S[i]]
      <4>1. g = h
        BY <2>2 DEF FlattensTo
      <4>2. h[k + 1] = IF k = 0 THEN S[k + 1] ELSE g[k] \o S[k + 1]
        <5>1. k + 1 \in 1 .. n /\ (k + 1 = 1 <=> k = 0) /\ (k + 1) - 1 = k
          BY <3>1
        <5> HIDE DEF n
        <5> QED
          BY <5>1
      <4> HIDE DEF h
      <4> QED
        BY <4>1, <4>2
    <3>3. Typed(f, S[k + 1], A[k + 1], A[(k + 1) + 1])
      BY <3>1
    <3>4. CASE k = 0
      BY <3>2, <3>3, <3>4
    <3>5. CASE k # 0
      <4>1. k \in 1 .. n
        BY <1>1, <3>1, <3>5
      <4>2. Typed(f, g[k], A[1], A[k + 1])
        BY <2>4, <4>1
      <4>3. Typed(f, g[k] \o S[k + 1], A[1], A[(k + 1) + 1])
        BY <3>3, <4>2, TypedConcat
      <4> QED
        BY <3>2, <3>5, <4>3
    <3> QED
      BY <3>4, <3>5
  <2>5. Nat \subseteq G
    <3> HIDE DEF G
    <3> QED
      BY <2>3, <2>4, SetInduction
  <2>6. Typed(f, g[n], A[1], A[n + 1])
    BY <1>1, <1>3, <2>5
  <2> QED
    BY <2>1, <2>6
<1> QED
  BY <1>2, <1>3

-----------------------------------------------------------------------------
(* The code of an instruction *)

\* The slots that hold addresses.
Slots(P) == {Holding(p) : p \in P}
LEMMA SlotsAreNoRegisters ==
    ASSUME NEW P, NEW reg
    PROVE  /\ Slots(P) \cap About(reg) = {}
           /\ HasAddress(reg) \notin Slots(P) /\ IsZero(reg) \notin Slots(P)
BY DEF Slots, About, Holding, HasAddress, IsZero

\* Facts about different registers.
LEMMA OtherRegisters ==
    /\ HasAddress("t0") \notin About("t1") /\ HasAddress("t0") \notin About("t2")
    /\ IsZero("t1") \notin About("t2")
BY DEF About, HasAddress, IsZero

LEMMA AsmFields ==
    ASSUME NEW op, NEW args
    PROVE  /\ Asm(op, args).op = op /\ Asm(op, args).args = args
           /\ {"op", "args"} \subseteq DOMAIN Asm(op, args)
BY DEF Asm

\* An instruction with a result changes only its register.
LEMMA WritesRegister ==
    ASSUME NEW f, NEW op \in RegisterOps, NEW args, args[1] \in Scratch,
           NEW A, NEW B, B \subseteq A \ About(args[1]),
           op = "lw" => args[3] = "s0" \/ (args[2] = 0 /\ HasAddress(args[3]) \in A)
    PROVE  Typed(f, <<Asm(op, args)>>, A, B)
<1>1. LineOK(f, Asm(op, args), A, B)
  BY AsmFields DEF LineOK, LoadsFrom
<1> QED
  BY <1>1, TypedOne

\* A jump and a label.
LEMMA JumpTyped ==
    ASSUME NEW f, NEW op \in {"nop", "j", "bnez"}, NEW args, NEW A
    PROVE  Typed(f, <<Asm(op, args)>>, A, A)
<1>1. LineOK(f, Asm(op, args), A, A)
  BY AsmFields DEF LineOK
<1> QED
  BY <1>1, TypedOne

IsOperand(v) == v.kind \in {"PARAM", "CONST", "GLOBAL", "INSTR"}
\* Any operand can be loaded ...
LEMMA LoadTyped ==
    ASSUME NEW f, NEW v, IsOperand(v), NEW reg \in Scratch, NEW A, NEW B,
           B \subseteq A \ About(reg)
    PROVE  Typed(f, loadValue(f, v, reg), A, B)
<1> DEFINE mv == <<reg, ArgReg(v.id)>>
           li == <<reg, f.consts[v.id + 1]>>
           la == <<reg, v.id>>
           addi == <<reg, "s0", -getSlotOffset(v.id)>>
           lw == <<reg, -getSlotOffset(v.id), "s0">>
<1>1. mv[1] = reg /\ li[1] = reg /\ la[1] = reg /\ addi[1] = reg /\ lw[1] = reg /\ lw[3] = "s0"
  OBVIOUS
<1>2. loadValue(f, v, reg) \in
        {<<Asm("mv", mv)>>, <<Asm("li", li)>>, <<Asm("la", la)>>, <<Asm("addi", addi)>>,
         <<Asm("lw", lw)>>}
  BY DEF loadValue, loadFromStack, IsOperand
<1>3. {"mv", "li", "la", "addi", "lw"} \subseteq RegisterOps
  BY DEF RegisterOps, BinaryOps, UnaryOps
<1> HIDE DEF mv, li, la, addi, lw
<1> QED
  BY <1>1, <1>2, <1>3, WritesRegister

\* ... a variable puts its address into the register ...
LEMMA LoadVariableTyped ==
    ASSUME NEW f \in FunctionType, NEW v, IsVariable(f, v), v.kind = "GLOBAL" => v.id \in GlobalIDs,
           NEW reg \in Scratch, NEW A
    PROVE  Typed(f, loadValue(f, v, reg), A, (A \ About(reg)) \cup {HasAddress(reg)})
<1> DEFINE la == <<reg, v.id>>
           addi == <<reg, "s0", -getSlotOffset(v.id)>>
           B == (A \ About(reg)) \cup {HasAddress(reg)}
<1>1. CASE v.kind = "GLOBAL"
  <2>1. loadValue(f, v, reg) = <<Asm("la", la)>>
    BY <1>1 DEF loadValue
  <2>2. la[1] = reg /\ la[2] \in GlobalIDs
    BY <1>1
  <2> HIDE DEF la, B
  <2>3. LineOK(f, Asm("la", la), A, B)
    BY <2>2, AsmFields DEF LineOK, PutsAddress, B
  <2> QED
    BY <2>1, <2>3, TypedOne DEF B
<1>2. CASE v.kind = "INSTR"
  <2>1. v.id \in InstrIDs(f) /\ Instr(f, v.id).opcode = "ALLOCA" /\ v.id \in Allocas(f)
    BY <1>2 DEF IsVariable, Allocas
  <2>2. loadValue(f, v, reg) = <<Asm("addi", addi)>>
    BY <1>2, <2>1 DEF loadValue
  <2>3. addi[1] = reg /\ \E id \in Allocas(f) : addi = <<addi[1], "s0", -getSlotOffset(id)>>
    BY <2>1
  <2> HIDE DEF addi, B
  <2>4. LineOK(f, Asm("addi", addi), A, B)
    BY <2>3, AsmFields DEF LineOK, PutsAddress, B
  <2> QED
    BY <2>2, <2>4, TypedOne DEF B
<1> QED
  BY <1>1, <1>2 DEF IsVariable

\* ... the constant 0 clears it ...
LEMMA LoadZeroTyped ==
    ASSUME NEW f, NEW v, v = Value("CONST", 0), f.consts[1] = 0, NEW reg \in Scratch, NEW A
    PROVE  Typed(f, loadValue(f, v, reg), A, (A \ About(reg)) \cup {IsZero(reg)})
<1> DEFINE li == <<reg, 0>>
           B == (A \ About(reg)) \cup {IsZero(reg)}
<1>1. loadValue(f, v, reg) = <<Asm("li", li)>>
  <2>1. v.kind = "CONST" /\ v.id + 1 = 1
    BY DEF Value
  <2> QED
    BY <2>1 DEF loadValue
<1>2. li[1] = reg /\ li[2] = 0
  OBVIOUS
<1> HIDE DEF li, B
<1>3. LineOK(f, Asm("li", li), A, B)
  BY <1>2, AsmFields DEF LineOK, B
<1> QED
  BY <1>1, <1>3, TypedOne DEF B

\* ... and an address that was computed comes back.
LEMMA LoadAddressTyped ==
    ASSUME NEW f, NEW v, v.kind = "INSTR", Instr(f, v.id).opcode # "ALLOCA",
           NEW reg \in Scratch, NEW A, Holding(v.id) \in A
    PROVE  Typed(f, loadValue(f, v, reg), A, (A \ About(reg)) \cup {HasAddress(reg)})
<1> DEFINE lw == <<reg, -getSlotOffset(v.id), "s0">>
           B == (A \ About(reg)) \cup {HasAddress(reg)}
<1>1. loadValue(f, v, reg) = <<Asm("lw", lw)>>
  BY DEF loadValue, loadFromStack
<1>2. lw[1] = reg /\ lw = SlotArgs(lw[1], v.id)
  BY DEF SlotArgs
<1> HIDE DEF lw, B
<1>3. LineOK(f, Asm("lw", lw), A, B)
  BY <1>2, AsmFields DEF LineOK, PutsAddress, B
<1> QED
  BY <1>1, <1>3, TypedOne DEF B

\* Storing a result to its slot.
LEMMA PushTyped ==
    ASSUME NEW f, NEW id \in InstrIDs(f) \ Allocas(f), NEW reg, NEW A
    PROVE  /\ Typed(f, pushStack(id, reg), A, A \ {Holding(id)})
           /\ HasAddress(reg) \in A => Typed(f, pushStack(id, reg), A, A \cup {Holding(id)})
<1> DEFINE sw == <<reg, -getSlotOffset(id), "s0">>
           l == Asm("sw", sw)
<1>1. pushStack(id, reg) = <<l>>
  BY DEF pushStack
<1>2. sw[1] = reg /\ sw = SlotArgs(sw[1], id)
  BY DEF SlotArgs
<1> HIDE DEF sw
<1>3. l.op = "sw" /\ l.args = sw /\ {"op", "args"} \subseteq DOMAIN l
  BY AsmFields
<1> HIDE DEF l
<1>4. StoresResult(f, l, id) /\ l.args[1] = reg
  BY <1>2, <1>3 DEF StoresResult
<1>5. LineOK(f, l, A, A \ {Holding(id)})
  BY <1>3, <1>4 DEF LineOK
<1>6. HasAddress(reg) \in A => LineOK(f, l, A, A \cup {Holding(id)})
  BY <1>3, <1>4 DEF LineOK
<1> QED
  BY <1>1, <1>5, <1>6, TypedOne

\* Two operands are loaded, something is computed from them and stored.
LEMMA ComputeTyped ==
    ASSUME NEW f, NEW v, IsOperand(v), NEW w, IsOperand(w), NEW P,
           NEW id \in InstrIDs(f) \ Allocas(f), id \notin P,
           NEW s, Typed(f, s, Slots(P), Slots(P))
    PROVE  Typed(f, loadValue(f, v, "t0") \o loadValue(f, w, "t1") \o s \o pushStack(id, "t2"),
                 Slots(P), Slots(P))
<1> DEFINE A == Slots(P)
<1>1. A \subseteq A \ About("t0") /\ A \subseteq A \ About("t1")
  BY SlotsAreNoRegisters
<1>2. A \subseteq A \ {Holding(id)}
  BY DEF Slots, Holding
<1>3. {"t0", "t1"} \subseteq Scratch
  BY DEF Scratch
<1> HIDE DEF A
<1>4. Typed(f, loadValue(f, v, "t0"), A, A) /\ Typed(f, loadValue(f, w, "t1"), A, A)
  BY <1>1, <1>3, LoadTyped
<1>5. Typed(f, loadValue(f, v, "t0") \o loadValue(f, w, "t1"), A, A)
  BY <1>4, TypedConcat
<1>6. Typed(f, loadValue(f, v, "t0") \o loadValue(f, w, "t1") \o s, A, A)
  BY <1>5, TypedConcat DEF A
<1>7. Typed(f, pushStack(id, "t2"), A, A)
  <2>1. Typed(f, pushStack(id, "t2"), A, A \ {Holding(id)})
    BY PushTyped
  <2> QED
    BY <1>2, <2>1, TypedWeaker
<1>8. Typed(f, loadValue(f, v, "t0") \o loadValue(f, w, "t1") \o s \o pushStack(id, "t2"), A, A)
  BY <1>6, <1>7, TypedConcat
<1> QED
  BY <1>8 DEF A

\* The address of a variable plus 0 is that address.
LEMMA AddressTyped ==
    ASSUME NEW f \in FunctionType, NEW v, IsVariable(f, v), v.kind = "GLOBAL" => v.id \in GlobalIDs,
           NEW w, w = Value("CONST", 0), f.consts[1] = 0, NEW P,
           NEW id \in InstrIDs(f) \ Allocas(f)
    PROVE  Typed(f, loadValue(f, v, "t0") \o loadValue(f, w, "t1")
                    \o <<Asm("add", <<"t2", "t0", "t1">>)>> \o pushStack(id, "t2"),
                 Slots(P), Slots(P \cup {id}))
<1> DEFINE A == Slots(P)
           B == A \cup {HasAddress("t0")}
           C == B \cup {IsZero("t1")}
           D == A \cup {HasAddress("t2")}
           E == D \cup {Holding(id)}
           add == <<"t2", "t0", "t1">>
<1>1. {"t0", "t1", "t2"} \subseteq Scratch
  BY DEF Scratch
<1>2. /\ B \subseteq (A \ About("t0")) \cup {HasAddress("t0")}
      /\ C \subseteq (B \ About("t1")) \cup {IsZero("t1")}
      /\ D \subseteq (C \ About("t2")) \cup {HasAddress("t2")}
      /\ Slots(P \cup {id}) \subseteq E
  <2>1. HasAddress("t0") \notin About("t1")
    BY OtherRegisters
  <2> QED
    BY <2>1, SlotsAreNoRegisters DEF Slots
<1>3. /\ HasAddress("t0") \in C /\ IsZero("t1") \in C /\ HasAddress("t2") \in D
      /\ add[1] = "t2" /\ add[2] = "t0" /\ add[3] = "t1"
  OBVIOUS
<1> HIDE DEF add, A, B, C, D, E
<1>4. Typed(f, loadValue(f, v, "t0"), A, B)
  BY <1>1, <1>2, LoadVariableTyped, TypedWeaker
<1>5. Typed(f, loadValue(f, w, "t1"), B, C)
  BY <1>1, <1>2, LoadZeroTyped, TypedWeaker
<1>6. LineOK(f, Asm("add", add), C, D)
  BY <1>1, <1>2, <1>3, AsmFields DEF LineOK, PutsAddress
<1>7. Typed(f, <<Asm("add", add)>>, C, D)
  BY <1>6, TypedOne
<1>8. Typed(f, pushStack(id, "t2"), D, E)
  BY <1>3, PushTyped DEF E
<1>9. Typed(f, loadValue(f, v, "t0") \o loadValue(f, w, "t1"), A, C)
  BY <1>4, <1>5, TypedConcat
<1>10. Typed(f, loadValue(f, v, "t0") \o loadValue(f, w, "t1") \o <<Asm("add", add)>>, A, D)
  BY <1>7, <1>9, TypedConcat
<1>11. Typed(f, loadValue(f, v, "t0") \o loadValue(f, w, "t1") \o <<Asm("add", add)>>
               \o pushStack(id, "t2"), A, E)
  BY <1>8, <1>10, TypedConcat
<1> QED
  BY <1>2, <1>11, TypedWeaker DEF A, add

\* The comparisons change t2 alone.
LEMMA ComparisonTyped ==
    ASSUME NEW f, NEW cond \in LLVMCmpCond, NEW P
    PROVE  Typed(f, Comparison(cond), Slots(P), Slots(P))
<1> DEFINE A == Slots(P)
           one(op, a, b) == <<Asm(op, <<"t2", a, b>>)>>
           two(op) == <<Asm(op, <<"t2", "t2">>)>>
<1>1. A \subseteq A \ About("t2") /\ "t2" \in Scratch
  BY SlotsAreNoRegisters DEF Scratch
<1> HIDE DEF A
<1>2. ASSUME NEW op \in RegisterOps \ {"lw"}, NEW a, NEW b PROVE Typed(f, one(op, a, b), A, A)
  <2> DEFINE args == <<"t2", a, b>>
  <2>1. args[1] = "t2"
    OBVIOUS
  <2> HIDE DEF args
  <2>2. Typed(f, <<Asm(op, args)>>, A, A)
    BY <1>1, <2>1, WritesRegister
  <2> QED
    BY <2>2 DEF args
<1>3. ASSUME NEW op \in RegisterOps \ {"lw"} PROVE Typed(f, two(op), A, A)
  <2> DEFINE args == <<"t2", "t2">>
  <2>1. args[1] = "t2"
    OBVIOUS
  <2> HIDE DEF args
  <2>2. Typed(f, <<Asm(op, args)>>, A, A)
    BY <1>1, <2>1, WritesRegister
  <2> QED
    BY <2>2 DEF args
<1>4. {"sub", "seqz", "snez", "slt", "sltu", "xori"} \subseteq RegisterOps \ {"lw"}
  BY DEF RegisterOps, BinaryOps, UnaryOps
<1>5. Comparison(cond) \in
        {one("sub", "t0", "t1") \o two("seqz"), one("sub", "t0", "t1") \o two("snez"),
         one("sltu", "t1", "t0"), one("sltu", "t0", "t1") \o one("xori", "t2", 1),
         one("sltu", "t0", "t1"), one("slt", "t1", "t0"),
         one("slt", "t0", "t1") \o one("xori", "t2", 1), one("slt", "t0", "t1"),
         one("slt", "t1", "t0") \o one("xori", "t2", 1)}
  BY DEF Comparison, LLVMCmpCond
<1> HIDE DEF one, two
<1>6. ASSUME NEW s, NEW t, Typed(f, s, A, A), Typed(f, t, A, A) PROVE Typed(f, s \o t, A, A)
  BY <1>6, TypedConcat
<1>7. Typed(f, Comparison(cond), A, A)
  BY <1>2, <1>3, <1>4, <1>5, <1>6
<1> QED
  BY <1>7 DEF A

\* emitInstruction, opcode by opcode.
Both(f, instr) == loadValue(f, instr.operands[1], "t0") \o loadValue(f, instr.operands[2], "t1")
LEMMA EmitsByOpcode ==
    ASSUME NEW f, NEW id
    PROVE  LET instr  == Instr(f, id)
               opcode == instr.opcode
           IN /\ opcode \in DOMAIN Operation =>
                   emitInstruction(f, id) =
                     Stamp(Both(f, instr) \o <<Asm(Operation[opcode], <<"t2", "t0", "t1">>)>>
                           \o pushStack(id, "t2"), id)
              /\ opcode = "ICMP" =>
                   emitInstruction(f, id) =
                     Stamp(Both(f, instr) \o Comparison(instr.cond) \o pushStack(id, "t2"), id)
              /\ opcode = "ALLOCA" => emitInstruction(f, id) = Stamp(<<>>, id)
              /\ opcode = "LOAD" =>
                   emitInstruction(f, id) =
                     Stamp(loadValue(f, instr.operands[1], "t0") \o <<Asm("lw", <<"t1", 0, "t0">>)>>
                           \o pushStack(id, "t1"), id)
              /\ opcode = "STORE" =>
                   emitInstruction(f, id) =
                     Stamp(Both(f, instr) \o <<Asm("sw", <<"t0", 0, "t1">>)>>, id)
              /\ opcode = "BR" =>
                   emitInstruction(f, id) = Stamp(emitBranch(f, instr.operands), id)
              /\ opcode = "RET" =>
                   emitInstruction(f, id) =
                     Stamp(loadValue(f, instr.operands[1], "a0") \o <<Asm("j", <<Epilogue>>)>>, id)
BY DEF emitInstruction, Stamp, Both, Operation

\* The two emitters agree on which instructions have two operands.
LEMMA Opcodes == LLVM!Operation = DOMAIN Operation \cup {"ICMP", "STORE"}
BY DEF LLVM!Operation, Operation

\* What is asked of the operands of instruction id of f: P has the instructions
\* whose slots are known to hold addresses.
OperandsReady(f, id, P) ==
    LET instr == Instr(f, id)
    IN \A k \in DOMAIN instr.operands :
         LET v == instr.operands[k]
         IN /\ v.kind = "GLOBAL" => v.id \in GlobalIDs
            /\ v.kind = "INSTR" /\ Instr(f, v.id).type = "ptr" => v.id \in P
            /\ v.kind \in LLVMValueKind
Pointers(f, P) == {p \in P : Instr(f, p).type = "ptr"}

LEMMA OperandKinds ==
    ASSUME NEW f, NEW id, NEW P, OperandsReady(f, id, P), WellFormed(Instr(f, id)),
           NEW k \in DOMAIN Instr(f, id).operands, Instr(f, id).opcode # "BR"
    PROVE  IsOperand(Instr(f, id).operands[k])
BY DEF OperandsReady, WellFormed, IsOperand, LLVMValueKind

\* A branch loads its condition and jumps.
LEMMA BranchTyped ==
    ASSUME NEW f, NEW instr, instr.opcode = "BR", WellFormed(instr), NEW P
    PROVE  Typed(f, emitBranch(f, instr.operands), Slots(P), Slots(P))
<1> DEFINE A == Slots(P)
           ops == instr.operands
           to(k) == jump(f, ops[k])
           bnez == <<Asm("bnez", <<"t0", BlockLabel(f, ops[2])>>)>>
<1>1. A \subseteq A \ About("t0") /\ "t0" \in Scratch
  BY SlotsAreNoRegisters DEF Scratch
<1> HIDE DEF A
<1>2. \A k : Typed(f, to(k), A, A)
  BY JumpTyped DEF jump
<1>3. Typed(f, bnez, A, A)
  BY JumpTyped
<1>4. CASE Len(ops) = 1
  BY <1>2, <1>4 DEF emitBranch, A
<1>5. CASE Len(ops) # 1
  <2>1. IsOperand(ops[1])
    BY <1>5 DEF WellFormed, IsOperand
  <2>2. Typed(f, loadValue(f, ops[1], "t0"), A, A)
    BY <1>1, <2>1, LoadTyped
  <2>3. emitBranch(f, ops) = loadValue(f, ops[1], "t0") \o bnez \o to(3)
    BY <1>5 DEF emitBranch
  <2> HIDE DEF bnez, to
  <2>4. Typed(f, loadValue(f, ops[1], "t0") \o bnez, A, A)
    BY <1>3, <2>2, TypedConcat
  <2>5. Typed(f, loadValue(f, ops[1], "t0") \o bnez \o to(3), A, A)
    BY <1>2, <2>4, TypedConcat
  <2> QED
    BY <2>3, <2>5 DEF A
<1> QED
  BY <1>4, <1>5

\* The code of any instruction stores to its slot or to a variable, and an
\* address that it computes is in its slot afterwards.
LEMMA InstructionTyped ==
    ASSUME Simple, NEW f \in FunctionType, f.consts[1] = 0,
           NEW id \in InstrIDs(f), WellFormed(Instr(f, id)), Good(f, Instr(f, id)),
           Instr(f, id).opcode = "RET" => 1 \in DOMAIN Instr(f, id).operands,
           NEW P, id \notin P, OperandsReady(f, id, Pointers(f, P))
    PROVE  Typed(f, emitInstruction(f, id),
                 Slots(Pointers(f, P)), Slots(Pointers(f, P \cup {id})))
<1> DEFINE instr == Instr(f, id)
           opcode == instr.opcode
           Q == Pointers(f, P)
           A == Slots(Q)
           C == Slots(Pointers(f, P \cup {id}))
           v == instr.operands[1]
           w == instr.operands[2]
<1>1. /\ instr.type = "ptr" => C = Slots(Q \cup {id})
      /\ instr.type # "ptr" => C = A
      /\ id \notin Q
  <2>1. instr.type = "ptr" => Pointers(f, P \cup {id}) = Q \cup {id}
    BY DEF Pointers
  <2>2. instr.type # "ptr" => Pointers(f, P \cup {id}) = Q
    BY DEF Pointers
  <2> QED
    BY <2>1, <2>2 DEF Pointers
<1>2. /\ instr \in LLVMInstruction /\ opcode \in LLVMOpcode /\ instr.cond \in LLVMCmpCond
      /\ DOMAIN instr.operands = 1 .. Len(instr.operands)
  BY InstrFields DEF LLVMInstruction
<1>3. /\ opcode \in DOMAIN Operation \cup {"ICMP", "STORE"} =>
           1 \in DOMAIN instr.operands /\ 2 \in DOMAIN instr.operands
      /\ opcode \in {"LOAD", "RET"} => 1 \in DOMAIN instr.operands
  <2>1. /\ opcode \in LLVM!Operation => Len(instr.operands) = 2
        /\ opcode = "LOAD" => Len(instr.operands) = 1
        /\ opcode = "RET" => 1 \in DOMAIN instr.operands
    BY DEF WellFormed
  <2> DEFINE n == Len(instr.operands)
  <2> HIDE DEF instr, opcode
  <2>2. opcode \in DOMAIN Operation \cup {"ICMP", "STORE"} => n = 2
    BY <2>1, Opcodes, Zenon
  <2>3. DOMAIN instr.operands = 1 .. n /\ (opcode = "LOAD" => n = 1)
    BY <1>2, <2>1
  <2> HIDE DEF n
  <2>4. n = 2 => 1 \in 1 .. n /\ 2 \in 1 .. n
    OBVIOUS
  <2>5. n = 1 => 1 \in 1 .. n
    OBVIOUS
  <2> QED
    BY <2>1, <2>2, <2>3, <2>4, <2>5, Zenon
<1>4. opcode # "BR" =>
        \A k \in DOMAIN instr.operands : IsOperand(instr.operands[k])
  BY OperandKinds
<1>5. opcode # "ALLOCA" => id \in InstrIDs(f) \ Allocas(f)
  BY DEF Allocas
<1>6. A \subseteq A \ About("t0") /\ A \subseteq A \ About("t1")
      /\ A \subseteq A \ About("t2") /\ A \subseteq A \ About("a0")
      /\ A \subseteq A \ {Holding(id)}
  <2>1. Holding(id) \notin A
    BY <1>1 DEF Slots, Holding
  <2> QED
    BY <2>1, SlotsAreNoRegisters
<1>7. {"t0", "t1", "t2", "a0"} \subseteq Scratch
  BY DEF Scratch
<1>8. instr.type = "ptr" =>
        /\ opcode = "ADD" /\ 1 \in DOMAIN instr.operands
        /\ IsVariable(f, v) /\ w = Value("CONST", 0)
        /\ v.kind = "GLOBAL" => v.id \in GlobalIDs
  BY DEF Good, Plain, OperandsReady
<1>9. ASSUME NEW k \in DOMAIN instr.operands, IsAddress(f, instr.operands[k])
      PROVE  LET u == instr.operands[k]
             IN \/ IsVariable(f, u) /\ (u.kind = "GLOBAL" => u.id \in GlobalIDs)
                \/ u.kind = "INSTR" /\ Instr(f, u.id).opcode # "ALLOCA" /\ Holding(u.id) \in A
  <2> DEFINE u == instr.operands[k]
  <2>1. /\ u.kind = "GLOBAL" => u.id \in GlobalIDs
        /\ u.kind = "INSTR" /\ Instr(f, u.id).type = "ptr" => u.id \in Q
    BY DEF OperandsReady
  <2> HIDE DEF Q
  <2>2. u.kind = "INSTR" /\ Instr(f, u.id).type = "ptr" => Holding(u.id) \in A
    BY <2>1 DEF Slots
  <2> QED
    BY <1>9, <2>1, <2>2 DEF IsAddress, IsVariable
<1>10. /\ opcode = "STORE" => IsAddress(f, w)
       /\ opcode = "LOAD" => IsAddress(f, v)
  BY DEF Good, Simple
<1>11. ASSUME NEW s, Typed(f, s, A, C) PROVE Typed(f, Stamp(s, id), A, C)
  BY <1>11, TypedStamped
<1>12. SUFFICES Typed(f, emitInstruction(f, id), A, C)
  OBVIOUS
<1> HIDE DEF A, C, Q, v, w, instr, opcode
<1>13. CASE opcode \in DOMAIN Operation /\ instr.type = "ptr"
  <2>1. Operation["ADD"] = "add" /\ opcode = "ADD"
    BY <1>8, <1>13 DEF Operation
  <2>2. emitInstruction(f, id) =
          Stamp(Both(f, instr) \o <<Asm("add", <<"t2", "t0", "t1">>)>> \o pushStack(id, "t2"), id)
    BY <1>13, <2>1, EmitsByOpcode DEF instr, opcode
  <2>3. Typed(f, Both(f, instr) \o <<Asm("add", <<"t2", "t0", "t1">>)>> \o pushStack(id, "t2"),
              A, C)
    BY <1>1, <1>5, <1>8, <1>13, <2>1, AddressTyped DEF Both, A, v, w
  <2> QED
    BY <1>11, <2>2, <2>3
<1>14. CASE opcode \in DOMAIN Operation /\ instr.type # "ptr"
  <2> DEFINE args == <<"t2", "t0", "t1">>
             op == Operation[opcode]
  <2>1. op \in RegisterOps /\ op # "lw" /\ opcode \notin {"ALLOCA", "BR"}
    BY <1>14 DEF Operation, RegisterOps, BinaryOps
  <2>2. args[1] = "t2"
    OBVIOUS
  <2>3. emitInstruction(f, id) =
          Stamp(Both(f, instr) \o <<Asm(op, args)>> \o pushStack(id, "t2"), id)
    BY <1>14, EmitsByOpcode DEF instr, opcode
  <2> HIDE DEF args, op
  <2>4. Typed(f, <<Asm(op, args)>>, A, A)
    BY <1>6, <1>7, <2>1, <2>2, WritesRegister
  <2>5. IsOperand(v) /\ IsOperand(w)
    BY <1>3, <1>4, <1>14, <2>1 DEF v, w
  <2>6. Typed(f, Both(f, instr) \o <<Asm(op, args)>> \o pushStack(id, "t2"), A, A)
    BY <1>1, <1>5, <2>1, <2>4, <2>5, ComputeTyped DEF Both, A, v, w
  <2> QED
    BY <1>1, <1>11, <1>14, <2>3, <2>6
<1>15. CASE opcode = "ICMP"
  <2>1. Typed(f, Comparison(instr.cond), A, A)
    BY <1>2, ComparisonTyped DEF A
  <2>2. IsOperand(v) /\ IsOperand(w)
    BY <1>3, <1>4, <1>15 DEF v, w
  <2>3. Typed(f, Both(f, instr) \o Comparison(instr.cond) \o pushStack(id, "t2"), A, A)
    BY <1>1, <1>5, <1>15, <2>1, <2>2, ComputeTyped DEF Both, A, v, w
  <2>4. emitInstruction(f, id) =
          Stamp(Both(f, instr) \o Comparison(instr.cond) \o pushStack(id, "t2"), id)
    BY <1>15, EmitsByOpcode DEF instr, opcode
  <2>5. C = A
    BY <1>1, <1>8, <1>15
  <2> QED
    BY <1>11, <2>3, <2>4, <2>5
<1>16. CASE opcode = "ALLOCA"
  <2>1. C = A
    BY <1>1, <1>8, <1>16
  <2> QED
    BY <1>11, <1>16, <2>1, TypedNone, EmitsByOpcode DEF instr, opcode
<1>17. CASE opcode = "LOAD"
  <2> DEFINE args == <<"t1", 0, "t0">>
             B == A \cup {HasAddress("t0")}
  <2>1. args[1] = "t1" /\ args[2] = 0 /\ args[3] = "t0" /\ "lw" \in RegisterOps
    BY DEF RegisterOps
  <2>2. emitInstruction(f, id) =
          Stamp(loadValue(f, v, "t0") \o <<Asm("lw", args)>> \o pushStack(id, "t1"), id)
    BY <1>17, EmitsByOpcode DEF instr, opcode, v
  <2>9. /\ B \subseteq (A \ About("t0")) \cup {HasAddress("t0")} /\ HasAddress("t0") \in B
        /\ A \subseteq B \ About("t1")
    BY <1>6
  <2> HIDE DEF args, B
  <2>3. Typed(f, loadValue(f, v, "t0"), A, B)
    <3>1. \/ IsVariable(f, v) /\ (v.kind = "GLOBAL" => v.id \in GlobalIDs)
          \/ v.kind = "INSTR" /\ Instr(f, v.id).opcode # "ALLOCA" /\ Holding(v.id) \in A
      BY <1>3, <1>9, <1>17, <1>10 DEF v
    <3>2. Typed(f, loadValue(f, v, "t0"), A, (A \ About("t0")) \cup {HasAddress("t0")})
      BY <1>7, <3>1, LoadVariableTyped, LoadAddressTyped
    <3> QED
      BY <2>9, <3>2, TypedWeaker
  <2>4. Typed(f, <<Asm("lw", args)>>, B, A)
    BY <1>7, <2>1, <2>9, WritesRegister
  <2>5. Typed(f, pushStack(id, "t1"), A, A)
    <3>1. Typed(f, pushStack(id, "t1"), A, A \ {Holding(id)})
      BY <1>5, <1>17, PushTyped
    <3> QED
      BY <1>6, <3>1, TypedWeaker
  <2>6. Typed(f, loadValue(f, v, "t0") \o <<Asm("lw", args)>>, A, A)
    BY <2>3, <2>4, TypedConcat
  <2>7. Typed(f, loadValue(f, v, "t0") \o <<Asm("lw", args)>> \o pushStack(id, "t1"), A, A)
    BY <2>5, <2>6, TypedConcat
  <2>8. C = A
    BY <1>1, <1>8, <1>17
  <2> QED
    BY <1>11, <2>2, <2>7, <2>8
<1>18. CASE opcode = "STORE"
  <2> DEFINE args == <<"t0", 0, "t1">>
             l == Asm("sw", args)
             B == A \cup {HasAddress("t1")}
  <2>1. args[1] = "t0" /\ args[2] = 0 /\ args[3] = "t1"
    OBVIOUS
  <2>2. emitInstruction(f, id) = Stamp(Both(f, instr) \o <<Asm("sw", args)>>, id)
    BY <1>18, EmitsByOpcode DEF instr, opcode
  <2>3. B \subseteq (A \ About("t1")) \cup {HasAddress("t1")} /\ HasAddress("t1") \in B /\ A \subseteq B
    BY <1>6
  <2> HIDE DEF args, B
  <2>4. Typed(f, loadValue(f, v, "t0"), A, A)
    BY <1>3, <1>4, <1>6, <1>7, <1>18, LoadTyped DEF v
  <2>5. Typed(f, loadValue(f, w, "t1"), A, B)
    <3>2. \/ IsVariable(f, w) /\ (w.kind = "GLOBAL" => w.id \in GlobalIDs)
          \/ w.kind = "INSTR" /\ Instr(f, w.id).opcode # "ALLOCA" /\ Holding(w.id) \in A
      BY <1>3, <1>9, <1>18, <1>10 DEF w
    <3>1. Typed(f, loadValue(f, w, "t1"), A, (A \ About("t1")) \cup {HasAddress("t1")})
      BY <1>7, <3>2, LoadVariableTyped, LoadAddressTyped
    <3> QED
      BY <2>3, <3>1, TypedWeaker
  <2>6. l.op = "sw" /\ l.args = args /\ {"op", "args"} \subseteq DOMAIN l
    BY AsmFields
  <2> HIDE DEF l
  <2>7. LineOK(f, l, B, A)
    BY <2>1, <2>3, <2>6 DEF LineOK
  <2>8. Typed(f, <<l>>, B, A)
    BY <2>7, TypedOne
  <2>9. Typed(f, loadValue(f, v, "t0") \o loadValue(f, w, "t1"), A, B)
    BY <2>4, <2>5, TypedConcat
  <2>10. Typed(f, loadValue(f, v, "t0") \o loadValue(f, w, "t1") \o <<l>>, A, A)
    BY <2>8, <2>9, TypedConcat
  <2>11. C = A
    BY <1>1, <1>8, <1>18
  <2> QED
    BY <1>11, <2>2, <2>10, <2>11 DEF Both, v, w, l
<1>19. CASE opcode = "BR"
  <2>1. Typed(f, emitBranch(f, instr.operands), A, A)
    BY <1>19, BranchTyped DEF A, instr, opcode
  <2>2. C = A
    BY <1>1, <1>8, <1>19
  <2> QED
    BY <1>11, <1>19, <2>1, <2>2, EmitsByOpcode DEF instr, opcode
<1>20. CASE opcode = "RET"
  <2>1. Typed(f, loadValue(f, v, "a0"), A, A)
    BY <1>3, <1>4, <1>6, <1>7, <1>20, LoadTyped DEF v
  <2>2. Typed(f, <<Asm("j", <<Epilogue>>)>>, A, A)
    BY JumpTyped
  <2>3. Typed(f, loadValue(f, v, "a0") \o <<Asm("j", <<Epilogue>>)>>, A, A)
    BY <2>1, <2>2, TypedConcat
  <2>4. C = A
    BY <1>1, <1>8, <1>20
  <2> QED
    BY <1>11, <1>20, <2>3, <2>4, EmitsByOpcode DEF instr, opcode, v
<1>21. opcode \in DOMAIN Operation \cup {"ICMP", "ALLOCA", "LOAD", "STORE", "BR", "RET"}
  BY <1>2 DEF LLVMOpcode, Operation
<1> QED
  BY <1>13, <1>14, <1>15, <1>16, <1>17, <1>18, <1>19, <1>20, <1>21

\* What the code of a function relies on.
CodeReady(f) ==
    /\ f \in FunctionType /\ f.consts[1] = 0
    /\ \A b \in BlockIDs(f) : \A i \in InstrIDs(f) :
         Lists(f, b, i) /\ Instr(f, i).opcode = "RET" => 1 \in DOMAIN Instr(f, i).operands
    /\ AllWellFormed(f) /\ AllFine(f) /\ ListsExisting(f) /\ InOrder(f)
    /\ \A i \in InstrIDs(f) : \A k \in DOMAIN Instr(f, i).operands :
         LET v == Instr(f, i).operands[k]
         IN /\ v.kind = "GLOBAL" => v.id \in GlobalIDs
            /\ v.kind = "INSTR" => v.id < i

\* An address that an instruction of a block uses was computed before it in
\* that block.
LEMMA BlockOperands ==
    ASSUME Simple, NEW f, CodeReady(f), NEW b \in BlockIDs(f),
           NEW k \in 1 .. Len(Block(f, b).instrIDs)
    PROVE  LET ids == Block(f, b).instrIDs
               P   == {ids[j] : j \in 1 .. k - 1}
           IN /\ ids[k] \in InstrIDs(f) /\ ids[k] \notin P
              /\ OperandsReady(f, ids[k], Pointers(f, P))
<1> DEFINE ids == Block(f, b).instrIDs
           P == {ids[j] : j \in 1 .. k - 1}
           i == ids[k]
           instr == Instr(f, i)
<1>1. f \in FunctionType /\ b \in Nat
  BY DEF CodeReady, BlockIDs, LastBlock
<1>2. ids \in Seq(Nat) /\ DOMAIN ids = 1 .. Len(ids) /\ Len(ids) \in Nat
  BY <1>1, BlockFields
<1>3. \A j, l \in DOMAIN ids : j < l => ids[j] < ids[l]
  <2>1. \A c \in BlockIDs(f) :
          \A j \in DOMAIN Block(f, b).instrIDs, l \in DOMAIN Block(f, c).instrIDs :
            b < c \/ (b = c /\ j < l) => Block(f, b).instrIDs[j] < Block(f, c).instrIDs[l]
    BY DEF CodeReady, InOrder
  <2> QED
    BY <2>1
<1>4. Lists(f, b, i) /\ i \in InstrIDs(f)
  BY <1>2 DEF Lists, CodeReady, ListsExisting
<1>5. i \notin P
  <2>1. SUFFICES ASSUME NEW j \in 1 .. k - 1, ids[j] = ids[k] PROVE FALSE
    OBVIOUS
  <2>2. j \in DOMAIN ids /\ k \in DOMAIN ids /\ j < k
    BY <1>2
  <2> HIDE DEF ids
  <2>3. ids[j] < ids[k] /\ ids[k] \in Nat
    BY <1>2, <1>3, <2>2
  <2> QED
    BY <2>1, <2>3
<1>6. \A m : Lists(f, b, m) /\ m < i => m \in P
  <2>1. SUFFICES ASSUME NEW l \in DOMAIN ids, ids[l] < i PROVE ids[l] \in P
    BY DEF Lists
  <2>2. l < k
    BY <1>2, <1>3, <2>1
  <2> QED
    BY <1>2, <2>2
<1>7. Good(f, instr) /\ Local(f, b, instr)
  BY <1>4 DEF CodeReady, AllFine, Fine
<1> HIDE DEF P
<1>8. ASSUME NEW n \in DOMAIN instr.operands
      PROVE  LET v == instr.operands[n]
             IN /\ v.kind = "GLOBAL" => v.id \in GlobalIDs
                /\ v.kind = "INSTR" /\ Instr(f, v.id).type = "ptr" => v.id \in Pointers(f, P)
                /\ v.kind \in LLVMValueKind
  <2> DEFINE v == instr.operands[n]
  <2>1. /\ v.kind = "GLOBAL" => v.id \in GlobalIDs
        /\ v.kind = "INSTR" => v.id < i
    BY <1>4 DEF CodeReady
  <2>2. v \in LLVMValueID
    BY <1>1, <1>4, InstrFields
  <2>3. ASSUME v.kind = "INSTR", Instr(f, v.id).type = "ptr" PROVE v.id \in P
    <3>1. Uses(instr, v.id)
      BY <2>3 DEF Uses
    <3>2. v.id \in InstrIDs(f) /\ (Instr(f, v.id).opcode = "ALLOCA" \/ Lists(f, b, v.id))
      BY <1>7, <3>1 DEF Good, Local, Simple
    <3>3. Instr(f, v.id).opcode # "ALLOCA"
      BY <2>3, <3>2 DEF CodeReady, AllFine, Fine, Good, Plain
    <3> QED
      BY <1>6, <2>1, <2>3, <3>2, <3>3
  <2> HIDE DEF v
  <2>4. v.kind = "INSTR" /\ Instr(f, v.id).type = "ptr" => v.id \in Pointers(f, P)
    BY <2>3 DEF Pointers
  <2> QED
    BY <2>1, <2>2, <2>4 DEF LLVMValueID, v
<1>9. OperandsReady(f, i, Pointers(f, P))
  BY <1>8 DEF OperandsReady
<1> QED
  BY <1>4, <1>5, <1>9 DEF P

LEMMA TwoLines ==
    ASSUME NEW a, NEW b
    PROVE  <<a>> \o <<b>> = <<a, b>>
<1> DEFINE s == <<a>>
           t == <<b>>
           w == s \o t
           pair == <<a, b>>
<1>1. /\ IsSequence(s) /\ Len(s) = 1 /\ s[1] = a
      /\ IsSequence(t) /\ Len(t) = 1 /\ t[1] = b
  BY DEF IsSequence
<1>2. pair = [k \in 1 .. 2 |-> IF k = 1 THEN a ELSE b]
  OBVIOUS
<1> HIDE DEF s, t, pair
<1>3. /\ IsSequence(w) /\ Len(w) = Len(s) + Len(t)
      /\ \A k \in 1 .. Len(s) : w[k] = s[k]
      /\ \A k \in Len(s) + 1 .. Len(s) + Len(t) : w[k] = t[k - Len(s)]
  BY <1>1, Concatenated
<1> HIDE DEF w
<1>4. Len(w) = 2 /\ w[1] = a /\ w[2] = b
  BY <1>1, <1>3
<1>5. w = [k \in 1 .. 2 |-> w[k]]
  BY <1>3, <1>4 DEF IsSequence
<1>6. w = pair
  BY <1>2, <1>4, <1>5
<1> QED
  BY <1>6 DEF w, s, t, pair

LEMMA BlockTyped ==
    ASSUME Simple, NEW f, CodeReady(f), NEW b \in BlockIDs(f)
    PROVE  Typed(f, emitBlock(f, Block(f, b)), {}, {})
<1> DEFINE ids == Block(f, b).instrIDs
           n == Len(ids)
           P(k) == {ids[j] : j \in 1 .. k - 1}
           S == [k \in DOMAIN ids |-> emitInstruction(f, ids[k])]
           A == [k \in 1 .. n + 1 |-> Slots(Pointers(f, P(k)))]
           head == IF Block(f, b).label.role = "entry" THEN <<>>
                   ELSE <<Asm("label", <<Block(f, b).label>>), Asm("nop", <<>>)>>
<1>1. f \in FunctionType /\ f.consts[1] = 0
  BY DEF CodeReady
<1>2. n \in Nat /\ DOMAIN ids = 1 .. n
  BY <1>1, BlockFields
<1>3. ASSUME NEW k \in 1 .. n PROVE Typed(f, S[k], A[k], A[k + 1])
  <2>1. /\ ids[k] \in InstrIDs(f) /\ ids[k] \notin P(k)
        /\ OperandsReady(f, ids[k], Pointers(f, P(k)))
    BY <1>2, BlockOperands
  <2>6. Lists(f, b, ids[k])
    BY <1>2 DEF Lists
  <2>2. P(k + 1) = P(k) \cup {ids[k]}
    BY <1>2
  <2>3. A[k] = Slots(Pointers(f, P(k))) /\ A[k + 1] = Slots(Pointers(f, P(k + 1)))
        /\ S[k] = emitInstruction(f, ids[k])
    BY <1>2
  <2>4. /\ WellFormed(Instr(f, ids[k])) /\ Good(f, Instr(f, ids[k]))
        /\ Instr(f, ids[k]).opcode = "RET" => 1 \in DOMAIN Instr(f, ids[k]).operands
    BY <2>1, <2>6 DEF CodeReady, AllWellFormed, AllFine, Fine
  <2> HIDE DEF P, A, S
  <2>5. Typed(f, emitInstruction(f, ids[k]), Slots(Pointers(f, P(k))),
              Slots(Pointers(f, P(k) \cup {ids[k]})))
    BY <1>1, <2>1, <2>6, <2>4, InstructionTyped
  <2> QED
    BY <2>2, <2>3, <2>5
<1>4. Len(S) = n /\ IsSequence(S)
  <2>1. S = [k \in 1 .. n |-> S[k]] /\ S \in Seq({S[k] : k \in 1 .. n})
    BY <1>2
  <2> HIDE DEF S
  <2>2. Len(S) = n
    BY <1>2, <2>1
  <2> QED
    BY <1>2, <2>1, <2>2 DEF IsSequence
<1>5. A[1] = {}
  <2>1. P(1) = {}
    OBVIOUS
  <2>2. A[1] = Slots(Pointers(f, P(1)))
    BY <1>2
  <2> HIDE DEF P, A
  <2> QED
    BY <2>1, <2>2 DEF Slots, Pointers
<1>6. Typed(f, head, {}, {})
  <2>1. Typed(f, <<>>, {}, {})
    BY TypedNone
  <2> DEFINE l == <<Block(f, b).label>>
             label == Asm("label", l)
             nop == Asm("nop", <<>>)
  <2>2. LineOK(f, label, {}, {})
    <3> HIDE DEF l
    <3> QED
      BY AsmFields DEF LineOK
  <2>3. Typed(f, <<nop>>, {}, {})
    BY JumpTyped
  <2> HIDE DEF label, nop
  <2>4. Typed(f, <<label>> \o <<nop>>, {}, {})
    BY <2>2, <2>3, TypedOne, TypedConcat
  <2>5. <<label>> \o <<nop>> = <<label, nop>>
    BY TwoLines
  <2> QED
    BY <2>1, <2>4, <2>5 DEF label, nop
<1>7. emitBlock(f, Block(f, b)) = head \o FlattenSeq(S)
  BY DEF emitBlock
<1> HIDE DEF S, A, P, head
<1>8. Typed(f, FlattenSeq(S), {}, A[n + 1])
  BY <1>3, <1>4, <1>5, TypedFlatten
<1>9. Typed(f, FlattenSeq(S), {}, {})
  BY <1>8, TypedWeaker
<1> QED
  BY <1>6, <1>7, <1>9, TypedConcat

\* The assembly between prologue and epilogue.
Body(f) == FlattenSeq([b \in DOMAIN f.blocks |-> emitBlock(f, f.blocks[b])])
LEMMA BodyTyped ==
    ASSUME Simple, NEW f, CodeReady(f)
    PROVE  Typed(f, Body(f), {}, {})
<1> DEFINE n == Len(f.blocks)
           S == [b \in DOMAIN f.blocks |-> emitBlock(f, f.blocks[b])]
           A == [k \in 1 .. n + 1 |-> {}]
<1>1. n \in Nat /\ DOMAIN f.blocks = 1 .. n
  BY FunctionFields DEF CodeReady
<1>2. ASSUME NEW k \in 1 .. n PROVE Typed(f, S[k], A[k], A[k + 1])
  <2>1. k - 1 \in BlockIDs(f) /\ Block(f, k - 1) = f.blocks[k]
    BY <1>1 DEF BlockIDs, LastBlock, Block
  <2>2. S[k] = emitBlock(f, f.blocks[k]) /\ A[k] = {} /\ A[k + 1] = {}
    BY <1>1
  <2> HIDE DEF S, A
  <2> QED
    BY <2>1, <2>2, BlockTyped
<1>3. Len(S) = n /\ IsSequence(S)
  <2>1. S = [k \in 1 .. n |-> S[k]] /\ S \in Seq({S[k] : k \in 1 .. n})
    BY <1>1
  <2> HIDE DEF S
  <2>2. Len(S) = n
    BY <1>1, <2>1
  <2> QED
    BY <1>1, <2>1, <2>2 DEF IsSequence
<1>4. A[1] = {} /\ A[n + 1] = {}
  BY <1>1
<1>5. Body(f) = FlattenSeq(S)
  BY DEF Body
<1> HIDE DEF S, A
<1>6. Typed(f, FlattenSeq(S), A[1], A[n + 1])
  BY <1>2, <1>3, TypedFlatten
<1> QED
  BY <1>4, <1>5, <1>6

-----------------------------------------------------------------------------
(* The core runs the code *)

\* The stack frame of a function that fits below the caller's.
FrameSize(f) == totalFrameSize(Len(f.instructions))
LEMMA FramePlaced ==
    ASSUME NEW f \in FunctionType, FitsInMemory(f)
    PROVE  LET size == FrameSize(f)
           IN /\ StackTop \in Nat /\ size \in Nat /\ 8 <= size /\ size <= StackTop
              /\ StackTop < WordSize /\ WordSize \in Nat
              /\ StackTop - 4 \in Addresses
              /\ \A a \in GlobalAddresses : a \in Nat /\ a < StackTop - size
              /\ \A id \in InstrIDs(f) :
                   /\ id \in Nat /\ SlotAddress(id) = StackTop - (8 + 8 * id)
                   /\ SlotAddress(id) \in Addresses
                   /\ SlotAddress(id) \in StackTop - size .. StackTop - 1
                   /\ SlotAddress(id) # StackTop - 4
<1> DEFINE n == Len(f.instructions)
           size == FrameSize(f)
           W == WordSize
<1>1. /\ n \in Nat /\ \A id \in InstrIDs(f) : id \in Nat /\ id <= n - 1
  BY FunctionFields DEF InstrIDs, LastInstr
<1>2. size \in Nat /\ 8 + 8 * n <= size
  BY <1>1, Rounding DEF FrameSize
<1>3. W \in Nat /\ StackTop \in 0 .. W - 1 /\ StackTop % 4 = 0
  BY MachineAssumption, WordSizeIsNat DEF Addresses, Word, wordBytes
<1>4. StackTop - size >= 0 /\ \A a \in GlobalAddresses : a < StackTop - size
  BY DEF FitsInMemory, FrameSize
<1> HIDE DEF n, size, W
<1>5. \A a : a \in 0 .. W - 1 /\ a % 4 = 0 => a \in Addresses
  BY DEF Addresses, Word, wordBytes, W
<1>6. StackTop - 4 \in Addresses
  <2>1. StackTop - 4 \in 0 .. W - 1 /\ (StackTop - 4) % 4 = 0
    BY <1>1, <1>2, <1>3, <1>4
  <2> QED
    BY <1>5, <2>1
<1>7. \A a \in GlobalAddresses : a \in Nat
  BY MachineAssumption DEF GlobalAddresses, GlobalAddress, wordBytes
<1>8. ASSUME NEW id \in InstrIDs(f)
      PROVE  /\ id \in Nat /\ SlotAddress(id) = StackTop - (8 + 8 * id)
             /\ SlotAddress(id) \in Addresses
             /\ SlotAddress(id) \in StackTop - size .. StackTop - 1
             /\ SlotAddress(id) # StackTop - 4
  <2> DEFINE a == StackTop - (8 + 8 * id)
  <2>1. id \in Nat /\ 8 + 8 * id <= size
    BY <1>1, <1>2
  <2>2. a \in 0 .. W - 1 /\ a % 4 = 0 /\ a \in StackTop - size .. StackTop - 1 /\ a # StackTop - 4
    BY <1>2, <1>3, <1>4, <2>1
  <2>3. a % W = a
    BY <1>3, <2>2
  <2>4. getSlotOffset(id) = 8 + 8 * id
    BY <2>1 DEF getSlotOffset, prologueSize, stackItemSize
  <2>5. SlotAddress(id) = a
    BY <2>3, <2>4 DEF SlotAddress, Wrap, W
  <2> HIDE DEF a
  <2> QED
    BY <1>5, <2>1, <2>2, <2>5 DEF a
<1> QED
  BY <1>2, <1>3, <1>4, <1>6, <1>7, <1>8, <1>1 DEF size, W

\* Slots are apart.
LEMMA SlotsApart ==
    ASSUME NEW f \in FunctionType, FitsInMemory(f),
           NEW i \in InstrIDs(f), NEW j \in InstrIDs(f), SlotAddress(i) = SlotAddress(j)
    PROVE  i = j
<1>1. /\ i \in Nat /\ j \in Nat /\ StackTop \in Nat
      /\ SlotAddress(i) = StackTop - (8 + 8 * i) /\ SlotAddress(j) = StackTop - (8 + 8 * j)
  BY FramePlaced
<1>2. StackTop - (8 + 8 * i) = StackTop - (8 + 8 * j)
  BY <1>1
<1>3. ASSUME NEW top \in Nat, top - (8 + 8 * i) = top - (8 + 8 * j) PROVE i = j
  BY <1>1, <1>3
<1> QED
  BY <1>1, <1>2, <1>3

\* The variables of f, and what a fact says of registers and memory.
Variables(f) == GlobalAddresses \cup {SlotAddress(id) : id \in Allocas(f)}
Holds(f, A, registers, memory) ==
    /\ \A reg : HasAddress(reg) \in A => registers[reg] \in Variables(f)
    /\ \A reg : IsZero(reg) \in A => registers[reg] = 0
    /\ \A id : Holding(id) \in A =>
         id \in InstrIDs(f) \ Allocas(f) /\ memory[SlotAddress(id)] \in Variables(f)

LEMMA VariablesPlaced ==
    ASSUME NEW f \in FunctionType, FitsInMemory(f), NEW a \in Variables(f)
    PROVE  /\ a \in Nat /\ a < WordSize /\ a # StackTop - 4 /\ Wrap(a) = a
           /\ a \in GlobalAddresses \/ a \in StackTop - FrameSize(f) .. StackTop - 1
           /\ \A id \in InstrIDs(f) \ Allocas(f) : a # SlotAddress(id)
<1> DEFINE size == FrameSize(f)
<1>1. /\ StackTop \in Nat /\ size \in Nat /\ 8 <= size /\ size <= StackTop
      /\ StackTop < WordSize /\ WordSize \in Nat
      /\ \A g \in GlobalAddresses : g \in Nat /\ g < StackTop - size
  BY FramePlaced
<1>2. \A id \in InstrIDs(f) :
        SlotAddress(id) \in StackTop - size .. StackTop - 1 /\ SlotAddress(id) # StackTop - 4
  BY FramePlaced
<1> HIDE DEF size
<1>3. CASE a \in GlobalAddresses
  <2>1. \A id \in InstrIDs(f) \ Allocas(f) : a # SlotAddress(id)
    BY <1>1, <1>2, <1>3
  <2>2. a % WordSize = a
    BY <1>1, <1>3
  <2> QED
    BY <1>1, <1>3, <2>1, <2>2 DEF Wrap
<1>4. CASE \E id \in Allocas(f) : a = SlotAddress(id)
  <2>1. PICK id \in Allocas(f) : a = SlotAddress(id)
    BY <1>4
  <2>2. id \in InstrIDs(f)
    BY DEF Allocas
  <2>3. \A i \in InstrIDs(f) \ Allocas(f) : a # SlotAddress(i)
    BY <2>1, <2>2, SlotsApart
  <2>4. a \in StackTop - size .. StackTop - 1 /\ a # StackTop - 4
    BY <1>2, <2>1, <2>2
  <2>5. a \in Nat /\ a < WordSize /\ a % WordSize = a
    BY <1>1, <2>4
  <2> QED
    BY <2>3, <2>4, <2>5 DEF size, Wrap
<1> QED
  BY <1>3, <1>4 DEF Variables

\* One instruction of the core, by its operation.
LEMMA StepByOp ==
    ASSUME pc # 0, Step
    PROVE  /\ UNCHANGED <<func, code>>
           /\ Here.op \in RegisterOps =>
                /\ mem' = mem /\ pc' = pc + 1
                /\ \E word :
                     /\ regs' = [regs EXCEPT ![Arg(1)] = word]
                     /\ Here.op = "la" => word = GlobalAddress(Arg(2))
                     /\ Here.op = "li" => word = Wrap(Arg(2))
                     /\ Here.op = "addi" => word = Wrap(regs[Arg(2)] + Arg(3))
                     /\ Here.op = "lw" => word = mem[EffectiveAddress]
                     /\ Here.op = "add" => word = Wrap(regs[Arg(2)] + regs[Arg(3)])
           /\ Here.op = "sw" =>
                /\ mem' = [mem EXCEPT ![EffectiveAddress] = regs[Arg(1)]]
                /\ regs' = regs /\ pc' = pc + 1
           /\ Here.op \in {"label", "nop", "j", "bnez"} =>
                /\ mem' = mem /\ regs' = regs
                /\ pc' = pc + 1 \/ \E label : pc' \in Labels(label)
           /\ Here.op \in {"label", "nop"} => pc' = pc + 1
           /\ Here.op = "ret" => mem' = mem /\ regs' = regs /\ pc' = 0
<1>1. CASE ComputeBinary
  <2>1. /\ Here.op \in BinaryOps /\ mem' = mem /\ pc' = pc + 1 /\ UNCHANGED <<func, code>>
        /\ regs' = [regs EXCEPT ![Arg(1)] = ALU(Here.op, regs[Arg(2)], regs[Arg(3)])]
    BY <1>1 DEF ComputeBinary, Write, Advance, Keep
  <2>2. Here.op = "add" => ALU(Here.op, regs[Arg(2)], regs[Arg(3)]) = Wrap(regs[Arg(2)] + regs[Arg(3)])
    BY DEF ALU
  <2>3. Here.op \notin {"la", "li", "addi", "lw", "sw", "label", "nop", "j", "bnez", "ret"}
    BY <2>1 DEF BinaryOps
  <2> QED
    BY <2>1, <2>2, <2>3
<1>2. CASE ComputeUnary
  <2> DEFINE operand == regs[Arg(2)]
             word == CASE Here.op = "mv"   -> operand
                       [] Here.op = "seqz" -> Flag(operand = 0)
                       [] Here.op = "snez" -> Flag(operand # 0)
                       [] Here.op = "addi" -> Wrap(operand + Arg(3))
                       [] Here.op = "xori" -> Xor(operand, Wrap(Arg(3)))
  <2>1. /\ Here.op \in UnaryOps /\ mem' = mem /\ pc' = pc + 1 /\ UNCHANGED <<func, code>>
        /\ regs' = [regs EXCEPT ![Arg(1)] = word]
    BY <1>2 DEF ComputeUnary, Write, Advance, Keep
  <2>2. Here.op = "addi" => word = Wrap(operand + Arg(3))
    OBVIOUS
  <2>3. Here.op \notin {"la", "li", "add", "lw", "sw", "label", "nop", "j", "bnez", "ret"}
    BY <2>1 DEF UnaryOps
  <2> HIDE DEF word
  <2> QED
    BY <2>1, <2>2, <2>3
<1>3. CASE LoadImmediate
  <2>1. /\ Here.op \in {"li", "la"} /\ mem' = mem /\ pc' = pc + 1 /\ UNCHANGED <<func, code>>
        /\ regs' = [regs EXCEPT ![Arg(1)] =
                      IF Here.op = "li" THEN Wrap(Arg(2)) ELSE GlobalAddress(Arg(2))]
    BY <1>3 DEF LoadImmediate, Write, Advance, Keep
  <2> QED
    BY <2>1
<1>4. CASE LoadWord
  <2>1. /\ Here.op = "lw" /\ mem' = mem /\ pc' = pc + 1 /\ UNCHANGED <<func, code>>
        /\ regs' = [regs EXCEPT ![Arg(1)] = mem[EffectiveAddress]]
    BY <1>4 DEF LoadWord, Write, Advance, Keep
  <2> QED
    BY <2>1
<1>5. CASE StoreWord
  <2>1. Here.op = "sw" /\ Here.op \notin RegisterOps
    BY <1>5 DEF StoreWord, RegisterOps, BinaryOps, UnaryOps
  <2> QED
    BY <1>5, <2>1 DEF StoreWord, Advance, Keep
<1>6. CASE Jump \/ BranchIfNotZero \/ Skip \/ ReturnToCaller
  <2>1. Here.op \in {"j", "bnez", "label", "nop", "ret"} /\ Here.op \notin RegisterOps
    BY <1>6 DEF Jump, BranchIfNotZero, Skip, ReturnToCaller, RegisterOps, BinaryOps, UnaryOps
  <2> QED
    BY <1>6, <2>1 DEF Jump, BranchIfNotZero, Skip, ReturnToCaller, Advance, Keep
<1> QED
  BY <1>1, <1>2, <1>3, <1>4, <1>5, <1>6 DEF Step

\* The core's registers and memory.
Wired == regs = [r \in Registers |-> regs[r]] /\ mem = [a \in Addresses |-> mem[a]]

\* What a function may write.
InReach(f, a) == a \in GlobalAddresses \/ a \in StackTop - FrameSize(f) .. StackTop - 1

LEMMA ScratchIsWired ==
    /\ Scratch \subseteq Registers
    /\ {"sp", "s0", "ra"} \subseteq Registers
    /\ "sp" \notin Scratch /\ "s0" \notin Scratch /\ "ra" \notin Scratch
<1>1. "a0" \in ArgRegs
  <2>1. ArgReg(0) = "a0"
    BY DEF ArgReg
  <2> QED
    BY <2>1 DEF ArgRegs
<1> QED
  BY <1>1 DEF Scratch, Registers

\* After a write to a register, what was known of the others holds.
LEMMA WriteHolds ==
    ASSUME Wired, NEW f, NEW A, Holds(f, A, regs, mem), NEW reg \in Scratch, NEW word,
           NEW changed, changed = [regs EXCEPT ![reg] = word]
    PROVE  /\ changed = [r \in Registers |-> changed[r]] /\ changed[reg] = word
           /\ changed["sp"] = regs["sp"] /\ changed["s0"] = regs["s0"] /\ changed["ra"] = regs["ra"]
           /\ \A B : B \subseteq A \ About(reg) => Holds(f, B, changed, mem)
           /\ \A B : /\ B \subseteq (A \ About(reg)) \cup {HasAddress(reg)}
                     /\ word \in Variables(f)
                     => Holds(f, B, changed, mem)
           /\ \A B : /\ B \subseteq (A \ About(reg)) \cup {IsZero(reg)} /\ word = 0
                     => Holds(f, B, changed, mem)
<1>1. reg \in Registers /\ reg \notin {"sp", "s0", "ra"} /\ {"sp", "s0", "ra"} \subseteq Registers
  BY ScratchIsWired
<1>2. \A r : r # reg => changed[r] = regs[r]
  OBVIOUS
<1>3. changed = [r \in Registers |-> changed[r]] /\ changed[reg] = word
  BY <1>1 DEF Wired
<1> HIDE DEF Wired
<1>4. /\ \A r, s : HasAddress(r) # IsZero(s)
      /\ \A r, i : HasAddress(r) # Holding(i) /\ IsZero(r) # Holding(i)
      /\ \A r, s : HasAddress(r) = HasAddress(s) => r = s
      /\ \A r, s : IsZero(r) = IsZero(s) => r = s
  BY DEF HasAddress, IsZero, Holding
<1>5. \A r : (HasAddress(r) \notin About(reg) \/ IsZero(r) \notin About(reg)) => r # reg
  BY DEF About
<1>6. \A B : B \subseteq A \ About(reg) => Holds(f, B, changed, mem)
  BY <1>2, <1>5 DEF Holds
<1>7. \A B : /\ B \subseteq (A \ About(reg)) \cup {HasAddress(reg)} /\ word \in Variables(f)
             => Holds(f, B, changed, mem)
  <2>1. SUFFICES ASSUME NEW B, B \subseteq (A \ About(reg)) \cup {HasAddress(reg)},
                        word \in Variables(f)
                 PROVE  Holds(f, B, changed, mem)
    OBVIOUS
  <2>2. \A r : HasAddress(r) \in B /\ r # reg => HasAddress(r) \in A
    BY <1>4, <2>1
  <2>3. \A r : IsZero(r) \in B => IsZero(r) \in A /\ r # reg
    BY <1>4, <1>5, <2>1
  <2>4. \A i : Holding(i) \in B => Holding(i) \in A
    BY <1>4, <2>1
  <2> QED
    BY <1>2, <1>3, <2>1, <2>2, <2>3, <2>4 DEF Holds
<1>8. \A B : /\ B \subseteq (A \ About(reg)) \cup {IsZero(reg)} /\ word = 0
             => Holds(f, B, changed, mem)
  <2>1. SUFFICES ASSUME NEW B, B \subseteq (A \ About(reg)) \cup {IsZero(reg)}, word = 0
                 PROVE  Holds(f, B, changed, mem)
    OBVIOUS
  <2>2. \A r : IsZero(r) \in B /\ r # reg => IsZero(r) \in A
    BY <1>4, <2>1
  <2>3. \A r : HasAddress(r) \in B => HasAddress(r) \in A /\ r # reg
    BY <1>4, <1>5, <2>1
  <2>4. \A i : Holding(i) \in B => Holding(i) \in A
    BY <1>4, <2>1
  <2> QED
    BY <1>2, <1>3, <2>1, <2>2, <2>3, <2>4 DEF Holds
<1> QED
  BY <1>1, <1>2, <1>3, <1>6, <1>7, <1>8

\* An operand of a load or a store that names a slot, and the address of one.
LEMMA SlotOperand ==
    ASSUME NEW f \in FunctionType, FitsInMemory(f), NEW id \in InstrIDs(f),
           regs["s0"] = StackTop
    PROVE  /\ Here.args = SlotArgs(Arg(1), id) => EffectiveAddress = SlotAddress(id)
           /\ Here.args = <<Arg(1), "s0", -getSlotOffset(id)>> =>
                Wrap(regs[Arg(2)] + Arg(3)) = SlotAddress(id)
<1>1. StackTop \in Nat /\ getSlotOffset(id) \in Int
  BY FramePlaced DEF getSlotOffset, prologueSize, stackItemSize
<1>2. StackTop + (-getSlotOffset(id)) = StackTop - getSlotOffset(id)
  BY <1>1
<1>3. SlotAddress(id) = Wrap(StackTop + (-getSlotOffset(id)))
  BY <1>2 DEF SlotAddress
<1>4. CASE Here.args = SlotArgs(Arg(1), id)
  <2>1. Arg(3) = "s0" /\ Arg(2) = -getSlotOffset(id)
    BY <1>4 DEF Arg, SlotArgs
  <2>2. regs[Arg(3)] + Arg(2) = StackTop + (-getSlotOffset(id))
    BY <2>1
  <2>3. Here.args # <<Arg(1), "s0", -getSlotOffset(id)>>
           \/ Wrap(regs[Arg(2)] + Arg(3)) = SlotAddress(id)
    <3>1. SUFFICES ASSUME Here.args = <<Arg(1), "s0", -getSlotOffset(id)>>
                   PROVE  Wrap(regs[Arg(2)] + Arg(3)) = SlotAddress(id)
      OBVIOUS
    <3>2. Arg(2) = "s0" /\ Arg(3) = -getSlotOffset(id)
      BY <3>1 DEF Arg
    <3> QED
      BY <1>3, <3>2
  <2> QED
    BY <1>3, <2>2, <2>3 DEF EffectiveAddress
<1>5. CASE Here.args = <<Arg(1), "s0", -getSlotOffset(id)>> /\ Here.args # SlotArgs(Arg(1), id)
  <2>1. Arg(2) = "s0" /\ Arg(3) = -getSlotOffset(id)
    BY <1>5 DEF Arg
  <2> QED
    BY <1>3, <1>5, <2>1
<1> QED
  BY <1>4, <1>5

\* After a store, what was known of registers and of the other slots holds.
LEMMA StoreHolds ==
    ASSUME NEW f, NEW A, Holds(f, A, regs, mem), NEW a, NEW word,
           mem' = [mem EXCEPT ![a] = word], NEW B, B \subseteq A,
           \A i \in InstrIDs(f) \ Allocas(f) : Holding(i) \in B => SlotAddress(i) # a
    PROVE  Holds(f, B, regs, mem')
<1>1. \A x : x # a => mem'[x] = mem[x]
  OBVIOUS
<1> QED
  BY <1>1 DEF Holds

\* What a line of the body does: it stores to the frame or to a global and spares
\* the saved return address, and leaves sp, s0 and ra alone; what is known after
\* it holds, or it jumps to a label.
LineDone(f, B) ==
    /\ Wired'
    /\ regs'["sp"] = regs["sp"] /\ regs'["s0"] = regs["s0"] /\ regs'["ra"] = regs["ra"]
    /\ mem'[StackTop - 4] = mem[StackTop - 4]
    /\ \A a : mem'[a] # mem[a] => InReach(f, a)
    /\ \/ pc' = pc + 1 /\ Holds(f, B, regs', mem')
       \/ \E label : pc' \in Labels(label)

\* A line that writes to one of the registers for it.
LEMMA WriteDone ==
    ASSUME NEW f, NEW B, Wired, mem' = mem, pc' = pc + 1,
           NEW reg \in Scratch, NEW word, regs' = [regs EXCEPT ![reg] = word],
           Holds(f, B, regs', mem)
    PROVE  LineDone(f, B)
<1>1. /\ regs' = [r \in Registers |-> regs'[r]]
      /\ regs'["sp"] = regs["sp"] /\ regs'["s0"] = regs["s0"] /\ regs'["ra"] = regs["ra"]
  BY ScratchIsWired DEF Wired
<1>2. Wired'
  BY <1>1 DEF Wired, Addresses, Word
<1> QED
  BY <1>1, <1>2 DEF LineDone

\* A line that stores.
LEMMA StoreDone ==
    ASSUME NEW f, NEW B, Wired, regs' = regs, pc' = pc + 1,
           NEW a, NEW word, mem' = [mem EXCEPT ![a] = word],
           InReach(f, a), a # StackTop - 4, Holds(f, B, regs, mem')
    PROVE  LineDone(f, B)
<1>1. /\ mem' = [x \in Addresses |-> mem'[x]]
      /\ \A x : x # a => mem'[x] = mem[x]
  BY DEF Wired
<1>2. Wired'
  BY <1>1 DEF Wired
<1> QED
  BY <1>1, <1>2 DEF LineDone

LEMMA LineStep ==
    ASSUME NEW f \in FunctionType, FitsInMemory(f), pc # 0, Wired, regs["s0"] = StackTop,
           NEW A, NEW B, LineOK(f, Here, A, B), Holds(f, A, regs, mem), Step
    PROVE  LineDone(f, B)
<1> DEFINE reg == Arg(1)
<1>1. /\ Here.args[1] = reg /\ Here.args[2] = Arg(2) /\ Here.args[3] = Arg(3)
      /\ UNCHANGED <<func, code>>
  BY StepByOp DEF Arg
<1>2. /\ WordSize \in Nat /\ StackTop \in Nat /\ StackTop < WordSize
      /\ \A id \in InstrIDs(f) :
           /\ SlotAddress(id) \in StackTop - FrameSize(f) .. StackTop - 1
           /\ SlotAddress(id) \in Addresses /\ SlotAddress(id) # StackTop - 4
  BY FramePlaced
<1>3. Wrap(0) = 0
  BY <1>2 DEF Wrap
<1>4. \A id : id \in Allocas(f) => id \in InstrIDs(f) /\ SlotAddress(id) \in Variables(f)
  BY DEF Allocas, Variables
<1>5. \A id \in InstrIDs(f) : InReach(f, SlotAddress(id))
  BY <1>2 DEF InReach
<1>6. \A a \in Variables(f) : InReach(f, a) /\ a # StackTop - 4 /\ Wrap(a) = a /\ a \in Nat
  BY VariablesPlaced DEF InReach
<1> HIDE DEF reg
<1>7. CASE Here.op \in {"label", "nop", "j", "bnez"} /\ B \subseteq A
  <2>1. mem' = mem /\ regs' = regs /\ (pc' = pc + 1 \/ \E label : pc' \in Labels(label))
    BY <1>7, StepByOp
  <2>2. Holds(f, B, regs', mem')
    BY <1>7, <2>1 DEF Holds
  <2>3. Wired'
    BY <2>1 DEF Wired
  <2> QED
    BY <2>1, <2>2, <2>3 DEF LineDone
<1>8. CASE Here.op \in RegisterOps /\ reg \in Scratch /\ B \subseteq A \ About(reg)
  <2>1. PICK word : mem' = mem /\ pc' = pc + 1 /\ regs' = [regs EXCEPT ![reg] = word]
    BY <1>8, StepByOp DEF reg
  <2>2. Holds(f, B, regs', mem)
    BY <1>8, <2>1, WriteHolds
  <2> QED
    BY <1>8, <2>1, <2>2, WriteDone
<1>9. CASE /\ PutsAddress(f, Here, A) /\ reg \in Scratch
           /\ B \subseteq (A \ About(reg)) \cup {HasAddress(reg)}
  <2>1. Here.op \in {"la", "addi", "lw", "add"} /\ Here.op \in RegisterOps
    BY <1>9 DEF PutsAddress, RegisterOps, BinaryOps, UnaryOps
  <2>2. PICK word : /\ mem' = mem /\ pc' = pc + 1 /\ regs' = [regs EXCEPT ![reg] = word]
                    /\ Here.op = "la" => word = GlobalAddress(Arg(2))
                    /\ Here.op = "addi" => word = Wrap(regs[Arg(2)] + Arg(3))
                    /\ Here.op = "lw" => word = mem[EffectiveAddress]
                    /\ Here.op = "add" => word = Wrap(regs[Arg(2)] + regs[Arg(3)])
    BY <2>1, StepByOp DEF reg
  <2>3. word \in Variables(f)
    <3>1. CASE Here.op = "la" /\ Here.args[2] \in GlobalIDs
      BY <1>1, <2>2, <3>1 DEF Variables, GlobalAddresses
    <3>2. CASE /\ Here.op = "addi"
               /\ \E id \in Allocas(f) : Here.args = <<Here.args[1], "s0", -getSlotOffset(id)>>
      <4>1. PICK id \in Allocas(f) : Here.args = <<Arg(1), "s0", -getSlotOffset(id)>>
        BY <3>2 DEF Arg
      <4>2. word = SlotAddress(id)
        BY <1>4, <2>2, <3>2, <4>1, SlotOperand
      <4> QED
        BY <1>4, <4>2
    <3>3. CASE /\ Here.op = "lw"
               /\ \E id : Holding(id) \in A /\ Here.args = SlotArgs(Here.args[1], id)
      <4>1. PICK id : Holding(id) \in A /\ Here.args = SlotArgs(Arg(1), id)
        BY <3>3 DEF Arg
      <4>2. id \in InstrIDs(f) /\ mem[SlotAddress(id)] \in Variables(f)
        BY <4>1 DEF Holds
      <4>3. word = mem[SlotAddress(id)]
        BY <2>2, <3>3, <4>1, <4>2, SlotOperand
      <4> QED
        BY <4>2, <4>3
    <3>4. CASE Here.op = "add" /\ HasAddress(Here.args[2]) \in A /\ IsZero(Here.args[3]) \in A
      <4>1. regs[Arg(2)] \in Variables(f) /\ regs[Arg(3)] = 0
        BY <1>1, <3>4 DEF Holds
      <4>2. regs[Arg(2)] + regs[Arg(3)] = regs[Arg(2)]
        BY <1>6, <4>1
      <4>3. word = regs[Arg(2)]
        BY <1>6, <2>2, <3>4, <4>1, <4>2
      <4> QED
        BY <4>1, <4>3
    <3> QED
      BY <1>9, <3>1, <3>2, <3>3, <3>4 DEF PutsAddress
  <2>4. Holds(f, B, regs', mem)
    BY <1>9, <2>2, <2>3, WriteHolds
  <2> QED
    BY <1>9, <2>2, <2>4, WriteDone
<1>10. CASE /\ Here.op = "li" /\ Arg(2) = 0 /\ reg \in Scratch
            /\ B \subseteq (A \ About(reg)) \cup {IsZero(reg)}
  <2>1. Here.op \in RegisterOps
    BY <1>10 DEF RegisterOps
  <2>2. PICK word : /\ mem' = mem /\ pc' = pc + 1 /\ regs' = [regs EXCEPT ![reg] = word]
                    /\ word = Wrap(Arg(2))
    BY <1>10, <2>1, StepByOp DEF reg
  <2>3. word = 0
    BY <1>3, <1>10, <2>2
  <2>4. Holds(f, B, regs', mem)
    BY <1>10, <2>2, <2>3, WriteHolds
  <2> QED
    BY <1>10, <2>2, <2>4, WriteDone
<1>11. ASSUME NEW id, StoresResult(f, Here, id)
       PROVE  /\ id \in InstrIDs(f) \ Allocas(f) /\ regs' = regs /\ pc' = pc + 1
              /\ mem' = [mem EXCEPT ![SlotAddress(id)] = regs[reg]]
  <2>1. Here.op = "sw" /\ id \in InstrIDs(f) \ Allocas(f) /\ Here.args = SlotArgs(Arg(1), id)
    BY <1>11 DEF StoresResult, Arg
  <2>2. EffectiveAddress = SlotAddress(id)
    BY <2>1, SlotOperand
  <2> QED
    BY <2>1, <2>2, StepByOp DEF reg
<1>12. CASE \E id : StoresResult(f, Here, id) /\ B \subseteq A \ {Holding(id)}
  <2>1. PICK id : StoresResult(f, Here, id) /\ B \subseteq A \ {Holding(id)}
    BY <1>12
  <2>2. /\ id \in InstrIDs(f) \ Allocas(f) /\ regs' = regs /\ pc' = pc + 1
        /\ mem' = [mem EXCEPT ![SlotAddress(id)] = regs[reg]]
    BY <1>11, <2>1
  <2>3. \A i \in InstrIDs(f) \ Allocas(f) : Holding(i) \in B => SlotAddress(i) # SlotAddress(id)
    BY <2>1, <2>2, SlotsApart
  <2>4. Holds(f, B, regs, mem')
    <3> DEFINE a == SlotAddress(id)
               word == regs[reg]
    <3>1. B \subseteq A
      BY <2>1
    <3>2. \A i \in InstrIDs(f) \ Allocas(f) : Holding(i) \in B => SlotAddress(i) # a
      BY <2>3
    <3>3. mem' = [mem EXCEPT ![a] = word]
      BY <2>2
    <3> HIDE DEF a, word
    <3> QED
      BY <3>1, <3>2, <3>3, StoreHolds
  <2> QED
    BY <1>2, <1>5, <2>2, <2>4, StoreDone
<1>13. CASE \E id : StoresResult(f, Here, id) /\ HasAddress(reg) \in A
                    /\ B \subseteq A \cup {Holding(id)}
  <2>1. PICK id : StoresResult(f, Here, id) /\ HasAddress(reg) \in A
                  /\ B \subseteq A \cup {Holding(id)}
    BY <1>13
  <2>2. /\ id \in InstrIDs(f) \ Allocas(f) /\ regs' = regs /\ pc' = pc + 1
        /\ mem' = [mem EXCEPT ![SlotAddress(id)] = regs[reg]]
    BY <1>11, <2>1
  <2>3. \A i \in InstrIDs(f) \ Allocas(f) : i # id => SlotAddress(i) # SlotAddress(id)
    BY <2>2, SlotsApart
  <2>4. mem'[SlotAddress(id)] \in Variables(f)
    <3>1. mem'[SlotAddress(id)] = regs[reg]
      BY <1>2, <2>2 DEF Wired
    <3> QED
      BY <2>1, <3>1 DEF Holds
  <2>5. Holds(f, B, regs, mem')
    <3>1. Holds(f, A \ {Holding(id)}, regs, mem')
      <4> DEFINE a == SlotAddress(id)
                 word == regs[reg]
                 C == A \ {Holding(id)}
      <4>1. C \subseteq A
        OBVIOUS
      <4>2. \A i \in InstrIDs(f) \ Allocas(f) : Holding(i) \in C => SlotAddress(i) # a
        BY <2>3
      <4>3. mem' = [mem EXCEPT ![a] = word]
        BY <2>2
      <4> HIDE DEF a, word, C
      <4>4. Holds(f, C, regs, mem')
        BY <4>1, <4>2, <4>3, StoreHolds
      <4> QED
        BY <4>4 DEF C
    <3>2. /\ \A i : Holding(i) \in B => i = id \/ Holding(i) \in A \ {Holding(id)}
          /\ \A r : HasAddress(r) \in B => HasAddress(r) \in A \ {Holding(id)}
          /\ \A r : IsZero(r) \in B => IsZero(r) \in A \ {Holding(id)}
      BY <2>1 DEF Holding, HasAddress, IsZero
    <3> QED
      BY <2>2, <2>4, <3>1, <3>2 DEF Holds
  <2> QED
    BY <1>2, <1>5, <2>2, <2>5, StoreDone
<1>14. CASE Here.op = "sw" /\ Arg(2) = 0 /\ HasAddress(Arg(3)) \in A /\ B \subseteq A
  <2>1. regs[Arg(3)] \in Variables(f)
    BY <1>14 DEF Holds
  <2>2. regs[Arg(3)] + Arg(2) = regs[Arg(3)]
    BY <1>6, <1>14, <2>1
  <2>3. EffectiveAddress = regs[Arg(3)]
    BY <1>6, <2>1, <2>2 DEF EffectiveAddress
  <2>4. /\ regs' = regs /\ pc' = pc + 1 /\ mem' = [mem EXCEPT ![regs[Arg(3)]] = regs[reg]]
    BY <1>14, <2>3, StepByOp DEF reg
  <2>5. \A i \in InstrIDs(f) \ Allocas(f) : SlotAddress(i) # regs[Arg(3)]
    BY <2>1, VariablesPlaced
  <2>6. Holds(f, B, regs, mem')
    <3> DEFINE a == regs[Arg(3)]
               word == regs[reg]
    <3>1. mem' = [mem EXCEPT ![a] = word] /\ B \subseteq A
      BY <1>14, <2>4
    <3>2. \A i \in InstrIDs(f) \ Allocas(f) : Holding(i) \in B => SlotAddress(i) # a
      BY <2>5
    <3> HIDE DEF a, word
    <3> QED
      BY <3>1, <3>2, StoreHolds
  <2> QED
    BY <1>6, <2>1, <2>4, <2>6, StoreDone
<1> QED
  BY <1>1, <1>7, <1>8, <1>9, <1>10, <1>12, <1>13, <1>14 DEF LineOK

-----------------------------------------------------------------------------
(* The code of a function from call to return *)

\* The line before the epilogue.
BodyEnd(f) == Len(Body(f)) + 4
\* What is known along the body, and nothing at its start.
Notes(f) == CHOOSE T : Annotates(f, Body(f), T) /\ T[1] = {}

LEMMA FrameLines ==
    ASSUME NEW size
    PROVE  /\ LET s == prologue(size)
              IN /\ IsSequence(s) /\ Len(s) = 4
                 /\ s[1].op = "addi" /\ s[1].args = <<"sp", "sp", -size>>
                 /\ s[2].op = "sw" /\ s[2].args = <<"ra", size - SavedRA, "sp">>
                 /\ s[3].op = "sw" /\ s[3].args = <<"s0", size - SavedFP, "sp">>
                 /\ s[4].op = "addi" /\ s[4].args = <<"s0", "sp", size>>
           /\ LET t == epilogue(size)
              IN /\ IsSequence(t) /\ Len(t) = 5
                 /\ t[1].op = "label"
                 /\ t[2].op = "lw" /\ t[2].args = <<"ra", size - SavedRA, "sp">>
                 /\ t[3].op = "lw" /\ t[3].args = <<"s0", size - SavedFP, "sp">>
                 /\ t[4].op = "addi" /\ t[4].args = <<"sp", "sp", size>>
                 /\ t[5].op = "ret"
<1>1. ASSUME NEW a, NEW b, NEW c, NEW d
      PROVE  LET s == <<a, b, c, d>>
             IN IsSequence(s) /\ Len(s) = 4 /\ s[1] = a /\ s[2] = b /\ s[3] = c /\ s[4] = d
  BY DEF IsSequence
<1>2. ASSUME NEW a, NEW b, NEW c, NEW d, NEW e
      PROVE  LET s == <<a, b, c, d, e>>
             IN /\ IsSequence(s) /\ Len(s) = 5
                /\ s[1] = a /\ s[2] = b /\ s[3] = c /\ s[4] = d /\ s[5] = e
  BY DEF IsSequence
<1> DEFINE spDown == Asm("addi", <<"sp", "sp", -size>>)
           saveRA == Asm("sw", <<"ra", size - SavedRA, "sp">>)
           saveFP == Asm("sw", <<"s0", size - SavedFP, "sp">>)
           setFP  == Asm("addi", <<"s0", "sp", size>>)
           label  == Asm("label", <<Epilogue>>)
           loadRA == Asm("lw", <<"ra", size - SavedRA, "sp">>)
           loadFP == Asm("lw", <<"s0", size - SavedFP, "sp">>)
           spUp   == Asm("addi", <<"sp", "sp", size>>)
           ret    == Asm("ret", <<>>)
<1>3. /\ prologue(size) = <<spDown, saveRA, saveFP, setFP>>
      /\ epilogue(size) = <<label, loadRA, loadFP, spUp, ret>>
  BY DEF prologue, epilogue
<1>4. /\ spDown.op = "addi" /\ spDown.args = <<"sp", "sp", -size>>
      /\ saveRA.op = "sw" /\ saveRA.args = <<"ra", size - SavedRA, "sp">>
      /\ saveFP.op = "sw" /\ saveFP.args = <<"s0", size - SavedFP, "sp">>
      /\ setFP.op = "addi" /\ setFP.args = <<"s0", "sp", size>>
      /\ label.op = "label"
      /\ loadRA.op = "lw" /\ loadRA.args = <<"ra", size - SavedRA, "sp">>
      /\ loadFP.op = "lw" /\ loadFP.args = <<"s0", size - SavedFP, "sp">>
      /\ spUp.op = "addi" /\ spUp.args = <<"sp", "sp", size>>
      /\ ret.op = "ret"
  BY DEF Asm
<1> HIDE DEF spDown, saveRA, saveFP, setFP, label, loadRA, loadFP, spUp, ret
<1> QED
  BY <1>1, <1>2, <1>3, <1>4

\* Where the lines of a function are.
LEMMA CodeShape ==
    ASSUME Simple, NEW f, CodeReady(f)
    PROVE  LET c    == emitFunction(f)
               end  == BodyEnd(f)
               size == FrameSize(f)
           IN /\ end \in Nat /\ 4 <= end /\ DOMAIN c = 1 .. end + 5
              /\ c[1].op = "addi" /\ c[1].args = <<"sp", "sp", -size>>
              /\ c[2].op = "sw" /\ c[2].args = <<"ra", size - SavedRA, "sp">>
              /\ c[3].op = "sw" /\ c[3].args = <<"s0", size - SavedFP, "sp">>
              /\ c[4].op = "addi" /\ c[4].args = <<"s0", "sp", size>>
              /\ Notes(f)[1] = {}
              /\ \A k \in 5 .. end : LineOK(f, c[k], Notes(f)[k - 4], Notes(f)[k - 3])
              /\ c[end + 1].op = "label"
              /\ c[end + 2].op = "lw" /\ c[end + 2].args = <<"ra", size - SavedRA, "sp">>
              /\ c[end + 3].op = "lw" /\ c[end + 3].args = <<"s0", size - SavedFP, "sp">>
              /\ c[end + 4].op = "addi" /\ c[end + 4].args = <<"sp", "sp", size>>
              /\ c[end + 5].op = "ret"
<1> DEFINE size == FrameSize(f)
           s == prologue(size)
           t == Body(f)
           u == epilogue(size)
           v == s \o t
           c == v \o u
           n == Len(t)
           T == Notes(f)
<1>1. emitFunction(f) = c
  BY DEF emitFunction, FrameSize, Body
<1>2. IsSequence(t) /\ Annotates(f, t, T) /\ T[1] = {}
  <2>1. Typed(f, t, {}, {})
    BY BodyTyped
  <2>2. PICK U : Annotates(f, t, U) /\ U[1] = {}
    BY <2>1 DEF Typed
  <2>3. Annotates(f, Body(f), T) /\ T[1] = {}
    BY <2>2 DEF Notes
  <2> QED
    BY <2>1, <2>3 DEF Typed
<1>3. n \in Nat
  BY <1>2 DEF IsSequence
<1>4. /\ IsSequence(s) /\ Len(s) = 4 /\ IsSequence(u) /\ Len(u) = 5
      /\ s[1].op = "addi" /\ s[1].args = <<"sp", "sp", -size>>
      /\ s[2].op = "sw" /\ s[2].args = <<"ra", size - SavedRA, "sp">>
      /\ s[3].op = "sw" /\ s[3].args = <<"s0", size - SavedFP, "sp">>
      /\ s[4].op = "addi" /\ s[4].args = <<"s0", "sp", size>>
      /\ u[1].op = "label"
      /\ u[2].op = "lw" /\ u[2].args = <<"ra", size - SavedRA, "sp">>
      /\ u[3].op = "lw" /\ u[3].args = <<"s0", size - SavedFP, "sp">>
      /\ u[4].op = "addi" /\ u[4].args = <<"sp", "sp", size>>
      /\ u[5].op = "ret"
  BY FrameLines
<1> HIDE DEF s, u
<1>5. /\ IsSequence(v) /\ Len(v) = 4 + n
      /\ \A k \in 1 .. 4 : v[k] = s[k]
      /\ \A k \in 4 + 1 .. 4 + n : v[k] = t[k - 4]
  <2>1. /\ IsSequence(v) /\ Len(v) = Len(s) + Len(t)
        /\ \A k \in 1 .. Len(s) : v[k] = s[k]
        /\ \A k \in Len(s) + 1 .. Len(s) + Len(t) : v[k] = t[k - Len(s)]
    BY <1>2, <1>4, Concatenated
  <2> HIDE DEF v
  <2> QED
    BY <1>4, <2>1
<1> HIDE DEF v
<1>6. /\ IsSequence(c) /\ Len(c) = (4 + n) + 5
      /\ \A k \in 1 .. 4 + n : c[k] = v[k]
      /\ \A k \in (4 + n) + 1 .. (4 + n) + 5 : c[k] = u[k - (4 + n)]
  <2>1. IsSequence(v) /\ IsSequence(u)
    BY <1>4, <1>5
  <2>2. /\ IsSequence(c) /\ Len(c) = Len(v) + Len(u)
        /\ \A k \in 1 .. Len(v) : c[k] = v[k]
        /\ \A k \in Len(v) + 1 .. Len(v) + Len(u) : c[k] = u[k - Len(v)]
    BY <2>1, Concatenated
  <2> HIDE DEF c
  <2> QED
    BY <1>4, <1>5, <2>2
<1> DEFINE end == BodyEnd(f)
<1>7. end = n + 4 /\ end = 4 + n
  BY <1>3 DEF BodyEnd
<1> HIDE DEF end, n, c, T, size
<1>8. DOMAIN c = 1 .. end + 5
  BY <1>6, <1>7, SequenceFacts
<1>9. c[1] = s[1] /\ c[2] = s[2] /\ c[3] = s[3] /\ c[4] = s[4]
  BY <1>3, <1>5, <1>6
<1>10. /\ c[end + 1] = u[1] /\ c[end + 2] = u[2] /\ c[end + 3] = u[3] /\ c[end + 4] = u[4]
       /\ c[end + 5] = u[5]
  BY <1>3, <1>6, <1>7
<1>11. ASSUME NEW k \in 5 .. end PROVE LineOK(f, c[k], T[k - 4], T[k - 3])
  <2>1. k - 4 \in 1 .. n /\ (k - 4) + 1 = k - 3 /\ k \in 4 + 1 .. 4 + n /\ k \in 1 .. 4 + n
    BY <1>3, <1>7
  <2>2. LineOK(f, t[k - 4], T[k - 4], T[(k - 4) + 1])
    BY <1>2, <2>1 DEF Annotates, n
  <2>3. c[k] = t[k - 4]
    BY <1>5, <1>6, <2>1
  <2> QED
    BY <2>1, <2>2, <2>3
<1>12. end \in Nat /\ 4 <= end
  BY <1>3, <1>7
<1> QED
  BY <1>1, <1>2, <1>4, <1>8, <1>9, <1>10, <1>11, <1>12 DEF end, T, size, c, v

\* What holds while the code of func runs, line by line.
Running ==
    LET end  == BodyEnd(func)
        size == FrameSize(func)
    IN /\ CodeReady(func) /\ FitsInMemory(func) /\ code = emitFunction(func)
       /\ pc \in 0 .. end + 5
       /\ regs["ra"] = CallerRA
       /\ pc \in {0, 1, end + 5} => regs["sp"] = StackTop
       /\ pc \in 2 .. end + 4 => regs["sp"] = StackTop - size
       /\ pc \in 3 .. end + 5 => mem[StackTop - 4] = CallerRA
       /\ pc \in 5 .. end =>
            regs["s0"] = StackTop /\ Holds(func, Notes(func)[pc - 4], regs, mem)
MachineInv == Wired /\ ((func = NoFunction /\ pc = 0) \/ Running)

\* A jump goes to a label, where nothing need be known, or to the epilogue.
LEMMA JumpTarget ==
    ASSUME Simple, Running, NEW label, NEW k \in Labels(label)
    PROVE  LET end == BodyEnd(func)
           IN k \in 5 .. end + 1 /\ (k # end + 1 => Notes(func)[k - 4] = {})
<1> DEFINE end == BodyEnd(func)
           T == Notes(func)
<1>1. /\ CodeReady(func) /\ code = emitFunction(func)
  BY DEF Running
<1>2. /\ end \in Nat /\ 4 <= end /\ DOMAIN code = 1 .. end + 5
      /\ \A l \in 5 .. end : LineOK(func, code[l], T[l - 4], T[l - 3])
      /\ code[1].op = "addi" /\ code[2].op = "sw" /\ code[3].op = "sw" /\ code[4].op = "addi"
      /\ code[end + 2].op = "lw" /\ code[end + 3].op = "lw" /\ code[end + 4].op = "addi"
      /\ code[end + 5].op = "ret"
  BY <1>1, CodeShape
<1> HIDE DEF end, T
<1>3. k \in 1 .. end + 5 /\ code[k].op = "label"
  BY <1>2 DEF Labels
<1>4. k \notin {1, 2, 3, 4, end + 2, end + 3, end + 4, end + 5}
  BY <1>2, <1>3
<1>5. k \in 5 .. end + 1
  BY <1>2, <1>3, <1>4
<1>6. ASSUME k # end + 1 PROVE T[k - 4] = {}
  <2>1. LineOK(func, code[k], T[k - 4], T[k - 3])
    BY <1>2, <1>5, <1>6
  <2> QED
    BY <1>3, <2>1 DEF LineOK, PutsAddress, StoresResult, RegisterOps, BinaryOps, UnaryOps
<1> QED
  BY <1>5, <1>6 DEF end, T

\* Every line keeps Running, and writes to the frame and the globals alone.
StaysInFrame ==
    \A a \in Addresses : mem'[a] # mem[a] =>
        a \in GlobalAddresses \/ a \in regs["sp"] .. StackTop - 1
LEMMA RunBody ==
    ASSUME Simple, Wired, Running, pc \in 5 .. BodyEnd(func), Step
    PROVE  Wired' /\ Running' /\ StaysInFrame
<1> DEFINE f == func
           end == BodyEnd(f)
           T == Notes(f)
           A == T[pc - 4]
           B == T[pc - 3]
           size == FrameSize(f)
<1>1. /\ CodeReady(f) /\ FitsInMemory(f) /\ code = emitFunction(f) /\ f \in FunctionType
      /\ regs["ra"] = CallerRA
  BY DEF Running, CodeReady
<1>2. /\ end \in Nat /\ 4 <= end /\ DOMAIN code = 1 .. end + 5
      /\ \A l \in 5 .. end : LineOK(f, code[l], T[l - 4], T[l - 3])
  BY <1>1, CodeShape
<1>3. /\ pc \in 5 .. end /\ pc # 0 /\ pc \in 2 .. end + 4 /\ pc \in 3 .. end + 5
      /\ (pc + 1) - 4 = pc - 3
  BY <1>2
<1>4. /\ regs["sp"] = StackTop - size /\ mem[StackTop - 4] = CallerRA
      /\ regs["s0"] = StackTop /\ Holds(f, A, regs, mem)
  BY <1>3 DEF Running
<1>5. LineOK(f, Here, A, B)
  BY <1>2, <1>3 DEF Here
<1>6. UNCHANGED <<func, code>>
  BY <1>3, StepByOp
<1>7. LineDone(f, B)
  <2> HIDE DEF A, B
  <2> QED
    BY <1>1, <1>3, <1>4, <1>5, LineStep
<1>8. StaysInFrame
  BY <1>4, <1>7 DEF LineDone, StaysInFrame, InReach
<1>9. /\ pc' \in 5 .. end + 1
      /\ pc' # end + 1 => Holds(f, T[pc' - 4], regs', mem')
  <2>1. CASE pc' = pc + 1 /\ Holds(f, B, regs', mem')
    BY <1>2, <1>3, <2>1
  <2>2. CASE \E label : pc' \in Labels(label)
    <3>1. pc' \in 5 .. end + 1 /\ (pc' # end + 1 => T[pc' - 4] = {})
      BY <2>2, JumpTarget
    <3> QED
      BY <3>1 DEF Holds
  <2> QED
    BY <1>7, <2>1, <2>2 DEF LineDone
<1>10. /\ regs'["ra"] = CallerRA /\ regs'["sp"] = StackTop - size /\ regs'["s0"] = StackTop
       /\ mem'[StackTop - 4] = CallerRA /\ Wired'
  BY <1>1, <1>4, <1>7 DEF LineDone
<1>11. BodyEnd(func') = end /\ FrameSize(func') = size /\ Notes(func') = T
  BY <1>6
<1> HIDE DEF end, T, size
<1>12. /\ pc' \in 0 .. end + 5 /\ pc' \in 2 .. end + 4 /\ pc' \notin {0, 1, end + 5}
       /\ pc' \in 5 .. end => pc' # end + 1
  BY <1>2, <1>9
<1>13. CodeReady(func') /\ FitsInMemory(func') /\ code' = emitFunction(func')
  BY <1>1, <1>6
<1>14. Running'
  BY <1>6, <1>9, <1>10, <1>11, <1>12, <1>13 DEF Running, f
<1> QED
  BY <1>8, <1>10, <1>14

\* The same for the prologue and the epilogue.
LEMMA RunFrame ==
    ASSUME Simple, Wired, Running, pc # 0, pc \notin 5 .. BodyEnd(func), Step
    PROVE  Wired' /\ Running' /\ StaysInFrame
<1> DEFINE f == func
           end == BodyEnd(f)
           size == FrameSize(f)
           T == Notes(f)
           W == WordSize
<1>1. /\ CodeReady(f) /\ FitsInMemory(f) /\ code = emitFunction(f) /\ f \in FunctionType
      /\ regs["ra"] = CallerRA /\ pc \in 0 .. end + 5
  BY DEF Running, CodeReady
<1>2. /\ end \in Nat /\ 4 <= end
      /\ code[1].op = "addi" /\ code[1].args = <<"sp", "sp", -size>>
      /\ code[2].op = "sw" /\ code[2].args = <<"ra", size - SavedRA, "sp">>
      /\ code[3].op = "sw" /\ code[3].args = <<"s0", size - SavedFP, "sp">>
      /\ code[4].op = "addi" /\ code[4].args = <<"s0", "sp", size>>
      /\ T[1] = {}
      /\ code[end + 1].op = "label"
      /\ code[end + 2].op = "lw" /\ code[end + 2].args = <<"ra", size - SavedRA, "sp">>
      /\ code[end + 3].op = "lw" /\ code[end + 3].args = <<"s0", size - SavedFP, "sp">>
      /\ code[end + 4].op = "addi" /\ code[end + 4].args = <<"sp", "sp", size>>
      /\ code[end + 5].op = "ret"
  BY <1>1, CodeShape
<1>3. /\ UNCHANGED <<func, code>> /\ BodyEnd(func') = end /\ FrameSize(func') = size
      /\ Notes(func') = T /\ CodeReady(func') /\ FitsInMemory(func')
      /\ code' = emitFunction(func')
  <2>1. UNCHANGED <<func, code>>
    BY StepByOp
  <2> QED
    BY <1>1, <2>1
<1>4. /\ StackTop \in Nat /\ size \in Nat /\ 8 <= size /\ size <= StackTop /\ StackTop < W
      /\ W \in Nat /\ StackTop - 4 \in Addresses
  BY <1>1, FramePlaced
<1>5. {"sp", "s0", "ra"} \subseteq Registers
  BY ScratchIsWired
<1>6. /\ pc \in {0, 1, end + 5} => regs["sp"] = StackTop
      /\ pc \in 2 .. end + 4 => regs["sp"] = StackTop - size
      /\ pc \in 3 .. end + 5 => mem[StackTop - 4] = CallerRA
  BY DEF Running
<1> HIDE DEF end, size, T, W
<1>7. /\ Wrap(StackTop + (-size)) = StackTop - size
      /\ Wrap((StackTop - size) + size) = StackTop
      /\ Wrap((StackTop - size) + (size - SavedRA)) = StackTop - 4
      /\ Wrap((StackTop - size) + (size - SavedFP)) = StackTop - 8
  <2>1. \A n \in 0 .. W - 1 : n % W = n
    BY <1>4
  <2>2. /\ StackTop + (-size) = StackTop - size /\ (StackTop - size) + size = StackTop
        /\ (StackTop - size) + (size - SavedRA) = StackTop - 4
        /\ (StackTop - size) + (size - SavedFP) = StackTop - 8
    BY <1>4 DEF SavedRA, SavedFP
  <2>3. {StackTop - size, StackTop, StackTop - 4, StackTop - 8} \subseteq 0 .. W - 1
    BY <1>4
  <2> QED
    BY <2>1, <2>2, <2>3 DEF Wrap, W
<1>8. ASSUME NEW reg \in Registers, NEW word, regs' = [regs EXCEPT ![reg] = word], mem' = mem
      PROVE  Wired' /\ StaysInFrame /\ regs'[reg] = word
             /\ \A r : r # reg => regs'[r] = regs[r]
  BY <1>8 DEF Wired, StaysInFrame
<1>9. ASSUME NEW a, NEW word, mem' = [mem EXCEPT ![a] = word], regs' = regs,
             a \in regs["sp"] .. StackTop - 1
      PROVE  Wired' /\ StaysInFrame
  BY <1>9 DEF Wired, StaysInFrame
<1>10. SUFFICES /\ Wired' /\ StaysInFrame
                /\ pc' \in 0 .. end + 5
                /\ regs'["ra"] = CallerRA
                /\ pc' \in {0, 1, end + 5} => regs'["sp"] = StackTop
                /\ pc' \in 2 .. end + 4 => regs'["sp"] = StackTop - size
                /\ pc' \in 3 .. end + 5 => mem'[StackTop - 4] = CallerRA
                /\ pc' \in 5 .. end =>
                     regs'["s0"] = StackTop /\ Holds(func', T[pc' - 4], regs', mem')
  BY <1>3 DEF Running
<1>11. CASE pc = 1
  <2>1. /\ Here.op = "addi" /\ Arg(1) = "sp" /\ Arg(2) = "sp" /\ Arg(3) = -size
        /\ Here.op \in RegisterOps
    BY <1>2, <1>11 DEF Here, Arg, RegisterOps, UnaryOps
  <2>2. /\ mem' = mem /\ pc' = pc + 1
        /\ regs' = [regs EXCEPT !["sp"] = Wrap(regs["sp"] + (-size))]
    BY <2>1, StepByOp
  <2>3. regs["sp"] = StackTop
    BY <1>6, <1>11
  <2>4. Wired' /\ StaysInFrame /\ regs'["sp"] = StackTop - size /\ regs'["ra"] = CallerRA
    BY <1>1, <1>5, <1>7, <1>8, <2>2, <2>3
  <2>5. pc' = 2 /\ pc' \notin {0, 1, end + 5} /\ pc' \notin 3 .. end + 5 /\ pc' \notin 5 .. end
        /\ pc' \in 0 .. end + 5
    BY <1>2, <1>11, <2>2
  <2> QED
    BY <2>4, <2>5
<1>12. CASE pc = 2
  <2>1. Here.op = "sw" /\ Arg(1) = "ra" /\ Arg(2) = size - SavedRA /\ Arg(3) = "sp"
    BY <1>2, <1>12 DEF Here, Arg
  <2>2. regs["sp"] = StackTop - size
    BY <1>2, <1>6, <1>12
  <2>3. EffectiveAddress = StackTop - 4
    BY <1>7, <2>1, <2>2 DEF EffectiveAddress
  <2>4. /\ mem' = [mem EXCEPT ![StackTop - 4] = regs["ra"]] /\ regs' = regs /\ pc' = pc + 1
    BY <2>1, <2>3, StepByOp
  <2>5. StackTop - 4 \in regs["sp"] .. StackTop - 1
    BY <1>4, <2>2
  <2>6. Wired' /\ StaysInFrame
    BY <1>9, <2>4, <2>5
  <2>7. mem'[StackTop - 4] = CallerRA
    BY <1>1, <1>4, <2>4 DEF Wired
  <2>8. pc' = 3 /\ pc' \notin {0, 1, end + 5} /\ pc' \notin 5 .. end /\ pc' \in 0 .. end + 5
    BY <1>2, <1>12, <2>4
  <2> QED
    BY <1>1, <2>2, <2>4, <2>6, <2>7, <2>8
<1>13. CASE pc = 3
  <2>1. Here.op = "sw" /\ Arg(1) = "s0" /\ Arg(2) = size - SavedFP /\ Arg(3) = "sp"
    BY <1>2, <1>13 DEF Here, Arg
  <2>2. regs["sp"] = StackTop - size /\ mem[StackTop - 4] = CallerRA
    BY <1>2, <1>6, <1>13
  <2>3. EffectiveAddress = StackTop - 8
    BY <1>7, <2>1, <2>2 DEF EffectiveAddress
  <2>4. /\ mem' = [mem EXCEPT ![StackTop - 8] = regs["s0"]] /\ regs' = regs /\ pc' = pc + 1
    BY <2>1, <2>3, StepByOp
  <2>5. StackTop - 8 \in regs["sp"] .. StackTop - 1 /\ StackTop - 8 # StackTop - 4
    BY <1>4, <2>2
  <2>6. Wired' /\ StaysInFrame
    BY <1>9, <2>4, <2>5
  <2>7. mem'[StackTop - 4] = CallerRA
    BY <2>2, <2>4, <2>5
  <2>8. pc' = 4 /\ pc' \notin {0, 1, end + 5} /\ pc' \notin 5 .. end /\ pc' \in 0 .. end + 5
    BY <1>2, <1>13, <2>4
  <2> QED
    BY <1>1, <2>2, <2>4, <2>6, <2>7, <2>8
<1>14. CASE pc = 4
  <2>1. /\ Here.op = "addi" /\ Arg(1) = "s0" /\ Arg(2) = "sp" /\ Arg(3) = size
        /\ Here.op \in RegisterOps
    BY <1>2, <1>14 DEF Here, Arg, RegisterOps, UnaryOps
  <2>2. /\ mem' = mem /\ pc' = pc + 1
        /\ regs' = [regs EXCEPT !["s0"] = Wrap(regs["sp"] + size)]
    BY <2>1, StepByOp
  <2>3. regs["sp"] = StackTop - size /\ mem[StackTop - 4] = CallerRA
    BY <1>2, <1>6, <1>14
  <2>4. /\ Wired' /\ StaysInFrame /\ regs'["s0"] = StackTop /\ regs'["ra"] = CallerRA
        /\ regs'["sp"] = StackTop - size
    BY <1>1, <1>5, <1>7, <1>8, <2>2, <2>3
  <2>5. pc' = 5 /\ pc' \notin {0, 1, end + 5} /\ pc' \in 0 .. end + 5 /\ pc' - 4 = 1
    BY <1>2, <1>14, <2>2
  <2>6. Holds(func', T[1], regs', mem')
    BY <1>2 DEF Holds
  <2> QED
    BY <2>2, <2>3, <2>4, <2>5, <2>6
<1>15. CASE pc = end + 1
  <2>1. Here.op = "label"
    BY <1>2, <1>15 DEF Here
  <2>2. mem' = mem /\ regs' = regs /\ pc' = pc + 1
    BY <2>1, StepByOp
  <2>3. regs["sp"] = StackTop - size /\ mem[StackTop - 4] = CallerRA
    BY <1>2, <1>6, <1>15
  <2>4. Wired' /\ StaysInFrame
    BY <2>2 DEF Wired, StaysInFrame
  <2>5. pc' \notin {0, 1, end + 5} /\ pc' \notin 5 .. end /\ pc' \in 0 .. end + 5
    BY <1>2, <1>15, <2>2
  <2> QED
    BY <1>1, <2>2, <2>3, <2>4, <2>5
<1>16. CASE pc = end + 2
  <2>1. /\ Here.op = "lw" /\ Arg(1) = "ra" /\ Arg(2) = size - SavedRA /\ Arg(3) = "sp"
        /\ Here.op \in RegisterOps
    BY <1>2, <1>16 DEF Here, Arg, RegisterOps
  <2>2. regs["sp"] = StackTop - size /\ mem[StackTop - 4] = CallerRA
    BY <1>2, <1>6, <1>16
  <2>3. EffectiveAddress = StackTop - 4
    BY <1>7, <2>1, <2>2 DEF EffectiveAddress
  <2>4. /\ mem' = mem /\ pc' = pc + 1
        /\ regs' = [regs EXCEPT !["ra"] = mem[EffectiveAddress]]
    BY <2>1, StepByOp
  <2>5. /\ Wired' /\ StaysInFrame /\ regs'["ra"] = CallerRA /\ regs'["sp"] = StackTop - size
    <3>1. regs' = [regs EXCEPT !["ra"] = CallerRA] /\ mem' = mem
      BY <2>2, <2>3, <2>4
    <3>2. /\ Wired' /\ StaysInFrame /\ regs'["ra"] = CallerRA
          /\ \A r : r # "ra" => regs'[r] = regs[r]
      BY <1>5, <1>8, <3>1
    <3> QED
      BY <2>2, <3>2
  <2>6. pc' \notin {0, 1, end + 5} /\ pc' \notin 5 .. end /\ pc' \in 0 .. end + 5
    BY <1>2, <1>16, <2>4
  <2> QED
    BY <2>2, <2>4, <2>5, <2>6
<1>17. CASE pc = end + 3
  <2>1. Here.op = "lw" /\ Arg(1) = "s0" /\ Here.op \in RegisterOps
    BY <1>2, <1>17 DEF Here, Arg, RegisterOps
  <2>2. regs["sp"] = StackTop - size /\ mem[StackTop - 4] = CallerRA
    BY <1>2, <1>6, <1>17
  <2>3. PICK word : mem' = mem /\ pc' = pc + 1 /\ regs' = [regs EXCEPT !["s0"] = word]
    BY <2>1, StepByOp
  <2>4. /\ Wired' /\ StaysInFrame /\ regs'["ra"] = CallerRA /\ regs'["sp"] = StackTop - size
    BY <1>1, <1>5, <1>8, <2>2, <2>3
  <2>5. pc' \notin {0, 1, end + 5} /\ pc' \notin 5 .. end /\ pc' \in 0 .. end + 5
    BY <1>2, <1>17, <2>3
  <2> QED
    BY <2>2, <2>3, <2>4, <2>5
<1>18. CASE pc = end + 4
  <2>1. /\ Here.op = "addi" /\ Arg(1) = "sp" /\ Arg(2) = "sp" /\ Arg(3) = size
        /\ Here.op \in RegisterOps
    BY <1>2, <1>18 DEF Here, Arg, RegisterOps, UnaryOps
  <2>2. regs["sp"] = StackTop - size /\ mem[StackTop - 4] = CallerRA
    BY <1>2, <1>6, <1>18
  <2>3. /\ mem' = mem /\ pc' = pc + 1
        /\ regs' = [regs EXCEPT !["sp"] = Wrap(regs["sp"] + size)]
    BY <2>1, StepByOp
  <2>4. Wired' /\ StaysInFrame /\ regs'["ra"] = CallerRA /\ regs'["sp"] = StackTop
    BY <1>1, <1>5, <1>7, <1>8, <2>2, <2>3
  <2>5. pc' = end + 5 /\ pc' \notin 2 .. end + 4 /\ pc' \notin 5 .. end /\ pc' \in 0 .. end + 5
    BY <1>2, <1>18, <2>3
  <2> QED
    BY <2>2, <2>3, <2>4, <2>5
<1>19. CASE pc = end + 5
  <2>1. Here.op = "ret"
    BY <1>2, <1>19 DEF Here
  <2>2. mem' = mem /\ regs' = regs /\ pc' = 0
    BY <2>1, StepByOp
  <2>3. regs["sp"] = StackTop
    BY <1>6, <1>19
  <2>4. Wired' /\ StaysInFrame
    BY <2>2 DEF Wired, StaysInFrame
  <2>5. pc' \notin 2 .. end + 4 /\ pc' \notin 3 .. end + 5 /\ pc' \notin 5 .. end
        /\ pc' \in 0 .. end + 5
    BY <1>2, <2>2
  <2> QED
    BY <1>1, <2>2, <2>3, <2>4, <2>5
<1>20. pc \in {1, 2, 3, 4, end + 1, end + 2, end + 3, end + 4, end + 5}
  <2>1. pc \notin 5 .. end
    BY DEF end
  <2> QED
    BY <1>1, <1>2, <2>1
<1> QED
  BY <1>11, <1>12, <1>13, <1>14, <1>15, <1>16, <1>17, <1>18, <1>19, <1>20

-----------------------------------------------------------------------------
(* Constant 0: FunctionDefinition gives a function that constant first,    *)
(* and what is pushed later comes after it.                                *)

ZeroFirst(f) == "consts" \in DOMAIN f /\ f.consts # <<>> /\ f.consts[1] = 0
Zeros ==
    /\ InFunction => ZeroFirst(function)
    /\ \A i \in DOMAIN module.functions : ZeroFirst(module.functions[i])

LEMMA BuilderZero ==
    ASSUME NEW f, ZeroFirst(f)
    PROVE  /\ \A instr : ZeroFirst(EmitInstr(f, instr)) /\ ZeroFirst(AddInstr(f, instr))
           /\ \A role, id : ZeroFirst(CreateBlock(f, role, id))
           /\ \A id, k, target : ZeroFirst(PatchOperand(f, id, k, target))
<1>1. ASSUME NEW instr PROVE ZeroFirst(EmitInstr(f, instr)) /\ ZeroFirst(AddInstr(f, instr))
  BY DEF ZeroFirst, EmitInstr, AddInstr
<1>2. ASSUME NEW role, NEW id PROVE ZeroFirst(CreateBlock(f, role, id))
  BY DEF ZeroFirst, CreateBlock
<1>3. ASSUME NEW id, NEW k, NEW target PROVE ZeroFirst(PatchOperand(f, id, k, target))
  BY DEF ZeroFirst, PatchOperand
<1> QED
  BY <1>1, <1>2, <1>3

\* The handlers that use the builder more than once.
LEMMA HandlerZero ==
    ASSUME NEW f, ZeroFirst(f)
    PROVE  /\ \A op, lhs, rhs : ZeroFirst(Assign(f, op, lhs, rhs))
           /\ ZeroFirst(StartIf(f))
           /\ \A id : ZeroFirst(StartElse(f, id))
           /\ \A id, first, last : ZeroFirst(EndIf(f, id, first, last))
           /\ \A n : ZeroFirst(AddParameter(f, n))
<1>1. ASSUME NEW op, NEW lhs, NEW rhs PROVE ZeroFirst(Assign(f, op, lhs, rhs))
  <2>1. \A g, load, compute, store :
          g = f \/ g = EmitInstr(EmitInstr(f, load), compute) => ZeroFirst(EmitInstr(g, store))
    BY BuilderZero
  <2> QED
    BY <2>1 DEF Assign
<1>2. ZeroFirst(StartIf(f))
  BY BuilderZero DEF StartIf
<1>3. ASSUME NEW id PROVE ZeroFirst(StartElse(f, id))
  BY BuilderZero DEF StartElse
<1>4. ASSUME NEW id, NEW first, NEW last PROVE ZeroFirst(EndIf(f, id, first, last))
  <2> DEFINE g == CreateBlock(f, "if_end", id)
             target == LastBlock(g)
             h == IF Instr(g, id).operands[3].id = 0 THEN PatchOperand(g, id, 2, target) ELSE g
  <2>1. EndIf(f, id, first, last) = PatchOperand(PatchOperand(h, last, 0, target), first, 0, target)
    BY DEF EndIf
  <2>2. ZeroFirst(g)
    BY BuilderZero
  <2> HIDE DEF g, target
  <2>3. ZeroFirst(h)
    BY <2>2, BuilderZero
  <2> HIDE DEF h
  <2> QED
    BY <2>1, <2>3, BuilderZero
<1>5. ASSUME NEW n PROVE ZeroFirst(AddParameter(f, n))
  <2>1. ZeroFirst([f EXCEPT !.params = Append(@, n)])
    BY DEF ZeroFirst
  <2> QED
    BY <2>1, BuilderZero DEF AddParameter
<1> QED
  BY <1>1, <1>2, <1>3, <1>4, <1>5

LEMMA StepZeros ==
    ASSUME IndInv, Zeros, [Next]_vars
    PROVE  Zeros'
<1>1. ASSUME NEW place, At(place) PROVE InFunction /\ ZeroFirst(function)
  BY <1>1, AtFacts DEF Zeros
<1>2. ASSUME UNCHANGED module, ZeroFirst(function') PROVE Zeros'
  BY <1>2 DEF Zeros
<1>3. ASSUME UNCHANGED <<function, module>> PROVE Zeros'
  BY <1>3 DEF Zeros, InFunction
<1>4. ASSUME NEW place, At(place), UNCHANGED module,
             NEW instr, function' = EmitInstr(function, instr)
      PROVE  Zeros'
  BY <1>1, <1>2, <1>4, BuilderZero
<1>5. CASE External
  <2>1. CASE \/ GlobalDeclaration \/ EndUnit
             \/ \E n \in VarNames, t \in VarTypes : GlobalIdentifier(n, t)
             \/ \E n \in PtrNames : GlobalPointer(n)
             \/ \E n \in VarNames : GlobalInitialised(n)
    BY <1>3, <2>1 DEF GlobalDeclaration, EndUnit, GlobalIdentifier, GlobalPointer,
                      GlobalInitialised, Stop, unit
  <2>2. CASE EndGlobal
    <3>1. UNCHANGED function /\ module'.functions = module.functions
      BY <2>2 DEF EndGlobal, IndInv, TypeOK
    <3> QED
      BY <3>1 DEF Zeros, InFunction
  <2>3. CASE \E g \in FuncNames, pointer \in BOOLEAN : FunctionDefinition(g, pointer)
    <3>1. PICK g \in FuncNames, pointer \in BOOLEAN : FunctionDefinition(g, pointer)
      BY <2>3
    <3>2. ZeroFirst(NewFunction)
      <4>1. "consts" \in DOMAIN CreateBlock(NoFunction, "entry", 0)
        BY DEF CreateBlock, NoFunction
      <4> HIDE DEF CreateBlock
      <4> QED
        BY <4>1 DEF ZeroFirst, NewFunction
    <3>3. ZeroFirst([NewFunction EXCEPT !.name = g])
      BY <3>2 DEF ZeroFirst
    <3>4. UNCHANGED module /\ function' \in {NewFunction, [NewFunction EXCEPT !.name = g]}
      BY <3>1 DEF FunctionDefinition, unit
    <3> QED
      BY <1>2, <3>2, <3>3, <3>4
  <2>4. CASE EndFunction
    <3>1. /\ InFunction /\ function' = NoFunction
          /\ module'.functions = Append(module.functions, function)
          /\ module.functions \in Seq(FunctionType) /\ function \in FunctionType
      BY <2>4 DEF EndFunction, IndInv, TypeOK
    <3>2. \A i \in DOMAIN Append(module.functions, function) :
            \/ /\ i \in DOMAIN module.functions
               /\ Append(module.functions, function)[i] = module.functions[i]
            \/ Append(module.functions, function)[i] = function
      BY <3>1
    <3> QED
      BY <3>1, <3>2 DEF Zeros, InFunction
  <2> QED
    BY <1>5, <2>1, <2>2, <2>3, <2>4 DEF External
<1>6. CASE Declarations
  <2>1. CASE \/ \E n \in PtrNames : LocalPointer(n) \/ PointerInitialised(n)
             \/ ParameterAbstract \/ InitializerExpression
             \/ \E two \in BOOLEAN : InitializerList(two)
             \/ InitializerThrows \/ EndList
    BY <1>3, <2>1 DEF LocalPointer, PointerInitialised, ParameterAbstract, InitializerExpression,
                      InitializerList, InitializerThrows, EndList, Stop, unit
  <2>2. CASE \E n \in VarNames, t \in VarTypes : LocalIdentifier(n, t) \/ LocalInitialised(n, t)
    BY <1>4, <2>2 DEF LocalIdentifier, LocalInitialised, unit
  <2>3. CASE InitializerStore
    BY <1>4, <2>3 DEF InitializerStore, unit
  <2>4. CASE \E n \in VarNames, t \in VarTypes : ParameterIdentifier(n, t)
    <3>1. PICK n \in VarNames, t \in VarTypes : ParameterIdentifier(n, t)
      BY <2>4
    <3>2. /\ At("params") /\ UNCHANGED module
          /\ function' = AddParameter(EmitInstr(function, Alloca(t)), n)
      BY <3>1 DEF ParameterIdentifier, unit
    <3>3. ZeroFirst(EmitInstr(function, Alloca(t)))
      BY <1>1, <3>2, BuilderZero
    <3> QED
      BY <1>2, <3>2, <3>3, HandlerZero
  <2>5. CASE \E n \in PtrNames : ParameterPointer(n)
    <3>1. PICK n \in PtrNames : ParameterPointer(n)
      BY <2>5
    <3>2. At("params") /\ UNCHANGED module /\ function' = AddParameter(function, n)
      BY <3>1 DEF ParameterPointer, unit
    <3> QED
      BY <1>1, <1>2, <3>2, HandlerZero
  <2>6. CASE \E g \in FuncNames : LocalPrototype(g)
    <3>1. PICK g \in FuncNames : LocalPrototype(g)
      BY <2>6
    <3>2. At("decls") /\ UNCHANGED module /\ function' = [function EXCEPT !.name = g]
      BY <3>1 DEF LocalPrototype, unit
    <3>3. ZeroFirst(function')
      BY <1>1, <3>2 DEF ZeroFirst
    <3> QED
      BY <1>2, <3>2, <3>3
  <2> QED
    BY <1>6, <2>1, <2>2, <2>3, <2>4, <2>5, <2>6 DEF Declarations
<1>7. CASE Expressions
  <2>1. CASE \/ EvaluateAsRValueThrows \/ UntypedOperand \/ Parentheses \/ BinaryLhs
             \/ AssignmentLhs
             \/ \E two \in BOOLEAN : ListExpression(two)
             \/ \E n \in Names : IdentifierThrows(n)
             \/ \E t \in {"int", "double"} : UnhandledExpression(t)
             \/ \E op \in Operators : BinaryExpression(op) \/ AssignmentExpression(op)
    BY <1>3, <2>1 DEF EvaluateAsRValueThrows, UntypedOperand, Parentheses, BinaryLhs, AssignmentLhs,
                      ListExpression, IdentifierThrows, UnhandledExpression, BinaryExpression,
                      AssignmentExpression, Stop, unit
  <2>2. CASE EvaluateAsRValue
    BY <1>3, <1>4, <2>2 DEF EvaluateAsRValue, unit
  <2>3. CASE \E n \in Names : IdentifierExpression(n)
    BY <1>4, <2>3 DEF IdentifierExpression, EmitAddress, unit
  <2>4. CASE FinishBinary
    BY <1>4, <2>4 DEF FinishBinary, unit
  <2>5. CASE FinishAssignment
    BY <1>1, <1>2, <2>5, HandlerZero DEF FinishAssignment, unit
  <2>6. CASE \E c \in Literals : PrimaryExpression(c)
    <3>1. PICK c \in Literals : PrimaryExpression(c)
      BY <2>6
    <3> DEFINE f == [function EXCEPT !.consts = Append(@, c)]
    <3>2. At("expr") /\ UNCHANGED module /\ \E instr : function' = EmitInstr(f, instr)
      BY <3>1 DEF PrimaryExpression, unit
    <3>3. function \in FunctionType /\ ZeroFirst(function)
      BY <1>1, <3>2 DEF IndInv, TypeOK
    <3>4. f.consts = Append(function.consts, c) /\ "consts" \in DOMAIN f
      BY <3>3 DEF ZeroFirst
    <3>5. function.consts \in Seq(Literals \cup {0})
      BY <3>3, FunctionFields
    <3> HIDE DEF f
    <3>6. ZeroFirst(f)
      BY <3>3, <3>4, <3>5 DEF ZeroFirst
    <3> QED
      BY <1>2, <3>2, <3>6, BuilderZero
  <2> QED
    BY <1>7, <2>1, <2>2, <2>3, <2>4, <2>5, <2>6 DEF Expressions
<1>8. CASE Statements
  <2>1. CASE \/ NextStatement \/ CompoundStatement \/ EndCompound \/ ExpressionStatement
             \/ EmptyStatement \/ UnhandledStatement \/ IfStatement \/ ReturnExpression
    BY <1>3, <2>1 DEF NextStatement, CompoundStatement, EndCompound, ExpressionStatement,
                      EmptyStatement, UnhandledStatement, IfStatement, ReturnExpression, Stop, unit
  <2>2. CASE FinishReturn \/ ReturnVoid
    BY <1>4, <2>2 DEF FinishReturn, ReturnVoid, unit
  <2>3. CASE IfThen \/ IfEnd
    BY <1>1, <1>2, <2>3, HandlerZero DEF IfThen, IfEnd, unit
  <2>4. CASE IfElse \/ IfWithoutElse
    <3>1. At("ifElse") /\ UNCHANGED module
      BY <2>4 DEF IfElse, IfWithoutElse, unit
    <3>2. ZeroFirst(EmitInstr(function, JumpEnd))
      BY <1>1, <3>1, BuilderZero
    <3>3. ZeroFirst(function')
      BY <2>4, <3>2, HandlerZero DEF IfElse, IfWithoutElse
    <3> QED
      BY <1>2, <3>1, <3>3
  <2> QED
    BY <1>8, <2>1, <2>2, <2>3, <2>4 DEF Statements
<1>9. CASE Ended \/ UNCHANGED vars
  BY <1>3, <1>9 DEF Ended, vars
<1> QED
  BY <1>5, <1>6, <1>7, <1>8, <1>9 DEF Next

LEMMA ZerosInvariant == Spec => []Zeros
<1>1. Init => Zeros
  <2> SUFFICES ASSUME Init PROVE Zeros
    OBVIOUS
  <2>1. function = NoFunction /\ module.functions = <<>>
    BY DEF Init
  <2> QED
    BY <2>1 DEF Zeros, InFunction
<1>2. IndInv /\ Zeros /\ [Next]_vars => Zeros'
  BY StepZeros
<1> QED
  BY <1>1, <1>2, Invariant, PTL DEF Spec

-----------------------------------------------------------------------------
(* Calls *)

\* A finished function of a linked program is as its code needs it.
LEMMA FinishedIsReady ==
    ASSUME IRInv, Zeros, NEW f \in Functions, Emittable(f, module.globals),
           0 .. Len(module.globals) - 1 \subseteq GlobalIDs
    PROVE  CodeReady(f)
<1>1. f \in AllFunctions /\ IndInv /\ ShapeInv /\ ValueInv /\ NoWrappedIndex
  BY DEF AllFunctions, IRInv
<1>2. Well(f) /\ AllFine(f)
  BY <1>1, AllWell, AllFunctionsFine
<1>3. f \in FunctionType /\ AllWellFormed(f) /\ ListsExisting(f) /\ InOrder(f)
  BY <1>2 DEF Well, ShapeOK, Core
<1>4. f.consts[1] = 0
  BY DEF Zeros, ZeroFirst, Functions
<1>5. ASSUME NEW i \in InstrIDs(f), NEW k \in DOMAIN Instr(f, i).operands
      PROVE  LET v == Instr(f, i).operands[k]
             IN /\ v.kind = "GLOBAL" => v.id \in GlobalIDs
                /\ v.kind = "INSTR" => v.id < i
  <2> DEFINE v == Instr(f, i).operands[k]
  <2>1. v.id # NPos
    BY <1>1 DEF NoWrappedIndex, Operands
  <2>2. OperandOK(f, module.globals, i, v)
    BY <1>1 DEF IndInv, OperandsInArena, FunctionOK
  <2> HIDE DEF v
  <2>3. v # Value("INSTR", NPos)
    BY <2>1 DEF Value
  <2> QED
    BY <2>2, <2>3 DEF OperandOK, InArena, v
<1>6. ASSUME NEW b \in BlockIDs(f), NEW i \in InstrIDs(f), Lists(f, b, i),
             Instr(f, i).opcode = "RET"
      PROVE  1 \in DOMAIN Instr(f, i).operands
  <2>1. Needed(Instr(f, i)) = 1
    BY <1>6 DEF Needed
  <2> QED
    BY <1>6, <2>1 DEF Emittable
<1> QED
  BY <1>2, <1>3, <1>4, <1>5, <1>6 DEF CodeReady

\* What a call puts into the registers.
LEMMA CallRegisters ==
    ASSUME NEW f, NEW assembly, NEW arguments, CallFunction(f, assembly, arguments)
    PROVE  /\ regs' = [r \in Registers |-> regs'[r]]
           /\ regs'["sp"] = StackTop /\ regs'["ra"] = CallerRA /\ regs'["s0"] = CallerFP
           /\ \A i \in Passed(arguments) : regs'[ArgReg(i - 1)] = arguments[i]
<1> DEFINE P == Passed(arguments)
           S == {ArgReg(k - 1) : k \in P}
           Argument(r) == arguments[CHOOSE k \in P : r = ArgReg(k - 1)]
<1>1. regs' = [r \in Registers |->
                 CASE r = "sp" -> StackTop
                   [] r = "ra" -> CallerRA
                   [] r = "s0" -> CallerFP
                   [] r \in S -> Argument(r)
                   [] OTHER -> regs[r]]
  BY DEF CallFunction
<1>2. {"sp", "ra", "s0"} \subseteq Registers
  BY ScratchIsWired
<1>3. P \subseteq 1 .. 8
  BY DEF Passed
<1>4. ASSUME NEW k \in 1 .. 8
      PROVE  ArgReg(k - 1) \in Registers /\ ArgReg(k - 1) \notin {"sp", "ra", "s0"}
  <2>1. k - 1 \in 0 .. 7 /\ (k - 1) + 1 = k
    OBVIOUS
  <2>2. ArgReg(k - 1) \in ArgRegs
    BY <2>1 DEF ArgRegs
  <2>3. ArgReg(k - 1) = <<"a0", "a1", "a2", "a3", "a4", "a5", "a6", "a7">>[k]
    BY <2>1 DEF ArgReg
  <2>4. k \in {1, 2, 3, 4, 5, 6, 7, 8}
    OBVIOUS
  <2>5. ArgReg(k - 1) \notin {"sp", "ra", "s0"}
    BY <2>3, <2>4
  <2> QED
    BY <2>2, <2>5 DEF Registers
<1>5. ASSUME NEW j \in 1 .. 8, NEW k \in 1 .. 8, ArgReg(j - 1) = ArgReg(k - 1) PROVE j = k
  <2> DEFINE names == <<"a0", "a1", "a2", "a3", "a4", "a5", "a6", "a7">>
  <2>1. names[j] = names[k]
    BY <1>5 DEF ArgReg
  <2>2. j \in {1, 2, 3, 4, 5, 6, 7, 8} /\ k \in {1, 2, 3, 4, 5, 6, 7, 8}
    OBVIOUS
  <2> QED
    BY <2>1, <2>2
<1>6. S \cap {"sp", "ra", "s0"} = {}
  BY <1>3, <1>4
<1> HIDE DEF S, Argument
<1>7. regs' = [r \in Registers |-> regs'[r]]
  BY <1>1
<1>8. regs'["sp"] = StackTop
  BY <1>1, <1>2, <1>6
<1>9. regs'["ra"] = CallerRA
  BY <1>1, <1>2, <1>6
<1>10. regs'["s0"] = CallerFP
  BY <1>1, <1>2, <1>6
<1>11. ASSUME NEW i \in P PROVE regs'[ArgReg(i - 1)] = arguments[i]
  <2> DEFINE r == ArgReg(i - 1)
  <2>1. r \in Registers /\ r \notin {"sp", "ra", "s0"} /\ r \in S
    BY <1>3, <1>4 DEF S
  <2>2. regs'[r] = Argument(r)
    <3> HIDE DEF r
    <3> QED
      BY <1>1, <2>1
  <2>3. \A k \in P : r = ArgReg(k - 1) => k = i
    BY <1>3, <1>5
  <2>4. (CHOOSE k \in P : r = ArgReg(k - 1)) = i
    BY <2>3
  <2> QED
    BY <2>2, <2>4 DEF Argument
<1> QED
  BY <1>7, <1>8, <1>9, <1>10, <1>11

LEMMA CallRuns ==
    ASSUME Simple, IRInv, Zeros, EmitterInv, Wired, CallCompiled
    PROVE  MachineInv' /\ pc = 0
<1>1. PICK i \in DOMAIN asm : \E arguments : CallFunction(module.functions[i], asm[i], arguments)
  BY DEF CallCompiled
<1> DEFINE f == module.functions[i]
<1>2. PICK arguments : CallFunction(f, asm[i], arguments)
  BY <1>1
<1>3. f \in Functions /\ asm[i] = emitFunction(f) /\ Emittable(f, module.globals)
  <2>1. /\ module.functions \in Seq(FunctionType) /\ Len(asm) \in Nat
        /\ Len(asm) <= Len(module.functions) /\ DOMAIN asm = 1 .. Len(asm)
    BY DEF IRInv, IndInv, TypeOK, EmitterInv
  <2>2. i \in DOMAIN module.functions
    BY <2>1
  <2> QED
    BY <2>2 DEF Functions, EmitterInv
<1> HIDE DEF f
<1>4. CodeReady(f)
  BY <1>3, FinishedIsReady DEF CallCompiled, Executable
<1>5. /\ pc = 0 /\ FitsInMemory(f) /\ func' = f /\ code' = asm[i] /\ pc' = 1 /\ mem' = mem
  BY <1>2 DEF CallFunction
<1>6. regs' = [r \in Registers |-> regs'[r]] /\ regs'["sp"] = StackTop /\ regs'["ra"] = CallerRA
  BY <1>2, CallRegisters
<1>7. Wired'
  BY <1>5, <1>6 DEF Wired
<1>8. BodyEnd(func') \in Nat
  BY <1>4, <1>5, CodeShape
<1>9. /\ pc' \in 0 .. BodyEnd(func') + 5 /\ pc' \notin 2 .. BodyEnd(func') + 4
      /\ pc' \notin 3 .. BodyEnd(func') + 5 /\ pc' \notin 5 .. BodyEnd(func')
  BY <1>5, <1>8
<1>10. CodeReady(func') /\ FitsInMemory(func') /\ code' = emitFunction(func')
  BY <1>3, <1>4, <1>5
<1>11. Running'
  BY <1>6, <1>9, <1>10 DEF Running
<1> QED
  BY <1>5, <1>7, <1>11 DEF MachineInv

\* A step of the program.
LEMMA MachineStep ==
    ASSUME Simple, IRInv, Zeros, EmitterInv, MachineInv,
           [CompilerNext]_compilerVars
    PROVE  MachineInv' /\ (pc # 0 => StaysInFrame)
<1>1. CASE Execute
  <2>1. Step /\ pc # 0
    BY <1>1 DEF Execute, Step, InCode, ComputeBinary, ComputeUnary, LoadImmediate, LoadWord,
                StoreWord, Jump, BranchIfNotZero, Skip, ReturnToCaller
  <2>2. Wired /\ Running
    BY <2>1 DEF MachineInv
  <2>3. Wired' /\ Running' /\ StaysInFrame
    BY <2>1, <2>2, RunBody, RunFrame
  <2> QED
    BY <2>3 DEF MachineInv
<1>2. CASE CallCompiled
  BY <1>2, CallRuns DEF MachineInv
<1>3. CASE UNCHANGED machineVars
  <2>1. UNCHANGED <<func, code, pc, regs, mem>>
    BY <1>3 DEF machineVars
  <2>2. Wired' /\ (Running => Running') /\ StaysInFrame
    BY <2>1 DEF MachineInv, Wired, Running, StaysInFrame
  <2> QED
    BY <2>1, <2>2 DEF MachineInv
<1> QED
  BY <1>1, <1>2, <1>3 DEF CompilerNext, GenerateIR, EmitFunction, EmitterThrows, compilerVars

LEMMA MachineInvariant ==
    ASSUME Simple
    PROVE  CompilerSpec => [](IRInv /\ EmitterInv /\ Zeros /\ MachineInv)
<1>1. CompilerInit => MachineInv
  BY DEF CompilerInit, MachineInit, MachineInv, Wired
<1>2. IRInv /\ EmitterInv /\ Zeros /\ MachineInv /\ [CompilerNext]_compilerVars => MachineInv'
  BY MachineStep
<1>3. CompilerSpec => [](IRInv /\ EmitterInv)
  BY EmitterInvariant DEF Simple
<1> QED
  BY <1>1, <1>2, <1>3, CompilerGenerates, ZerosInvariant, PTL DEF CompilerSpec

\* In a program of expressions that have handlers, without pointers or
\* assignments within an expression, whatever a function computes: when it
\* returns, the stack pointer and the return address are the caller's.  No
\* store, to a slot or through an address it computed, overwrote what
\* emitFunction's prologue saved.
THEOREM CompiledReturns ==
    ASSUME Simple
    PROVE  CompilerSpec => []ReturnsToCaller
<1>1. MachineInv => ReturnsToCaller
  <2> SUFFICES ASSUME MachineInv, func # NoFunction, pc = 0
               PROVE  regs["sp"] = StackTop /\ regs["ra"] = CallerRA
    BY DEF ReturnsToCaller, HasReturned
  <2> QED
    BY DEF MachineInv, Running
<1> QED
  BY <1>1, MachineInvariant, PTL

\* In the same programs every store of a function goes to its own frame or to a
\* global: the caller's part of the stack is as it was.
THEOREM CompiledStaysInFrame ==
    ASSUME Simple
    PROVE  CompilerSpec => StoresStayInFrame
<1> DEFINE Inside == pc # 0 =>
                      \A a \in Addresses : mem'[a] # mem[a] =>
                        \/ a \in GlobalAddresses
                        \/ a \in regs["sp"] .. StackTop - 1
<1>1. IRInv /\ EmitterInv /\ Zeros /\ MachineInv /\ [CompilerNext]_compilerVars
        => [Inside]_compilerVars
  BY MachineStep DEF StaysInFrame
<1> QED
  BY <1>1, MachineInvariant, PTL DEF CompilerSpec, StoresStayInFrame

-----------------------------------------------------------------------------
(* The lines of an instruction                                             *)

\* A comparison: what the first of its lines computes ...
ComparisonOp(cond) ==
    IF cond \in {"EQ", "NE"} THEN "sub"
    ELSE IF cond \in {"UGT", "UGE", "ULT"} THEN "sltu" ELSE "slt"
Swapped(cond) == cond \in {"UGT", "SGT", "SLE"}
\* ... and what the second makes of it.
SecondLine(cond) ==
    CASE cond = "EQ" -> Asm("seqz", <<"t2", "t2">>)
      [] cond = "NE" -> Asm("snez", <<"t2", "t2">>)
      [] cond \in {"UGE", "SGE", "SLE"} -> Asm("xori", <<"t2", "t2", 1>>)
TwoStep == {"EQ", "NE", "UGE", "SGE", "SLE"}

LEMMA ComparisonLines ==
    ASSUME NEW cond \in LLVMCmpCond
    PROVE  LET first == Asm(ComparisonOp(cond),
                            IF Swapped(cond) THEN <<"t2", "t1", "t0">> ELSE <<"t2", "t0", "t1">>)
           IN Comparison(cond) = IF cond \in TwoStep THEN <<first, SecondLine(cond)>>
                                 ELSE <<first>>
<1>1. /\ cond = "EQ" => Comparison(cond) = <<Asm("sub", <<"t2", "t0", "t1">>)>>
                                           \o <<Asm("seqz", <<"t2", "t2">>)>>
      /\ cond = "NE" => Comparison(cond) = <<Asm("sub", <<"t2", "t0", "t1">>)>>
                                           \o <<Asm("snez", <<"t2", "t2">>)>>
      /\ cond = "UGT" => Comparison(cond) = <<Asm("sltu", <<"t2", "t1", "t0">>)>>
      /\ cond = "UGE" => Comparison(cond) = <<Asm("sltu", <<"t2", "t0", "t1">>)>>
                                            \o <<Asm("xori", <<"t2", "t2", 1>>)>>
      /\ cond = "ULT" => Comparison(cond) = <<Asm("sltu", <<"t2", "t0", "t1">>)>>
      /\ cond = "SGT" => Comparison(cond) = <<Asm("slt", <<"t2", "t1", "t0">>)>>
      /\ cond = "SGE" => Comparison(cond) = <<Asm("slt", <<"t2", "t0", "t1">>)>>
                                            \o <<Asm("xori", <<"t2", "t2", 1>>)>>
      /\ cond = "SLT" => Comparison(cond) = <<Asm("slt", <<"t2", "t0", "t1">>)>>
      /\ cond = "SLE" => Comparison(cond) = <<Asm("slt", <<"t2", "t1", "t0">>)>>
                                            \o <<Asm("xori", <<"t2", "t2", 1>>)>>
  BY DEF Comparison
<1>2. /\ cond = "EQ" => SecondLine(cond) = Asm("seqz", <<"t2", "t2">>)
      /\ cond = "NE" => SecondLine(cond) = Asm("snez", <<"t2", "t2">>)
      /\ cond \in {"UGE", "SGE", "SLE"} => SecondLine(cond) = Asm("xori", <<"t2", "t2", 1>>)
  BY DEF SecondLine
<1>3. cond \in {"EQ", "NE", "UGT", "UGE", "ULT", "SGT", "SGE", "SLT", "SLE"}
  BY DEF LLVMCmpCond
<1>4. \A a, b : <<a>> \o <<b>> = <<a, b>>
  BY TwoLines
<1>5. CASE cond = "EQ"
  BY <1>1, <1>2, <1>4, <1>5 DEF ComparisonOp, Swapped, TwoStep
<1>6. CASE cond = "NE"
  BY <1>1, <1>2, <1>4, <1>6 DEF ComparisonOp, Swapped, TwoStep
<1>7. CASE cond = "UGE"
  BY <1>1, <1>2, <1>4, <1>7 DEF ComparisonOp, Swapped, TwoStep
<1>8. CASE cond = "SGE"
  BY <1>1, <1>2, <1>4, <1>8 DEF ComparisonOp, Swapped, TwoStep
<1>9. CASE cond = "SLE"
  BY <1>1, <1>2, <1>4, <1>9 DEF ComparisonOp, Swapped, TwoStep
<1>10. CASE cond \in {"UGT", "ULT", "SGT", "SLT"}
  BY <1>1, <1>10 DEF ComparisonOp, Swapped, TwoStep
<1> QED
  BY <1>3, <1>5, <1>6, <1>7, <1>8, <1>9, <1>10

LEMMA LineMore ==
    ASSUME NEW s, IsSequence(s), NEW x, NEW w, w = s \o <<x>>
    PROVE  /\ IsSequence(w) /\ Len(w) = Len(s) + 1
           /\ \A k \in 1 .. Len(s) : w[k] = s[k]
           /\ w[Len(s) + 1] = x
<1> DEFINE t == <<x>>
<1>1. IsSequence(t) /\ Len(t) = 1 /\ t[1] = x /\ w = s \o t
  BY DEF IsSequence
<1> HIDE DEF t
<1>2. /\ IsSequence(w) /\ Len(w) = Len(s) + Len(t)
      /\ \A k \in 1 .. Len(s) : w[k] = s[k]
      /\ \A k \in Len(s) + 1 .. Len(s) + Len(t) : w[k] = t[k - Len(s)]
  <2>1. /\ IsSequence(s \o t) /\ Len(s \o t) = Len(s) + Len(t)
        /\ \A k \in 1 .. Len(s) : (s \o t)[k] = s[k]
        /\ \A k \in Len(s) + 1 .. Len(s) + Len(t) : (s \o t)[k] = t[k - Len(s)]
    BY <1>1, Concatenated
  <2> QED
    BY <1>1, <2>1
<1>3. Len(s) \in Nat
  BY DEF IsSequence
<1>4. w[Len(s) + 1] = x
  <2>1. Len(s) + 1 \in Len(s) + 1 .. Len(s) + Len(t) /\ (Len(s) + 1) - Len(s) = 1
    BY <1>1, <1>3
  <2> QED
    BY <1>1, <1>2, <2>1
<1> QED
  BY <1>1, <1>2, <1>4

\* A line as it is printed for instruction id.
IsAsm(l) == \E op, args : l = Asm(op, args)
IsLine(l, op, args, id) == l.op = op /\ l.args = args /\ l.id = id

LEMMA Stamped ==
    ASSUME NEW s, NEW id, IsSequence(s), \A k \in 1 .. Len(s) : IsAsm(s[k])
    PROVE  LET c == Stamp(s, id)
           IN /\ IsSequence(c) /\ Len(c) = Len(s)
              /\ \A k \in 1 .. Len(s) : IsLine(c[k], s[k].op, s[k].args, id)
<1> DEFINE c == Stamp(s, id)
<1>1. DOMAIN s = 1 .. Len(s) /\ Len(s) \in Nat
  BY SequenceFacts DEF IsSequence
<1>2. c = [k \in 1 .. Len(s) |-> [s[k] EXCEPT !.id = id]]
  BY <1>1 DEF Stamp
<1>3. Len(c) = Len(s) /\ IsSequence(c)
  BY <1>1, <1>2 DEF IsSequence
<1>4. ASSUME NEW k \in 1 .. Len(s) PROVE IsLine(c[k], s[k].op, s[k].args, id)
  <2>1. PICK op, args : s[k] = Asm(op, args)
    BY DEF IsAsm
  <2>2. c[k] = [Asm(op, args) EXCEPT !.id = id]
    BY <1>2, <2>1
  <2> HIDE DEF c
  <2>3. c[k].op = op /\ c[k].args = args /\ c[k].id = id
    BY <2>2 DEF Asm
  <2>4. s[k].op = op /\ s[k].args = args
    BY <2>1 DEF Asm
  <2> QED
    BY <2>3, <2>4 DEF IsLine
<1> HIDE DEF c
<1> QED
  BY <1>3, <1>4 DEF c

\* The line that loads operand v of f.
Fetch(f, v, reg) == loadValue(f, v, reg)[1]
LEMMA FetchFacts ==
    ASSUME NEW f, NEW v, IsOperand(v), NEW reg
    PROVE  LET l == Fetch(f, v, reg)
           IN /\ loadValue(f, v, reg) = <<l>> /\ IsAsm(l)
              /\ v.kind = "PARAM" => l = Asm("mv", <<reg, ArgReg(v.id)>>)
              /\ v.kind = "CONST" => l = Asm("li", <<reg, f.consts[v.id + 1]>>)
              /\ v.kind = "GLOBAL" => l = Asm("la", <<reg, v.id>>)
              /\ v.kind = "INSTR" /\ Instr(f, v.id).opcode = "ALLOCA" =>
                   l = Asm("addi", <<reg, "s0", -getSlotOffset(v.id)>>)
              /\ v.kind = "INSTR" /\ Instr(f, v.id).opcode # "ALLOCA" =>
                   l = Asm("lw", SlotArgs(reg, v.id))
<1>1. CASE v.kind = "PARAM"
  <2> DEFINE l == Asm("mv", <<reg, ArgReg(v.id)>>)
  <2>1. loadValue(f, v, reg) = <<l>>
    BY <1>1 DEF loadValue
  <2>2. IsAsm(l)
    BY DEF IsAsm
  <2> QED
    BY <1>1, <2>1, <2>2 DEF Fetch
<1>2. CASE v.kind = "CONST"
  <2> DEFINE l == Asm("li", <<reg, f.consts[v.id + 1]>>)
  <2>1. loadValue(f, v, reg) = <<l>>
    BY <1>2 DEF loadValue
  <2>2. IsAsm(l)
    BY DEF IsAsm
  <2> QED
    BY <1>2, <2>1, <2>2 DEF Fetch
<1>3. CASE v.kind = "GLOBAL"
  <2> DEFINE l == Asm("la", <<reg, v.id>>)
  <2>1. loadValue(f, v, reg) = <<l>>
    BY <1>3 DEF loadValue
  <2>2. IsAsm(l)
    BY DEF IsAsm
  <2> QED
    BY <1>3, <2>1, <2>2 DEF Fetch
<1>4. CASE v.kind = "INSTR" /\ Instr(f, v.id).opcode = "ALLOCA"
  <2> DEFINE l == Asm("addi", <<reg, "s0", -getSlotOffset(v.id)>>)
  <2>1. loadValue(f, v, reg) = <<l>>
    BY <1>4 DEF loadValue
  <2>2. IsAsm(l)
    BY DEF IsAsm
  <2> QED
    BY <1>4, <2>1, <2>2 DEF Fetch
<1>5. CASE v.kind = "INSTR" /\ Instr(f, v.id).opcode # "ALLOCA"
  <2> DEFINE l == Asm("lw", SlotArgs(reg, v.id))
  <2>1. loadValue(f, v, reg) = <<l>>
    BY <1>5 DEF loadValue, loadFromStack, SlotArgs
  <2>2. IsAsm(l)
    BY DEF IsAsm
  <2> QED
    BY <1>5, <2>1, <2>2 DEF Fetch
<1> QED
  BY <1>1, <1>2, <1>3, <1>4, <1>5 DEF IsOperand

\* The line that loads operand k of instruction id into a register.
Loads(f, l, id, k, reg) ==
    LET v == Instr(f, id).operands[k]
    IN IsLine(l, Fetch(f, v, reg).op, Fetch(f, v, reg).args, id)

\* The operands that the code of instruction id loads are there.
Fed(f, id) ==
    LET instr == Instr(f, id)
        v == instr.operands[1]
        w == instr.operands[2]
    IN /\ instr.opcode \in LLVMOpcode /\ instr.cond \in LLVMCmpCond
       /\ instr.opcode \in LLVM!Operation \cup {"LOAD", "RET"} => IsOperand(v)
       /\ instr.opcode \in LLVM!Operation => IsOperand(w)
       /\ instr.opcode = "BR" /\ Len(instr.operands) # 1 => IsOperand(v)

\* The code of each kind of instruction, line by line.
CodeLines(f, id, c) ==
    LET instr == Instr(f, id)
        ops == instr.operands
        line(k, op, args) == IsLine(c[k], op, args, id)
        both == Loads(f, c[1], id, 1, "t0") /\ Loads(f, c[2], id, 2, "t1")
    IN /\ instr.opcode \in DOMAIN Operation =>
            /\ Len(c) = 4 /\ both
            /\ line(3, Operation[instr.opcode], <<"t2", "t0", "t1">>)
            /\ line(4, "sw", SlotArgs("t2", id))
       /\ instr.opcode = "ICMP" =>
            /\ both
            /\ line(3, ComparisonOp(instr.cond),
                    IF Swapped(instr.cond) THEN <<"t2", "t1", "t0">> ELSE <<"t2", "t0", "t1">>)
            /\ instr.cond \in TwoStep =>
                 /\ Len(c) = 5 /\ line(5, "sw", SlotArgs("t2", id))
                 /\ line(4, SecondLine(instr.cond).op, SecondLine(instr.cond).args)
            /\ instr.cond \notin TwoStep => Len(c) = 4 /\ line(4, "sw", SlotArgs("t2", id))
       /\ instr.opcode = "ALLOCA" => c = <<>>
       /\ instr.opcode = "LOAD" =>
            /\ Len(c) = 3 /\ Loads(f, c[1], id, 1, "t0")
            /\ line(2, "lw", <<"t1", 0, "t0">>)
            /\ line(3, "sw", SlotArgs("t1", id))
       /\ instr.opcode = "STORE" => Len(c) = 3 /\ both /\ line(3, "sw", <<"t0", 0, "t1">>)
       /\ instr.opcode = "BR" /\ Len(ops) = 1 =>
            Len(c) = 1 /\ line(1, "j", <<BlockLabel(f, ops[1])>>)
       /\ instr.opcode = "BR" /\ Len(ops) # 1 =>
            /\ Len(c) = 3 /\ Loads(f, c[1], id, 1, "t0")
            /\ line(2, "bnez", <<"t0", BlockLabel(f, ops[2])>>)
            /\ line(3, "j", <<BlockLabel(f, ops[3])>>)
       /\ instr.opcode = "RET" =>
            Len(c) = 2 /\ Loads(f, c[1], id, 1, "a0") /\ line(2, "j", <<Epilogue>>)

LEMMA AsmIsAsm ==
    ASSUME NEW op, NEW args
    PROVE  IsAsm(Asm(op, args)) /\ Asm(op, args).op = op /\ Asm(op, args).args = args
BY AsmFields DEF IsAsm

\* Code that consists of those lines.
LEMMA CodeOf ==
    ASSUME NEW s, NEW id, NEW c, c = Stamp(s, id),
           IsSequence(s), \A k \in 1 .. Len(s) : IsAsm(s[k])
    PROVE  /\ IsSequence(c) /\ Len(c) = Len(s) /\ \A k \in 1 .. Len(c) : c[k].id = id
           /\ \A k \in 1 .. Len(s) : IsLine(c[k], s[k].op, s[k].args, id)
BY Stamped DEF IsLine

LEMMA CodeOfFour ==
    ASSUME NEW w, NEW x, NEW y, NEW z, IsAsm(w), IsAsm(x), IsAsm(y), IsAsm(z),
           NEW id, NEW c, c = Stamp(<<w>> \o <<x>> \o <<y>> \o <<z>>, id)
    PROVE  /\ IsSequence(c) /\ Len(c) = 4 /\ \A k \in 1 .. Len(c) : c[k].id = id
           /\ IsLine(c[1], w.op, w.args, id) /\ IsLine(c[2], x.op, x.args, id)
           /\ IsLine(c[3], y.op, y.args, id) /\ IsLine(c[4], z.op, z.args, id)
<1> DEFINE s1 == <<w>>
           s2 == s1 \o <<x>>
           s3 == s2 \o <<y>>
           s4 == s3 \o <<z>>
<1>1. c = Stamp(s4, id)
  OBVIOUS
<1>2. IsSequence(s1) /\ Len(s1) = 1 /\ s1[1] = w
  BY DEF IsSequence
<1> HIDE DEF s1
<1>3. /\ IsSequence(s2) /\ Len(s2) = 2
      /\ s2[1] = w /\ s2[2] = x
  <2>1. /\ IsSequence(s2) /\ Len(s2) = Len(s1) + 1
        /\ \A k \in 1 .. Len(s1) : s2[k] = s1[k]
        /\ s2[Len(s1) + 1] = x
    BY <1>2, LineMore
  <2> HIDE DEF s2
  <2> QED
    BY <1>2, <2>1
<1> HIDE DEF s2
<1>4. /\ IsSequence(s3) /\ Len(s3) = 3
      /\ s3[1] = w /\ s3[2] = x /\ s3[3] = y
  <2>1. /\ IsSequence(s3) /\ Len(s3) = Len(s2) + 1
        /\ \A k \in 1 .. Len(s2) : s3[k] = s2[k]
        /\ s3[Len(s2) + 1] = y
    BY <1>3, LineMore
  <2> HIDE DEF s3
  <2> QED
    BY <1>3, <2>1
<1> HIDE DEF s3
<1>5. /\ IsSequence(s4) /\ Len(s4) = 4
      /\ s4[1] = w /\ s4[2] = x /\ s4[3] = y /\ s4[4] = z
  <2>1. /\ IsSequence(s4) /\ Len(s4) = Len(s3) + 1
        /\ \A k \in 1 .. Len(s3) : s4[k] = s3[k]
        /\ s4[Len(s3) + 1] = z
    BY <1>4, LineMore
  <2> HIDE DEF s4
  <2> QED
    BY <1>4, <2>1
<1> HIDE DEF s4
<1>6. \A k \in 1 .. Len(s4) : IsAsm(s4[k])
  BY <1>5
<1>7. /\ IsSequence(c) /\ Len(c) = Len(s4) /\ \A k \in 1 .. Len(c) : c[k].id = id
      /\ \A k \in 1 .. Len(s4) : IsLine(c[k], s4[k].op, s4[k].args, id)
  BY <1>1, <1>5, <1>6, CodeOf
<1>8. 1 \in 1 .. Len(s4) /\ 2 \in 1 .. Len(s4) /\ 3 \in 1 .. Len(s4) /\ 4 \in 1 .. Len(s4)
  BY <1>5
<1>9. /\ IsLine(c[1], w.op, w.args, id)
      /\ IsLine(c[2], x.op, x.args, id)
      /\ IsLine(c[3], y.op, y.args, id)
      /\ IsLine(c[4], z.op, z.args, id)
  BY <1>5, <1>7, <1>8
<1> QED
  BY <1>5, <1>7, <1>9

LEMMA CodeOfFive ==
    ASSUME NEW v, NEW w, NEW x, NEW y, NEW z,
           IsAsm(v), IsAsm(w), IsAsm(x), IsAsm(y), IsAsm(z),
           NEW id, NEW c, c = Stamp(<<v>> \o <<w>> \o <<x, y>> \o <<z>>, id)
    PROVE  /\ IsSequence(c) /\ Len(c) = 5 /\ \A k \in 1 .. Len(c) : c[k].id = id
           /\ IsLine(c[1], v.op, v.args, id) /\ IsLine(c[2], w.op, w.args, id)
           /\ IsLine(c[3], x.op, x.args, id) /\ IsLine(c[4], y.op, y.args, id)
           /\ IsLine(c[5], z.op, z.args, id)
<1> DEFINE s1 == <<v>>
           s2 == s1 \o <<w>>
           t == <<x, y>>
           s4 == s2 \o t
           s5 == s4 \o <<z>>
<1>1. c = Stamp(s5, id)
  OBVIOUS
<1>2. IsSequence(s1) /\ Len(s1) = 1 /\ s1[1] = v
  BY DEF IsSequence
<1> HIDE DEF s1
<1>3. /\ IsSequence(s2) /\ Len(s2) = 2
      /\ s2[1] = v /\ s2[2] = w
  <2>1. /\ IsSequence(s2) /\ Len(s2) = Len(s1) + 1
        /\ \A k \in 1 .. Len(s1) : s2[k] = s1[k]
        /\ s2[Len(s1) + 1] = w
    BY <1>2, LineMore
  <2> HIDE DEF s2
  <2> QED
    BY <1>2, <2>1
<1> HIDE DEF s2
<1>4. IsSequence(t) /\ Len(t) = 2 /\ t[1] = x /\ t[2] = y
  BY DEF IsSequence
<1> HIDE DEF t
<1>5. /\ IsSequence(s4) /\ Len(s4) = 4
      /\ s4[1] = v /\ s4[2] = w /\ s4[3] = x /\ s4[4] = y
  <2>1. /\ IsSequence(s2 \o t) /\ Len(s2 \o t) = Len(s2) + Len(t)
        /\ \A k \in 1 .. Len(s2) : (s2 \o t)[k] = s2[k]
        /\ \A k \in Len(s2) + 1 .. Len(s2) + Len(t) : (s2 \o t)[k] = t[k - Len(s2)]
    BY <1>3, <1>4, Concatenated
  <2>2. /\ IsSequence(s4) /\ Len(s4) = Len(s2) + Len(t)
        /\ \A k \in 1 .. Len(s2) : s4[k] = s2[k]
        /\ \A k \in Len(s2) + 1 .. Len(s2) + Len(t) : s4[k] = t[k - Len(s2)]
    BY <2>1
  <2> HIDE DEF s4
  <2>3. s4[3] = t[3 - 2] /\ s4[4] = t[4 - 2]
    BY <1>3, <1>4, <2>2
  <2> QED
    BY <1>3, <1>4, <2>2, <2>3
<1> HIDE DEF s4
<1>6. /\ IsSequence(s5) /\ Len(s5) = 5
      /\ s5[1] = v /\ s5[2] = w /\ s5[3] = x /\ s5[4] = y /\ s5[5] = z
  <2>1. /\ IsSequence(s5) /\ Len(s5) = Len(s4) + 1
        /\ \A k \in 1 .. Len(s4) : s5[k] = s4[k]
        /\ s5[Len(s4) + 1] = z
    BY <1>5, LineMore
  <2> HIDE DEF s5
  <2> QED
    BY <1>5, <2>1
<1> HIDE DEF s5
<1>7. \A k \in 1 .. Len(s5) : IsAsm(s5[k])
  BY <1>6
<1>8. /\ IsSequence(c) /\ Len(c) = Len(s5) /\ \A k \in 1 .. Len(c) : c[k].id = id
      /\ \A k \in 1 .. Len(s5) : IsLine(c[k], s5[k].op, s5[k].args, id)
  BY <1>1, <1>6, <1>7, CodeOf
<1>9. 1 \in 1 .. Len(s5) /\ 2 \in 1 .. Len(s5) /\ 3 \in 1 .. Len(s5) /\ 4 \in 1 .. Len(s5) /\ 5 \in 1 .. Len(s5)
  BY <1>6
<1>10. /\ IsLine(c[1], v.op, v.args, id)
      /\ IsLine(c[2], w.op, w.args, id)
      /\ IsLine(c[3], x.op, x.args, id)
      /\ IsLine(c[4], y.op, y.args, id)
      /\ IsLine(c[5], z.op, z.args, id)
  BY <1>6, <1>8, <1>9
<1> QED
  BY <1>6, <1>8, <1>10

LEMMA CodeOfThree ==
    ASSUME NEW x, NEW y, NEW z, IsAsm(x), IsAsm(y), IsAsm(z),
           NEW id, NEW c, c = Stamp(<<x>> \o <<y>> \o <<z>>, id)
    PROVE  /\ IsSequence(c) /\ Len(c) = 3 /\ \A k \in 1 .. Len(c) : c[k].id = id
           /\ IsLine(c[1], x.op, x.args, id) /\ IsLine(c[2], y.op, y.args, id)
           /\ IsLine(c[3], z.op, z.args, id)
<1> DEFINE s1 == <<x>>
           s2 == s1 \o <<y>>
           s3 == s2 \o <<z>>
<1>1. c = Stamp(s3, id)
  OBVIOUS
<1>2. IsSequence(s1) /\ Len(s1) = 1 /\ s1[1] = x
  BY DEF IsSequence
<1> HIDE DEF s1
<1>3. /\ IsSequence(s2) /\ Len(s2) = 2
      /\ s2[1] = x /\ s2[2] = y
  <2>1. /\ IsSequence(s2) /\ Len(s2) = Len(s1) + 1
        /\ \A k \in 1 .. Len(s1) : s2[k] = s1[k]
        /\ s2[Len(s1) + 1] = y
    BY <1>2, LineMore
  <2> HIDE DEF s2
  <2> QED
    BY <1>2, <2>1
<1> HIDE DEF s2
<1>4. /\ IsSequence(s3) /\ Len(s3) = 3
      /\ s3[1] = x /\ s3[2] = y /\ s3[3] = z
  <2>1. /\ IsSequence(s3) /\ Len(s3) = Len(s2) + 1
        /\ \A k \in 1 .. Len(s2) : s3[k] = s2[k]
        /\ s3[Len(s2) + 1] = z
    BY <1>3, LineMore
  <2> HIDE DEF s3
  <2> QED
    BY <1>3, <2>1
<1> HIDE DEF s3
<1>5. \A k \in 1 .. Len(s3) : IsAsm(s3[k])
  BY <1>4
<1>6. /\ IsSequence(c) /\ Len(c) = Len(s3) /\ \A k \in 1 .. Len(c) : c[k].id = id
      /\ \A k \in 1 .. Len(s3) : IsLine(c[k], s3[k].op, s3[k].args, id)
  BY <1>1, <1>4, <1>5, CodeOf
<1>7. 1 \in 1 .. Len(s3) /\ 2 \in 1 .. Len(s3) /\ 3 \in 1 .. Len(s3)
  BY <1>4
<1>8. /\ IsLine(c[1], x.op, x.args, id)
      /\ IsLine(c[2], y.op, y.args, id)
      /\ IsLine(c[3], z.op, z.args, id)
  BY <1>4, <1>6, <1>7
<1> QED
  BY <1>4, <1>6, <1>8

LEMMA CodeOfTwo ==
    ASSUME NEW y, NEW z, IsAsm(y), IsAsm(z), NEW id, NEW c, c = Stamp(<<y>> \o <<z>>, id)
    PROVE  /\ IsSequence(c) /\ Len(c) = 2 /\ \A k \in 1 .. Len(c) : c[k].id = id
           /\ IsLine(c[1], y.op, y.args, id) /\ IsLine(c[2], z.op, z.args, id)
<1> DEFINE s1 == <<y>>
           s2 == s1 \o <<z>>
<1>1. c = Stamp(s2, id)
  OBVIOUS
<1>2. IsSequence(s1) /\ Len(s1) = 1 /\ s1[1] = y
  BY DEF IsSequence
<1> HIDE DEF s1
<1>3. /\ IsSequence(s2) /\ Len(s2) = 2
      /\ s2[1] = y /\ s2[2] = z
  <2>1. /\ IsSequence(s2) /\ Len(s2) = Len(s1) + 1
        /\ \A k \in 1 .. Len(s1) : s2[k] = s1[k]
        /\ s2[Len(s1) + 1] = z
    BY <1>2, LineMore
  <2> HIDE DEF s2
  <2> QED
    BY <1>2, <2>1
<1> HIDE DEF s2
<1>4. \A k \in 1 .. Len(s2) : IsAsm(s2[k])
  BY <1>3
<1>5. /\ IsSequence(c) /\ Len(c) = Len(s2) /\ \A k \in 1 .. Len(c) : c[k].id = id
      /\ \A k \in 1 .. Len(s2) : IsLine(c[k], s2[k].op, s2[k].args, id)
  BY <1>1, <1>3, <1>4, CodeOf
<1>6. 1 \in 1 .. Len(s2) /\ 2 \in 1 .. Len(s2)
  BY <1>3
<1>7. /\ IsLine(c[1], y.op, y.args, id)
      /\ IsLine(c[2], z.op, z.args, id)
  BY <1>3, <1>5, <1>6
<1> QED
  BY <1>3, <1>5, <1>7

LEMMA CodeOfOne ==
    ASSUME NEW z, IsAsm(z), NEW id, NEW c, c = Stamp(<<z>>, id)
    PROVE  /\ IsSequence(c) /\ Len(c) = 1 /\ \A k \in 1 .. Len(c) : c[k].id = id
           /\ IsLine(c[1], z.op, z.args, id)
<1> DEFINE s1 == <<z>>
<1>1. c = Stamp(s1, id)
  OBVIOUS
<1>2. IsSequence(s1) /\ Len(s1) = 1 /\ s1[1] = z
  BY DEF IsSequence
<1> HIDE DEF s1
<1>3. \A k \in 1 .. Len(s1) : IsAsm(s1[k])
  BY <1>2
<1>4. /\ IsSequence(c) /\ Len(c) = Len(s1) /\ \A k \in 1 .. Len(c) : c[k].id = id
      /\ \A k \in 1 .. Len(s1) : IsLine(c[k], s1[k].op, s1[k].args, id)
  BY <1>1, <1>2, <1>3, CodeOf
<1>5. 1 \in 1 .. Len(s1)
  BY <1>2
<1>6. /\ IsLine(c[1], z.op, z.args, id)
  BY <1>2, <1>4, <1>5
<1> QED
  BY <1>2, <1>4, <1>6

LEMMA InstructionLines ==
    ASSUME NEW f, NEW id, Fed(f, id)
    PROVE  LET c == emitInstruction(f, id)
           IN /\ IsSequence(c) /\ \A k \in 1 .. Len(c) : c[k].id = id
              /\ Instr(f, id).opcode # "ALLOCA" => Len(c) >= 1
              /\ CodeLines(f, id, c)
<1> DEFINE instr == Instr(f, id)
           opcode == instr.opcode
           cond == instr.cond
           ops == instr.operands
           c == emitInstruction(f, id)
           F(k, reg) == Fetch(f, ops[k], reg)
           Stamps == IsSequence(c) /\ \A k \in 1 .. Len(c) : c[k].id = id
           push(reg) == Asm("sw", SlotArgs(reg, id))
<1>1. ASSUME NEW k, IsOperand(ops[k]), NEW reg
      PROVE  IsAsm(F(k, reg)) /\ loadValue(f, ops[k], reg) = <<F(k, reg)>>
  BY <1>1, FetchFacts
<1>2. ASSUME NEW reg PROVE pushStack(id, reg) = <<push(reg)>> /\ IsAsm(push(reg))
                           /\ push(reg).op = "sw" /\ push(reg).args = SlotArgs(reg, id)
  BY AsmIsAsm DEF pushStack, SlotArgs
<1>3. /\ opcode \in LLVMOpcode /\ cond \in LLVMCmpCond
      /\ opcode \in LLVM!Operation \cup {"LOAD", "RET"} => IsOperand(ops[1])
      /\ opcode \in LLVM!Operation => IsOperand(ops[2])
      /\ opcode = "BR" /\ Len(ops) # 1 => IsOperand(ops[1])
  BY DEF Fed
<1>4. opcode \in DOMAIN Operation =>
        opcode \notin {"ICMP", "ALLOCA", "LOAD", "STORE", "BR", "RET"}
  BY DEF Operation
<1> HIDE DEF F, push, c, instr, opcode, cond, ops
<1>5. CASE opcode \in DOMAIN Operation
  <2> DEFINE a == Asm(Operation[opcode], <<"t2", "t0", "t1">>)
  <2>1. opcode \in LLVM!Operation
    BY <1>5, Opcodes
  <2>2. c = Stamp(Both(f, instr) \o <<a>> \o pushStack(id, "t2"), id)
    BY <1>5, EmitsByOpcode DEF instr, opcode, c
  <2>3. Both(f, instr) = <<F(1, "t0")>> \o <<F(2, "t1")>>
    BY <1>1, <1>3, <2>1 DEF Both, ops
  <2>4. IsAsm(a) /\ a.op = Operation[opcode] /\ a.args = <<"t2", "t0", "t1">>
    BY AsmIsAsm
  <2> HIDE DEF a
  <2>5. c = Stamp(<<F(1, "t0")>> \o <<F(2, "t1")>> \o <<a>> \o <<push("t2")>>, id)
    BY <1>2, <2>2, <2>3
  <2>6. IsAsm(F(1, "t0")) /\ IsAsm(F(2, "t1")) /\ IsAsm(push("t2"))
    BY <1>1, <1>2, <1>3, <2>1
  <2>7. /\ Stamps /\ Len(c) = 4
        /\ IsLine(c[1], F(1, "t0").op, F(1, "t0").args, id)
        /\ IsLine(c[2], F(2, "t1").op, F(2, "t1").args, id)
        /\ IsLine(c[3], a.op, a.args, id) /\ IsLine(c[4], push("t2").op, push("t2").args, id)
    BY <2>4, <2>5, <2>6, CodeOfFour
  <2>8. CodeLines(f, id, c)
    BY <1>2, <1>4, <1>5, <2>4, <2>7 DEF CodeLines, Loads, F, instr, opcode, ops
  <2> QED
    BY <2>7, <2>8 DEF c
<1>6. CASE opcode = "ICMP"
  <2> DEFINE args == IF Swapped(cond) THEN <<"t2", "t1", "t0">> ELSE <<"t2", "t0", "t1">>
             a == Asm(ComparisonOp(cond), args)
             b == SecondLine(cond)
  <2>1. opcode \in LLVM!Operation /\ opcode \notin DOMAIN Operation
    BY <1>6, Opcodes DEF Operation
  <2>2. c = Stamp(Both(f, instr) \o Comparison(cond) \o pushStack(id, "t2"), id)
    BY <1>6, EmitsByOpcode DEF instr, opcode, cond, c
  <2>3. Both(f, instr) = <<F(1, "t0")>> \o <<F(2, "t1")>>
    BY <1>1, <1>3, <2>1 DEF Both, ops
  <2>4. IsAsm(a) /\ a.op = ComparisonOp(cond) /\ a.args = args
    BY AsmIsAsm
  <2>5. cond \in TwoStep => IsAsm(b)
    BY AsmIsAsm DEF TwoStep, SecondLine
  <2>6. Comparison(cond) = IF cond \in TwoStep THEN <<a, b>> ELSE <<a>>
    BY <1>3, ComparisonLines
  <2> HIDE DEF a, b
  <2>7. IsAsm(F(1, "t0")) /\ IsAsm(F(2, "t1")) /\ IsAsm(push("t2"))
    BY <1>1, <1>2, <1>3, <2>1
  <2>8. CASE cond \in TwoStep
    <3>1. c = Stamp(<<F(1, "t0")>> \o <<F(2, "t1")>> \o <<a, b>> \o <<push("t2")>>, id)
      BY <1>2, <2>2, <2>3, <2>6, <2>8
    <3>2. IsAsm(b)
      BY <2>5, <2>8
    <3>3. /\ Stamps /\ Len(c) = 5
          /\ IsLine(c[1], F(1, "t0").op, F(1, "t0").args, id)
          /\ IsLine(c[2], F(2, "t1").op, F(2, "t1").args, id)
          /\ IsLine(c[3], a.op, a.args, id) /\ IsLine(c[4], b.op, b.args, id)
          /\ IsLine(c[5], push("t2").op, push("t2").args, id)
      BY <2>4, <2>7, <3>1, <3>2, CodeOfFive
    <3>4. CodeLines(f, id, c)
      BY <1>2, <1>6, <2>1, <2>4, <2>8, <3>3 DEF CodeLines, Loads, F, instr, opcode, cond, ops, b
    <3> QED
      BY <3>3, <3>4 DEF c
  <2>9. CASE cond \notin TwoStep
    <3>1. c = Stamp(<<F(1, "t0")>> \o <<F(2, "t1")>> \o <<a>> \o <<push("t2")>>, id)
      BY <1>2, <2>2, <2>3, <2>6, <2>9
    <3>3. /\ Stamps /\ Len(c) = 4
          /\ IsLine(c[1], F(1, "t0").op, F(1, "t0").args, id)
          /\ IsLine(c[2], F(2, "t1").op, F(2, "t1").args, id)
          /\ IsLine(c[3], a.op, a.args, id)
          /\ IsLine(c[4], push("t2").op, push("t2").args, id)
      BY <2>4, <2>7, <3>1, CodeOfFour
    <3>4. CodeLines(f, id, c)
      BY <1>2, <1>6, <2>1, <2>4, <2>9, <3>3 DEF CodeLines, Loads, F, instr, opcode, cond, ops
    <3> QED
      BY <3>3, <3>4 DEF c
  <2> QED
    BY <2>8, <2>9
<1>7. CASE opcode = "ALLOCA"
  <2>1. c = Stamp(<<>>, id)
    BY <1>7, EmitsByOpcode DEF instr, opcode, c
  <2>2. c = <<>>
    BY <2>1 DEF Stamp
  <2>3. Stamps
    BY <2>2 DEF IsSequence
  <2>4. CodeLines(f, id, c)
    BY <1>4, <1>7, <2>2 DEF CodeLines, instr, opcode
  <2> QED
    BY <1>7, <2>3, <2>4 DEF c, opcode, instr
<1>8. CASE opcode = "LOAD"
  <2> DEFINE a == Asm("lw", <<"t1", 0, "t0">>)
  <2>1. c = Stamp(loadValue(f, ops[1], "t0") \o <<a>> \o pushStack(id, "t1"), id)
    BY <1>8, EmitsByOpcode DEF instr, opcode, ops, c
  <2>2. IsAsm(a) /\ a.op = "lw" /\ a.args = <<"t1", 0, "t0">>
    BY AsmIsAsm
  <2> HIDE DEF a
  <2>3. c = Stamp(<<F(1, "t0")>> \o <<a>> \o <<push("t1")>>, id)
    BY <1>1, <1>2, <1>3, <1>8, <2>1
  <2>4. IsAsm(F(1, "t0")) /\ IsAsm(push("t1"))
    BY <1>1, <1>2, <1>3, <1>8
  <2>5. /\ Stamps /\ Len(c) = 3
        /\ IsLine(c[1], F(1, "t0").op, F(1, "t0").args, id)
        /\ IsLine(c[2], a.op, a.args, id) /\ IsLine(c[3], push("t1").op, push("t1").args, id)
    BY <2>2, <2>3, <2>4, CodeOfThree
  <2>6. CodeLines(f, id, c)
    BY <1>2, <1>4, <1>8, <2>2, <2>5 DEF CodeLines, Loads, F, instr, opcode, ops
  <2> QED
    BY <2>5, <2>6 DEF c
<1>9. CASE opcode = "STORE"
  <2> DEFINE a == Asm("sw", <<"t0", 0, "t1">>)
  <2>0. opcode \in LLVM!Operation
    BY <1>9, Opcodes
  <2>1. c = Stamp(Both(f, instr) \o <<a>>, id)
    BY <1>9, EmitsByOpcode DEF instr, opcode, c
  <2>2. IsAsm(a) /\ a.op = "sw" /\ a.args = <<"t0", 0, "t1">>
    BY AsmIsAsm
  <2>3. Both(f, instr) = <<F(1, "t0")>> \o <<F(2, "t1")>>
    BY <1>1, <1>3, <2>0 DEF Both, ops
  <2> HIDE DEF a
  <2>4. c = Stamp(<<F(1, "t0")>> \o <<F(2, "t1")>> \o <<a>>, id)
    BY <2>1, <2>3
  <2>5. IsAsm(F(1, "t0")) /\ IsAsm(F(2, "t1"))
    BY <1>1, <1>3, <2>0
  <2> DEFINE x == F(1, "t0")
             y == F(2, "t1")
  <2> HIDE DEF x, y
  <2>7. c = Stamp(<<x>> \o <<y>> \o <<a>>, id) /\ IsAsm(x) /\ IsAsm(y)
    BY <2>4, <2>5 DEF x, y
  <2>8. /\ Stamps /\ Len(c) = 3
        /\ IsLine(c[1], x.op, x.args, id)
        /\ IsLine(c[2], y.op, y.args, id)
        /\ IsLine(c[3], a.op, a.args, id)
    BY <2>2, <2>7, CodeOfThree
  <2>6. /\ Stamps /\ Len(c) = 3
        /\ IsLine(c[1], F(1, "t0").op, F(1, "t0").args, id)
        /\ IsLine(c[2], F(2, "t1").op, F(2, "t1").args, id)
        /\ IsLine(c[3], a.op, a.args, id)
    BY <2>8 DEF x, y
  <2>9. CodeLines(f, id, c)
    BY <1>4, <1>9, <2>2, <2>6 DEF CodeLines, Loads, F, instr, opcode, ops
  <2> QED
    BY <2>6, <2>9 DEF c
<1>10. CASE opcode = "BR"
  <2> DEFINE a(k) == Asm("j", <<BlockLabel(f, ops[k])>>)
             b == Asm("bnez", <<"t0", BlockLabel(f, ops[2])>>)
  <2>1. c = Stamp(emitBranch(f, ops), id)
    BY <1>10, EmitsByOpcode DEF instr, opcode, ops, c
  <2>2. \A k : IsAsm(a(k)) /\ a(k).op = "j" /\ a(k).args = <<BlockLabel(f, ops[k])>>
    BY AsmIsAsm
  <2>3. IsAsm(b) /\ b.op = "bnez" /\ b.args = <<"t0", BlockLabel(f, ops[2])>>
    BY AsmIsAsm
  <2>4. CASE Len(ops) = 1
    <3>1. c = Stamp(<<a(1)>>, id)
      BY <2>1, <2>4 DEF emitBranch, jump
    <3> HIDE DEF a, b
    <3>2. Stamps /\ Len(c) = 1 /\ IsLine(c[1], a(1).op, a(1).args, id)
      BY <2>2, <3>1, CodeOfOne
    <3>3. CodeLines(f, id, c)
      BY <1>4, <1>10, <2>2, <2>4, <3>2 DEF CodeLines, instr, opcode, ops
    <3> QED
      BY <3>2, <3>3 DEF c
  <2>5. CASE Len(ops) # 1
    <3>1. c = Stamp(<<F(1, "t0")>> \o <<b>> \o <<a(3)>>, id)
      BY <1>1, <1>3, <1>10, <2>1, <2>5 DEF emitBranch, jump
    <3> HIDE DEF a, b
    <3>2. IsAsm(F(1, "t0"))
      BY <1>1, <1>3, <1>10, <2>5
    <3>3. /\ Stamps /\ Len(c) = 3
          /\ IsLine(c[1], F(1, "t0").op, F(1, "t0").args, id)
          /\ IsLine(c[2], b.op, b.args, id) /\ IsLine(c[3], a(3).op, a(3).args, id)
      BY <2>2, <2>3, <3>1, <3>2, CodeOfThree
    <3>4. CodeLines(f, id, c)
      BY <1>4, <1>10, <2>2, <2>3, <2>5, <3>3 DEF CodeLines, Loads, F, instr, opcode, ops
    <3> QED
      BY <3>3, <3>4 DEF c
  <2> QED
    BY <2>4, <2>5
<1>11. CASE opcode = "RET"
  <2> DEFINE a == Asm("j", <<Epilogue>>)
  <2>1. c = Stamp(loadValue(f, ops[1], "a0") \o <<a>>, id)
    BY <1>11, EmitsByOpcode DEF instr, opcode, ops, c
  <2>2. IsAsm(a) /\ a.op = "j" /\ a.args = <<Epilogue>>
    BY AsmIsAsm
  <2> HIDE DEF a
  <2>3. c = Stamp(<<F(1, "a0")>> \o <<a>>, id)
    BY <1>1, <1>3, <1>11, <2>1
  <2>4. IsAsm(F(1, "a0"))
    BY <1>1, <1>3, <1>11
  <2>5. /\ Stamps /\ Len(c) = 2
        /\ IsLine(c[1], F(1, "a0").op, F(1, "a0").args, id)
        /\ IsLine(c[2], a.op, a.args, id)
    BY <2>2, <2>3, <2>4, CodeOfTwo
  <2>6. CodeLines(f, id, c)
    BY <1>4, <1>11, <2>2, <2>5 DEF CodeLines, Loads, F, instr, opcode, ops
  <2> QED
    BY <2>5, <2>6 DEF c
<1>12. opcode \in DOMAIN Operation \cup {"ICMP", "ALLOCA", "LOAD", "STORE", "BR", "RET"}
  BY <1>3 DEF LLVMOpcode, Operation
<1> QED
  BY <1>5, <1>6, <1>7, <1>8, <1>9, <1>10, <1>11, <1>12

-----------------------------------------------------------------------------
(* Where sequences end up that are flattened                               *)

First(S, m) == [k \in 1 .. m |-> S[k]]
LEMMA FirstFacts ==
    ASSUME NEW S, NEW m \in Nat
    PROVE  /\ Len(First(S, m)) = m /\ IsSequence(First(S, m))
           /\ \A k \in 1 .. m : First(S, m)[k] = S[k]
<1> DEFINE t == [k \in 1 .. m |-> S[k]]
<1>1. t \in Seq({S[k] : k \in 1 .. m})
  OBVIOUS
<1>2. t = [k \in 1 .. m |-> t[k]] /\ \A k \in 1 .. m : t[k] = S[k]
  OBVIOUS
<1> HIDE DEF t
<1>3. Len(t) = m
  BY <1>1, <1>2
<1> QED
  BY <1>2, <1>3 DEF t, First, IsSequence

LEMMA FlattenNone == ASSUME NEW S PROVE FlattenSeq(First(S, 0)) = <<>>
<1>1. Len(First(S, 0)) = 0
  BY FirstFacts
<1>2. First(S, 0) = <<>>
  BY DEF First
<1> QED
  BY <1>1, <1>2 DEF FlattenSeq

\* The recursive function in FlattenSeq has one value at each place.
LEMMA FlattenUnique ==
    ASSUME NEW S, NEW g, FlattensTo(S, g), NEW m \in Nat, m # 0,
           Len(S) \in Nat, m <= Len(S)
    PROVE  FlattenSeq(First(S, m)) = g[m]
<1> DEFINE s == First(S, m)
           h == CHOOSE flatten : FlattensTo(s, flatten)
<1>1. Len(s) = m /\ \A k \in 1 .. m : s[k] = S[k]
  BY FirstFacts
<1> HIDE DEF s
<1>2. FlattenSeq(s) = h[m]
  BY <1>1 DEF FlattenSeq, FlattensTo
<1>3. FlattensTo(s, h)
  <2>1. \E flatten : FlattensTo(s, flatten)
    BY <1>1, FlattenSolved
  <2> QED
    BY <2>1
<1> HIDE DEF h
<1>4. ASSUME NEW k \in 1 .. m PROVE h[k] = IF k = 1 THEN S[k] ELSE h[k - 1] \o S[k]
  <2> DEFINE e == [i \in 1 .. Len(s) |-> IF i = 1 THEN s[i] ELSE h[i - 1] \o s[i]]
  <2>1. h = e
    BY <1>3 DEF FlattensTo
  <2>2. e[k] = IF k = 1 THEN S[k] ELSE h[k - 1] \o S[k]
    BY <1>1
  <2> HIDE DEF e
  <2> QED
    BY <2>1, <2>2
<1>5. ASSUME NEW k \in 1 .. m PROVE g[k] = IF k = 1 THEN S[k] ELSE g[k - 1] \o S[k]
  <2> DEFINE e == [i \in 1 .. Len(S) |-> IF i = 1 THEN S[i] ELSE g[i - 1] \o S[i]]
  <2>1. g = e
    BY DEF FlattensTo
  <2>2. e[k] = IF k = 1 THEN S[k] ELSE g[k - 1] \o S[k]
    <3>1. k \in 1 .. Len(S)
      OBVIOUS
    <3> QED
      BY <3>1
  <2> HIDE DEF e
  <2> QED
    BY <2>1, <2>2
<1> DEFINE G == {k \in Nat : k + 1 <= m => h[k + 1] = g[k + 1]}
<1>6. 0 \in G
  <2>1. 1 \in 1 .. m
    OBVIOUS
  <2> QED
    BY <1>4, <1>5, <2>1
<1>7. ASSUME NEW k \in Nat, k \in G PROVE k + 1 \in G
  <2>1. SUFFICES ASSUME (k + 1) + 1 <= m PROVE h[(k + 1) + 1] = g[(k + 1) + 1]
    OBVIOUS
  <2>2. (k + 1) + 1 \in 1 .. m /\ (k + 1) + 1 # 1 /\ ((k + 1) + 1) - 1 = k + 1 /\ k + 1 <= m
    BY <2>1
  <2>3. h[k + 1] = g[k + 1]
    BY <1>7, <2>2
  <2>4. /\ h[(k + 1) + 1] = h[k + 1] \o S[(k + 1) + 1]
        /\ g[(k + 1) + 1] = g[k + 1] \o S[(k + 1) + 1]
    BY <1>4, <1>5, <2>2
  <2> QED
    BY <2>3, <2>4
<1> HIDE DEF G
<1>8. m - 1 \in G /\ (m - 1) + 1 = m
  BY <1>6, <1>7, SetInduction
<1>9. h[m] = g[m]
  BY <1>8 DEF G
<1> QED
  BY <1>2, <1>9 DEF s

\* One sequence more lengthens what the ones before it make.
LEMMA FlattenMore ==
    ASSUME NEW S, IsSequence(S), \A k \in 1 .. Len(S) : IsSequence(S[k]),
           NEW m \in Nat, m + 1 <= Len(S)
    PROVE  FlattenSeq(First(S, m + 1)) = FlattenSeq(First(S, m)) \o S[m + 1]
<1>1. Len(S) \in Nat
  BY DEF IsSequence
<1>2. PICK g : FlattensTo(S, g)
  BY <1>1, FlattenSolved
<1>3. FlattenSeq(First(S, m + 1)) = g[m + 1]
  BY <1>1, <1>2, FlattenUnique
<1>4. g[m + 1] = IF m = 0 THEN S[m + 1] ELSE g[m] \o S[m + 1]
  <2> DEFINE e == [i \in 1 .. Len(S) |-> IF i = 1 THEN S[i] ELSE g[i - 1] \o S[i]]
  <2>1. g = e
    BY <1>2 DEF FlattensTo
  <2>2. m + 1 \in 1 .. Len(S) /\ (m + 1 = 1 <=> m = 0) /\ (m + 1) - 1 = m
    BY <1>1
  <2>3. e[m + 1] = IF m = 0 THEN S[m + 1] ELSE g[m] \o S[m + 1]
    BY <2>2
  <2> HIDE DEF e
  <2> QED
    BY <2>1, <2>3
<1>5. CASE m = 0
  <2>1. FlattenSeq(First(S, m)) = <<>>
    BY <1>5, FlattenNone
  <2>2. IsSequence(S[m + 1])
    BY <1>1
  <2>3. <<>> \o S[m + 1] = S[m + 1]
    BY <2>2, NothingBefore
  <2> QED
    BY <1>3, <1>4, <1>5, <2>1, <2>3
<1>6. CASE m # 0
  <2>1. FlattenSeq(First(S, m)) = g[m]
    BY <1>1, <1>2, <1>6, FlattenUnique
  <2> QED
    BY <1>3, <1>4, <1>6, <2>1
<1> QED
  BY <1>5, <1>6

\* w begins with s.
Begins(s, w) == Len(s) <= Len(w) /\ \A k \in 1 .. Len(s) : w[k] = s[k]

LEMMA FlattenBegins ==
    ASSUME NEW S, IsSequence(S), \A k \in 1 .. Len(S) : IsSequence(S[k])
    PROVE  /\ FlattenSeq(First(S, Len(S))) = FlattenSeq(S)
           /\ \A m \in 0 .. Len(S) :
                /\ IsSequence(FlattenSeq(First(S, m)))
                /\ \A l \in 0 .. m : Begins(FlattenSeq(First(S, l)), FlattenSeq(First(S, m)))
<1> DEFINE F(m) == FlattenSeq(First(S, m))
           G == {m \in Nat : m <= Len(S) => IsSequence(F(m)) /\ \A l \in 0 .. m : IsSequence(F(l)) /\ Begins(F(l), F(m))}
<1>1. Len(S) \in Nat
  BY DEF IsSequence
<1>2. First(S, Len(S)) = S
  BY DEF First, IsSequence
<1>3. 0 \in G
  <2>1. F(0) = <<>>
    BY FlattenNone
  <2>2. Len(<<>>) = 0 /\ IsSequence(<<>>)
    BY DEF IsSequence
  <2> HIDE DEF F
  <2>3. IsSequence(F(0)) /\ Begins(F(0), F(0))
    BY <2>1, <2>2 DEF Begins
  <2> QED
    BY <2>3
<1>4. ASSUME NEW m \in Nat, m \in G PROVE m + 1 \in G
  <2>1. SUFFICES ASSUME m + 1 <= Len(S)
                 PROVE  /\ IsSequence(F(m + 1))
                        /\ \A l \in 0 .. m + 1 : IsSequence(F(l)) /\ Begins(F(l), F(m + 1))
    OBVIOUS
  <2>2. IsSequence(F(m)) /\ \A l \in 0 .. m : IsSequence(F(l)) /\ Begins(F(l), F(m))
    BY <1>1, <1>4, <2>1
  <2>3. IsSequence(S[m + 1])
    BY <1>1, <2>1
  <2>4. F(m + 1) = F(m) \o S[m + 1]
    BY <2>1, FlattenMore
  <2> HIDE DEF F
  <2>5. /\ IsSequence(F(m + 1)) /\ Len(F(m + 1)) = Len(F(m)) + Len(S[m + 1])
        /\ \A k \in 1 .. Len(F(m)) : F(m + 1)[k] = F(m)[k]
    <3> DEFINE s == F(m)
               t == S[m + 1]
    <3> HIDE DEF s, t
    <3>1. IsSequence(s) /\ IsSequence(t)
      BY <2>2, <2>3 DEF s, t
    <3>2. /\ IsSequence(s \o t) /\ Len(s \o t) = Len(s) + Len(t)
          /\ \A k \in 1 .. Len(s) : (s \o t)[k] = s[k]
      BY <3>1, Concatenated
    <3>3. F(m + 1) = s \o t
      BY <2>4 DEF s, t
    <3> QED
      BY <3>2, <3>3 DEF s, t
  <2>6. Len(F(m)) \in Nat /\ Len(S[m + 1]) \in Nat /\ Len(F(m + 1)) \in Nat
    BY <2>2, <2>3, <2>5 DEF IsSequence
  <2>7. Begins(F(m), F(m + 1)) /\ Begins(F(m + 1), F(m + 1))
    BY <2>5, <2>6 DEF Begins
  <2>8. ASSUME NEW l \in 0 .. m PROVE Begins(F(l), F(m + 1))
    <3>1. Begins(F(l), F(m)) /\ Len(F(l)) <= Len(F(m + 1))
      <4>1. Len(F(l)) <= Len(F(m))
        BY <2>2 DEF Begins
      <4>2. Len(F(l)) \in Nat
        BY <2>2 DEF IsSequence
      <4> QED
        BY <2>2, <2>5, <2>6, <4>1
    <3>2. \A k \in 1 .. Len(F(l)) : k \in 1 .. Len(F(m))
      BY <2>6, <3>1 DEF Begins
    <3> QED
      BY <2>5, <3>1, <3>2 DEF Begins
  <2> QED
    BY <2>2, <2>5, <2>7, <2>8
<1> HIDE DEF G
<1>5. Nat \subseteq G
  BY <1>3, <1>4, SetInduction
<1>6. \A m \in 0 .. Len(S) : IsSequence(F(m)) /\ \A l \in 0 .. m : Begins(F(l), F(m))
  BY <1>1, <1>5 DEF G
<1> QED
  BY <1>2, <1>6

-----------------------------------------------------------------------------
(* The lines of a function                                                 *)

Increasing(s) == IsSequence(s) /\ \A i, j \in 1 .. Len(s) : i < j => s[i] < s[j]

LEMMA FlattenOrder ==
    ASSUME NEW S, IsSequence(S), \A k \in 1 .. Len(S) : Increasing(S[k]),
           \A k, l \in 1 .. Len(S) : k < l =>
              \A i \in 1 .. Len(S[k]), j \in 1 .. Len(S[l]) : S[k][i] < S[l][j]
    PROVE  /\ Increasing(FlattenSeq(S))
           /\ \A n \in 1 .. Len(FlattenSeq(S)) :
                \E k \in 1 .. Len(S) : \E i \in 1 .. Len(S[k]) : FlattenSeq(S)[n] = S[k][i]
<1> DEFINE s == FlattenSeq(S)
<1>1. LLVM!FlattenSeq(S) = s
  BY DEF LLVM!FlattenSeq, FlattenSeq
<1>2. \A k \in 1 .. Len(S) : IsSequence(S[k]) /\ Len(S[k]) \in Nat
  BY DEF Increasing, IsSequence
<1>3. PICK N : Joins(S, s, N, Len(S))
  BY <1>1, <1>2, FlattenJoins
<1> HIDE DEF s
<1>4. Len(S) \in Nat
  BY DEF IsSequence
<1>5. ASSUME NEW n \in 1 .. Len(s)
      PROVE  \E k \in 1 .. Len(S) : \E i \in 1 .. Len(S[k]) : n = N[k] + i /\ s[n] = S[k][i]
  <2>1. PICK k \in 1 .. Len(S) : \E i \in 1 .. Len(S[k]) : n = N[k] + i
    BY <1>3 DEF Joins
  <2>2. PICK i \in 1 .. Len(S[k]) : n = N[k] + i
    BY <2>1
  <2>3. s[N[k] + i] = S[k][i]
    BY <1>3 DEF Joins
  <2> QED
    BY <2>2, <2>3
<1>6. /\ \A k \in 1 .. Len(S) : N[k] \in Nat
      /\ \A k, l \in 1 .. Len(S) : k < l => N[k] + Len(S[k]) <= N[l]
  BY <1>3 DEF Joins
<1>7. ASSUME NEW m \in 1 .. Len(s), NEW n \in 1 .. Len(s), m < n PROVE s[m] < s[n]
  <2>1. PICK k \in 1 .. Len(S) : \E i \in 1 .. Len(S[k]) : m = N[k] + i /\ s[m] = S[k][i]
    BY <1>5
  <2>2. PICK i \in 1 .. Len(S[k]) : m = N[k] + i /\ s[m] = S[k][i]
    BY <2>1
  <2>3. PICK l \in 1 .. Len(S) : \E j \in 1 .. Len(S[l]) : n = N[l] + j /\ s[n] = S[l][j]
    BY <1>5
  <2>4. PICK j \in 1 .. Len(S[l]) : n = N[l] + j /\ s[n] = S[l][j]
    BY <2>3
  <2>5. /\ N[k] \in Nat /\ N[l] \in Nat /\ k \in Nat /\ l \in Nat
        /\ l < k => N[l] + Len(S[l]) <= N[k]
    BY <1>4, <1>6
  <2>6. CASE k = l
    <3>1. i < j
      BY <1>2, <1>7, <2>2, <2>4, <2>5, <2>6
    <3>2. Increasing(S[k]) /\ j \in 1 .. Len(S[k])
      BY <2>6
    <3>3. S[k][i] < S[k][j]
      BY <3>1, <3>2 DEF Increasing
    <3> QED
      BY <2>2, <2>4, <2>6, <3>3
  <2>7. CASE k < l
    BY <2>2, <2>4, <2>7
  <2>8. CASE l < k
    <3>1. n <= N[k]
      BY <1>2, <2>4, <2>5, <2>8
    <3> QED
      BY <1>2, <1>7, <2>2, <2>5, <3>1
  <2> QED
    BY <2>5, <2>6, <2>7, <2>8
<1>8. IsSequence(s)
  BY <1>3 DEF Joins
<1>9. Increasing(s)
  BY <1>7, <1>8 DEF Increasing
<1> QED
  BY <1>5, <1>9 DEF s

\* What LinesOf and Lines put one behind another.
Piece(f, id) == IF Instr(f, id).opcode = "ALLOCA" THEN <<>> ELSE <<id>>
Pieces(f, block) == [k \in DOMAIN block.instrIDs |-> Piece(f, block.instrIDs[k])]
Parts(f) == [b \in DOMAIN f.blocks |-> LinesOf(f, f.blocks[b])]

LEMMA PieceFacts ==
    ASSUME NEW f, NEW id
    PROVE  /\ Increasing(Piece(f, id))
           /\ Instr(f, id).opcode = "ALLOCA" => Len(Piece(f, id)) = 0
           /\ Instr(f, id).opcode # "ALLOCA" => Len(Piece(f, id)) = 1 /\ Piece(f, id)[1] = id
<1>1. Increasing(<<>>) /\ Len(<<>>) = 0
  BY DEF Increasing, IsSequence
<1> DEFINE s == <<id>>
<1>2. Len(s) = 1 /\ s[1] = id /\ IsSequence(s)
  BY DEF IsSequence
<1> HIDE DEF s
<1>3. Increasing(s)
  BY <1>2 DEF Increasing
<1> QED
  BY <1>1, <1>2, <1>3 DEF Piece, s

\* Functions whose lines are in order.
Orderly(f) == f \in FunctionType /\ ListsExisting(f) /\ InOrder(f)

LEMMA LinesOfBlock ==
    ASSUME NEW f, Orderly(f), NEW b \in BlockIDs(f)
    PROVE  LET block == Block(f, b)
               ids == block.instrIDs
               S == Pieces(f, block)
               L == LinesOf(f, block)
           IN /\ DOMAIN ids = 1 .. Len(ids) /\ Len(ids) \in Nat
              /\ IsSequence(S) /\ Len(S) = Len(ids) /\ L = FlattenSeq(S)
              /\ \A k \in 1 .. Len(ids) : S[k] = Piece(f, ids[k]) /\ IsSequence(S[k])
              /\ Increasing(L)
              /\ \A n \in 1 .. Len(L) : \E k \in 1 .. Len(ids) :
                   L[n] = ids[k] /\ Instr(f, ids[k]).opcode # "ALLOCA"
<1> DEFINE block == Block(f, b)
           ids == block.instrIDs
           S == Pieces(f, block)
           L == LinesOf(f, block)
<1>1. DOMAIN ids = 1 .. Len(ids) /\ Len(ids) \in Nat
  BY BlockFields DEF Orderly
<1>2. \A k, l \in DOMAIN ids : k < l => ids[k] < ids[l]
  BY DEF Orderly, InOrder
<1>3. L = FlattenSeq(S)
  BY DEF LinesOf, Pieces, Piece
<1>4. S = First(S, Len(ids))
  BY <1>1 DEF Pieces, First
<1>5. Len(S) = Len(ids) /\ IsSequence(S)
  BY <1>1, <1>4, FirstFacts
<1>6. \A k \in 1 .. Len(ids) : S[k] = Piece(f, ids[k])
  BY <1>1 DEF Pieces
<1> HIDE DEF block, ids, S, L
<1>7. ASSUME NEW k \in 1 .. Len(ids)
      PROVE  /\ Increasing(S[k]) /\ IsSequence(S[k])
             /\ \A i \in 1 .. Len(S[k]) :
                  S[k][i] = ids[k] /\ Instr(f, ids[k]).opcode # "ALLOCA"
  <2>1. Increasing(S[k])
    BY <1>6, PieceFacts
  <2>2. CASE Instr(f, ids[k]).opcode = "ALLOCA"
    <3>1. Len(S[k]) = 0
      BY <1>6, <2>2, PieceFacts
    <3> QED
      BY <2>1, <3>1 DEF Increasing
  <2>3. CASE Instr(f, ids[k]).opcode # "ALLOCA"
    <3>1. Len(S[k]) = 1 /\ S[k][1] = ids[k]
      BY <1>6, <2>3, PieceFacts
    <3> QED
      BY <2>1, <2>3, <3>1 DEF Increasing
  <2> QED
    BY <2>2, <2>3
<1>8. \A k, l \in 1 .. Len(S) : k < l =>
         \A i \in 1 .. Len(S[k]), j \in 1 .. Len(S[l]) : S[k][i] < S[l][j]
  BY <1>1, <1>2, <1>5, <1>7
<1>9. /\ Increasing(L)
      /\ \A n \in 1 .. Len(L) :
            \E k \in 1 .. Len(S) : \E i \in 1 .. Len(S[k]) : L[n] = S[k][i]
  BY <1>3, <1>5, <1>7, <1>8, FlattenOrder
<1>10. ASSUME NEW n \in 1 .. Len(L)
       PROVE \E k \in 1 .. Len(ids) : L[n] = ids[k] /\ Instr(f, ids[k]).opcode # "ALLOCA"
  <2>1. PICK k \in 1 .. Len(S) : \E i \in 1 .. Len(S[k]) : L[n] = S[k][i]
    BY <1>9
  <2> QED
    BY <1>5, <1>7, <2>1
<1> QED
  BY <1>1, <1>3, <1>5, <1>6, <1>7, <1>9, <1>10 DEF block, ids, S, L

LEMMA LinesInOrder ==
    ASSUME NEW f, Orderly(f)
    PROVE  LET S == Parts(f)
               L == Lines(f)
           IN /\ DOMAIN f.blocks = 1 .. Len(f.blocks) /\ Len(f.blocks) \in Nat
              /\ IsSequence(S) /\ Len(S) = Len(f.blocks) /\ L = FlattenSeq(S)
              /\ \A b \in BlockIDs(f) :
                   S[b + 1] = LinesOf(f, Block(f, b)) /\ IsSequence(S[b + 1])
              /\ \A k \in 1 .. Len(S) : IsSequence(S[k])
              /\ Increasing(L)
              /\ \A n \in 1 .. Len(L) :
                   /\ L[n] \in InstrIDs(f) /\ Instr(f, L[n]).opcode # "ALLOCA"
                   /\ \E b \in BlockIDs(f) : Lists(f, b, L[n])
<1> DEFINE S == Parts(f)
           L == Lines(f)
<1>1. f \in FunctionType
  BY DEF Orderly
<1>2. DOMAIN f.blocks = 1 .. Len(f.blocks) /\ Len(f.blocks) \in Nat
  BY <1>1, FunctionFields
<1>3. L = FlattenSeq(S)
  BY DEF Lines, ListedIn, Parts
<1>4. S = First(S, Len(f.blocks))
  BY <1>2 DEF Parts, First
<1>5. Len(S) = Len(f.blocks) /\ IsSequence(S)
  BY <1>2, <1>4, FirstFacts
<1>6. ASSUME NEW k \in 1 .. Len(f.blocks)
      PROVE  k - 1 \in BlockIDs(f) /\ S[k] = LinesOf(f, Block(f, k - 1))
  <2>1. k - 1 \in BlockIDs(f) /\ (k - 1) + 1 = k
    BY <1>2 DEF BlockIDs, LastBlock
  <2> QED
    BY <1>2, <2>1 DEF Parts, Block
<1> HIDE DEF S, L
<1>7. ASSUME NEW k \in 1 .. Len(S)
      PROVE  /\ Increasing(S[k]) /\ IsSequence(S[k])
             /\ \A n \in 1 .. Len(S[k]) : \E i \in DOMAIN Block(f, k - 1).instrIDs :
                  /\ S[k][n] = Block(f, k - 1).instrIDs[i]
                  /\ Instr(f, S[k][n]).opcode # "ALLOCA"
  <2>1. k - 1 \in BlockIDs(f) /\ S[k] = LinesOf(f, Block(f, k - 1))
    BY <1>5, <1>6
  <2> DEFINE ids == Block(f, k - 1).instrIDs
             M == LinesOf(f, Block(f, k - 1))
  <2>2. /\ DOMAIN ids = 1 .. Len(ids) /\ Increasing(M)
        /\ \A n \in 1 .. Len(M) : \E i \in 1 .. Len(ids) :
             M[n] = ids[i] /\ Instr(f, ids[i]).opcode # "ALLOCA"
    BY <2>1, LinesOfBlock
  <2> HIDE DEF ids, M
  <2>3. S[k] = M
    BY <2>1 DEF M
  <2>4. \A n \in 1 .. Len(M) : \E i \in DOMAIN ids :
             M[n] = ids[i] /\ Instr(f, M[n]).opcode # "ALLOCA"
    BY <2>2
  <2> QED
    BY <2>2, <2>3, <2>4 DEF Increasing, ids
<1>8. ASSUME NEW k \in 1 .. Len(S), NEW l \in 1 .. Len(S), k < l,
             NEW i \in 1 .. Len(S[k]), NEW j \in 1 .. Len(S[l])
      PROVE  S[k][i] < S[l][j]
  <2>1. k - 1 \in BlockIDs(f) /\ l - 1 \in BlockIDs(f) /\ k - 1 < l - 1
    BY <1>2, <1>5, <1>6, <1>8
  <2>2. PICK m \in DOMAIN Block(f, k - 1).instrIDs : S[k][i] = Block(f, k - 1).instrIDs[m]
    BY <1>7
  <2>3. PICK n \in DOMAIN Block(f, l - 1).instrIDs : S[l][j] = Block(f, l - 1).instrIDs[n]
    BY <1>7
  <2>4. Block(f, k - 1).instrIDs[m] < Block(f, l - 1).instrIDs[n]
    BY <2>1 DEF Orderly, InOrder
  <2> QED
    BY <2>2, <2>3, <2>4
<1>9. /\ Increasing(L)
      /\ \A n \in 1 .. Len(L) :
            \E k \in 1 .. Len(S) : \E i \in 1 .. Len(S[k]) : L[n] = S[k][i]
  BY <1>3, <1>5, <1>7, <1>8, FlattenOrder
<1>10. ASSUME NEW n \in 1 .. Len(L)
       PROVE  /\ L[n] \in InstrIDs(f) /\ Instr(f, L[n]).opcode # "ALLOCA"
              /\ \E b \in BlockIDs(f) : Lists(f, b, L[n])
  <2>1. PICK k \in 1 .. Len(S) : \E i \in 1 .. Len(S[k]) : L[n] = S[k][i]
    BY <1>9
  <2>2. PICK i \in DOMAIN Block(f, k - 1).instrIDs :
          L[n] = Block(f, k - 1).instrIDs[i] /\ Instr(f, L[n]).opcode # "ALLOCA"
    BY <1>7, <2>1
  <2>3. k - 1 \in BlockIDs(f) /\ Lists(f, k - 1, L[n])
    BY <1>5, <1>6, <2>2 DEF Lists
  <2> QED
    BY <2>2, <2>3 DEF Orderly, ListsExisting
<1>11. ASSUME NEW b \in BlockIDs(f)
       PROVE S[b + 1] = LinesOf(f, Block(f, b)) /\ IsSequence(S[b + 1])
  <2>1. b + 1 \in 1 .. Len(f.blocks) /\ (b + 1) - 1 = b
    BY <1>2 DEF BlockIDs, LastBlock
  <2> QED
    BY <1>5, <1>6, <1>7, <2>1
<1> QED
  BY <1>2, <1>3, <1>5, <1>7, <1>9, <1>10, <1>11 DEF S, L

\* How many lines there are before the k-th instruction of block b.
Before(f, b, k) ==
    Len(FlattenSeq(First(Parts(f), b))) + Len(FlattenSeq(First(Pieces(f, Block(f, b)), k - 1)))

LEMMA LinesBefore ==
    ASSUME NEW f, Orderly(f), NEW b \in BlockIDs(f)
    PROVE  LET ids == Block(f, b).instrIDs
               n == Len(ids)
               L == Lines(f)
           IN /\ Before(f, b, 1) = Len(FlattenSeq(First(Parts(f), b)))
              /\ Before(f, b, n + 1) = Len(FlattenSeq(First(Parts(f), b + 1)))
              /\ \A k \in 1 .. n :
                   /\ Before(f, b, k) \in Nat
                   /\ Instr(f, ids[k]).opcode = "ALLOCA" => Before(f, b, k + 1) = Before(f, b, k)
                   /\ Instr(f, ids[k]).opcode # "ALLOCA" =>
                        /\ Before(f, b, k + 1) = Before(f, b, k) + 1
                        /\ Before(f, b, k) + 1 \in 1 .. Len(L)
                        /\ L[Before(f, b, k) + 1] = ids[k]
<1> DEFINE ids == Block(f, b).instrIDs
           n == Len(ids)
           L == Lines(f)
           S == Pieces(f, Block(f, b))
           R == Parts(f)
           F(k) == FlattenSeq(First(S, k))
           G(k) == FlattenSeq(First(R, k))
           M == LinesOf(f, Block(f, b))
<1>1. /\ n \in Nat /\ IsSequence(S) /\ Len(S) = n /\ M = FlattenSeq(S)
      /\ \A k \in 1 .. n : S[k] = Piece(f, ids[k]) /\ IsSequence(S[k])
  BY LinesOfBlock
<1>2. /\ Len(f.blocks) \in Nat /\ IsSequence(R) /\ Len(R) = Len(f.blocks) /\ L = FlattenSeq(R)
      /\ R[b + 1] = M /\ \A k \in 1 .. Len(R) : IsSequence(R[k])
  BY LinesInOrder
<1>3. b \in Nat /\ b + 1 <= Len(R)
  BY <1>2 DEF BlockIDs, LastBlock
<1>4. \A k : Before(f, b, k) = Len(G(b)) + Len(F(k - 1))
  BY DEF Before
<1>5. F(0) = <<>> /\ Len(<<>>) = 0
  BY FlattenNone
<1>6. F(n) = M /\ \A k \in 0 .. n : IsSequence(F(k)) /\ \A l \in 0 .. k : Begins(F(l), F(k))
  <2> HIDE DEF ids, S
  <2> QED
    BY <1>1, FlattenBegins
<1>7. G(Len(R)) = L /\ \A k \in 0 .. Len(R) : IsSequence(G(k)) /\ \A l \in 0 .. k : Begins(G(l), G(k))
  <2> HIDE DEF R
  <2> QED
    BY <1>2, FlattenBegins
<1>8. G(b + 1) = G(b) \o M
  <2> HIDE DEF R
  <2> QED
    BY <1>2, <1>3, FlattenMore
<1>9. ASSUME NEW k \in 1 .. n PROVE F(k) = F(k - 1) \o S[k]
  <2>1. k - 1 \in Nat /\ (k - 1) + 1 = k /\ (k - 1) + 1 <= Len(S)
    BY <1>1
  <2> DEFINE j == k - 1
  <2> HIDE DEF S, j
  <2>2. F(j + 1) = F(j) \o S[j + 1]
    BY <1>1, <2>1, FlattenMore DEF j
  <2> QED
    BY <2>1, <2>2 DEF j
<1> HIDE DEF F, G, S, R, M, L, ids, n
<1>10. \A s : IsSequence(s) => Len(s) \in Nat
  BY DEF IsSequence
<1>11. IsSequence(G(b)) /\ IsSequence(M) /\ Len(G(b)) \in Nat /\ Len(M) \in Nat
  <2>1. b \in 0 .. Len(R) /\ n \in 0 .. n
    BY <1>1, <1>2, <1>3
  <2> QED
    BY <1>6, <1>7, <1>10, <2>1
<1>12. /\ Len(G(b + 1)) = Len(G(b)) + Len(M)
       /\ \A k \in Len(G(b)) + 1 .. Len(G(b)) + Len(M) : G(b + 1)[k] = M[k - Len(G(b))]
  <2> DEFINE s == G(b)
  <2> HIDE DEF s
  <2>1. /\ Len(s \o M) = Len(s) + Len(M)
        /\ \A k \in Len(s) + 1 .. Len(s) + Len(M) : (s \o M)[k] = M[k - Len(s)]
    BY <1>11, Concatenated DEF s
  <2> QED
    BY <1>8, <2>1 DEF s
<1>13. Before(f, b, 1) = Len(G(b))
  BY <1>4, <1>5, <1>11
<1>14. Before(f, b, n + 1) = Len(G(b + 1))
  <2>1. (n + 1) - 1 = n
    BY <1>1
  <2> QED
    BY <1>4, <1>6, <1>12, <2>1
<1>15. ASSUME NEW k \in 1 .. n
       PROVE  /\ Before(f, b, k) \in Nat
              /\ Instr(f, ids[k]).opcode = "ALLOCA" => Before(f, b, k + 1) = Before(f, b, k)
              /\ Instr(f, ids[k]).opcode # "ALLOCA" =>
                   /\ Before(f, b, k + 1) = Before(f, b, k) + 1
                   /\ Before(f, b, k) + 1 \in 1 .. Len(L)
                   /\ L[Before(f, b, k) + 1] = ids[k]
  <2>1. k \in 0 .. n /\ k - 1 \in 0 .. n /\ n \in 0 .. n /\ (k + 1) - 1 = k /\ k - 1 \in 0 .. k
    BY <1>1
  <2>2. IsSequence(F(k - 1)) /\ IsSequence(S[k]) /\ Len(F(k - 1)) \in Nat
    BY <1>1, <1>6, <1>10, <2>1
  <2>3. /\ Len(F(k)) = Len(F(k - 1)) + Len(S[k])
        /\ \A i \in Len(F(k - 1)) + 1 .. Len(F(k - 1)) + Len(S[k]) :
             F(k)[i] = S[k][i - Len(F(k - 1))]
    <3> DEFINE s == F(k - 1)
               t == S[k]
    <3> HIDE DEF s, t
    <3>1. /\ Len(s \o t) = Len(s) + Len(t)
          /\ \A i \in Len(s) + 1 .. Len(s) + Len(t) : (s \o t)[i] = t[i - Len(s)]
      BY <2>2, Concatenated DEF s, t
    <3> QED
      BY <1>9, <3>1 DEF s, t
  <2>4. Before(f, b, k) = Len(G(b)) + Len(F(k - 1)) /\ Before(f, b, k + 1) = Len(G(b)) + Len(F(k))
    BY <1>4, <2>1
  <2>5. CASE Instr(f, ids[k]).opcode = "ALLOCA"
    <3>1. Len(S[k]) = 0
      BY <1>1, <2>5, PieceFacts
    <3> QED
      BY <1>11, <2>2, <2>3, <2>4, <2>5, <3>1
  <2>6. CASE Instr(f, ids[k]).opcode # "ALLOCA"
    <3> DEFINE m == Len(F(k - 1))
               g == Len(G(b))
    <3>1. Len(S[k]) = 1 /\ S[k][1] = ids[k]
      BY <1>1, <2>6, PieceFacts
    <3>2. m \in Nat /\ g \in Nat
      BY <1>11, <2>2
    <3>3. Len(F(k)) = m + 1 /\ F(k)[m + 1] = ids[k]
      <4>1. m + 1 \in m + 1 .. m + 1 /\ (m + 1) - m = 1
        BY <3>2
      <4> QED
        BY <2>3, <3>1, <4>1
    <3>4. m + 1 <= Len(M) /\ M[m + 1] = ids[k]
      <4>1. Begins(F(k), M)
        BY <1>6, <2>1
      <4>2. m + 1 \in 1 .. Len(F(k))
        BY <3>2, <3>3
      <4> QED
        BY <3>3, <4>1, <4>2 DEF Begins
    <3>5. g + (m + 1) <= Len(G(b + 1)) /\ G(b + 1)[g + (m + 1)] = ids[k]
      <4>1. g + (m + 1) \in g + 1 .. g + Len(M) /\ (g + (m + 1)) - g = m + 1
        BY <1>11, <3>2, <3>4
      <4> QED
        BY <1>11, <1>12, <3>4, <4>1
    <3>6. g + (m + 1) <= Len(L) /\ L[g + (m + 1)] = ids[k] /\ Len(L) \in Nat
      <4>1. Begins(G(b + 1), L) /\ IsSequence(L) /\ IsSequence(G(b + 1))
        <5>1. b + 1 \in 0 .. Len(R) /\ Len(R) \in 0 .. Len(R)
          BY <1>2, <1>3
        <5> QED
          BY <1>7, <5>1
      <4>2. Len(L) \in Nat /\ Len(G(b + 1)) \in Nat
        BY <1>10, <4>1
      <4>3. g + (m + 1) \in 1 .. Len(G(b + 1))
        BY <3>2, <3>5, <4>2
      <4> QED
        BY <3>2, <3>5, <4>1, <4>2, <4>3 DEF Begins
    <3>7. Before(f, b, k) = g + m /\ (g + m) + 1 = g + (m + 1)
      BY <2>4, <3>2
    <3> HIDE DEF m, g
    <3> QED
      BY <2>4, <2>6, <3>2, <3>3, <3>6, <3>7 DEF m, g
  <2> QED
    BY <2>5, <2>6
<1> QED
  BY <1>13, <1>14, <1>15 DEF G, R, ids, n, L

\* The line a block starts at, and the first and last of them.
LEMMA StartOfBlock ==
    ASSUME NEW f, Orderly(f)
    PROVE  /\ \A b \in BlockIDs(f) : Start(f, b) = Len(FlattenSeq(First(Parts(f), b))) + 1
           /\ Len(FlattenSeq(First(Parts(f), 0))) = 0
           /\ Len(FlattenSeq(First(Parts(f), Len(f.blocks)))) = Len(Lines(f))
<1>1. /\ DOMAIN f.blocks = 1 .. Len(f.blocks) /\ Len(f.blocks) \in Nat
      /\ IsSequence(Parts(f)) /\ Len(Parts(f)) = Len(f.blocks) /\ Lines(f) = FlattenSeq(Parts(f))
      /\ \A k \in 1 .. Len(Parts(f)) : IsSequence(Parts(f)[k])
  BY LinesInOrder
<1>2. ASSUME NEW b \in BlockIDs(f)
      PROVE  Start(f, b) = Len(FlattenSeq(First(Parts(f), b))) + 1
  <2> DEFINE s == SubSeq(f.blocks, 1, b)
  <2>1. b \in Nat /\ b <= Len(f.blocks)
    BY <1>1 DEF BlockIDs, LastBlock
  <2>2. s = [k \in 1 .. b |-> f.blocks[k]]
    <3>1. \A k \in 1 .. b : k + 1 - 1 = k /\ (1 + b) - 1 = b
      BY <2>1
    <3>2. f.blocks \in Seq(LLVMBasicBlock)
      BY FunctionFields DEF Orderly
    <3> QED
      BY <2>1, <3>1, <3>2
  <2> HIDE DEF s
  <2>3. [k \in DOMAIN s |-> LinesOf(f, s[k])] = First(Parts(f), b)
    <3>1. DOMAIN s = 1 .. b
      BY <2>2
    <3>2. \A k \in 1 .. b : s[k] = f.blocks[k] /\ Parts(f)[k] = LinesOf(f, f.blocks[k])
      BY <1>1, <2>1, <2>2 DEF Parts
    <3> QED
      BY <3>1, <3>2 DEF First
  <2>4. ListedIn(f, s) = FlattenSeq(First(Parts(f), b))
    BY <2>3 DEF ListedIn
  <2> QED
    BY <2>4 DEF Start, s
<1>3. Len(FlattenSeq(First(Parts(f), 0))) = 0
  BY FlattenNone
<1>4. FlattenSeq(First(Parts(f), Len(Parts(f)))) = FlattenSeq(Parts(f))
  BY <1>1, FlattenBegins
<1> QED
  BY <1>1, <1>2, <1>3, <1>4

-----------------------------------------------------------------------------
(* Which line of the IR a line of the code belongs to                      *)

\* A function whose code can be followed line by line.
Followable(f) ==
    /\ CodeReady(f) /\ LabelsDiffer(f) /\ f.consts # <<>>
    /\ \E globals : Emittable(f, globals)

\* An operand that can be loaded where function f runs.
Reaches(f, v) ==
    /\ IsOperand(v)
    /\ v.kind = "PARAM" => v.id \in 0 .. 7 /\ v.id + 1 \in DOMAIN f.params
    /\ v.kind = "CONST" => v.id + 1 \in DOMAIN f.consts
    /\ v.kind = "GLOBAL" => v.id \in GlobalIDs
    /\ v.kind = "INSTR" => v.id \in InstrIDs(f)
         /\ (Instr(f, v.id).opcode = "ALLOCA" \/ v.id \in ToSet(Lines(f)))
Supplied(f, id) ==
    LET instr == Instr(f, id)
        ops == instr.operands
    IN /\ instr.opcode \in LLVM!Operation => Reaches(f, ops[1]) /\ Reaches(f, ops[2])
       /\ instr.opcode \in {"LOAD", "RET"} => Reaches(f, ops[1])
       /\ instr.opcode = "BR" => Len(ops) \in {1, 3}
       /\ instr.opcode = "BR" /\ Len(ops) = 1 => ops[1].id \in BlockIDs(f)
       /\ instr.opcode = "BR" /\ Len(ops) = 3 =>
            Reaches(f, ops[1]) /\ ops[2].id \in BlockIDs(f) /\ ops[3].id \in BlockIDs(f)

LEMMA ListedLines ==
    ASSUME NEW f, Orderly(f), NEW b \in BlockIDs(f), NEW id, Lists(f, b, id),
           Instr(f, id).opcode # "ALLOCA"
    PROVE  id \in ToSet(Lines(f))
<1> DEFINE ids == Block(f, b).instrIDs
           L == Lines(f)
<1>1. PICK k \in DOMAIN ids : ids[k] = id
  BY DEF Lists
<1>2. k \in 1 .. Len(ids)
  BY BlockFields DEF Orderly
<1>3. Before(f, b, k) + 1 \in 1 .. Len(L) /\ L[Before(f, b, k) + 1] = id
  BY <1>1, <1>2, LinesBefore
<1>4. DOMAIN L = 1 .. Len(L)
  <2>1. IsSequence(L)
    BY LinesInOrder DEF Increasing
  <2> HIDE DEF L
  <2> QED
    BY <2>1, SequenceFacts
<1> HIDE DEF L
<1> QED
  BY <1>3, <1>4 DEF ToSet, L

LEMMA FollowableFacts ==
    ASSUME Simple, NEW f, Followable(f)
    PROVE  /\ Orderly(f)
           /\ \A b \in BlockIDs(f) : \A id : Lists(f, b, id) =>
                id \in InstrIDs(f) /\ Fed(f, id) /\ Supplied(f, id)
<1>1. Orderly(f) /\ f \in FunctionType
  BY DEF Followable, CodeReady, Orderly
<1>2. SUFFICES ASSUME NEW b \in BlockIDs(f), NEW id, Lists(f, b, id)
               PROVE  id \in InstrIDs(f) /\ Fed(f, id) /\ Supplied(f, id)
  BY <1>1
<1> DEFINE instr == Instr(f, id)
           ops == instr.operands
<1>3. id \in InstrIDs(f)
  BY <1>1, <1>2 DEF Orderly, ListsExisting
<1>4. /\ instr \in LLVMInstruction /\ instr.opcode \in LLVMOpcode /\ instr.cond \in LLVMCmpCond
      /\ DOMAIN ops = 1 .. Len(ops) /\ Len(ops) \in Nat
      /\ \A k \in DOMAIN ops : ops[k] \in LLVMValueID
  BY <1>1, <1>3, InstrFields DEF LLVMInstruction
<1>5. WellFormed(instr) /\ Good(f, instr) /\ Local(f, b, instr)
  BY <1>2, <1>3 DEF Followable, CodeReady, AllWellFormed, AllFine, Fine
<1>6. PICK globals : Emittable(f, globals)
  BY DEF Followable
<1>7. \A k \in 1 .. Needed(instr) : k \in DOMAIN ops /\ Loadable(f, globals, ops[k])
  BY <1>2, <1>3, <1>6 DEF Emittable
<1>8. \A k \in DOMAIN ops : ops[k].kind = "GLOBAL" => ops[k].id \in GlobalIDs
  BY <1>3 DEF Followable, CodeReady
<1>9. /\ instr.opcode \in LLVM!Operation => Needed(instr) = 2
      /\ instr.opcode \in {"LOAD", "RET"} => Needed(instr) = 1
      /\ instr.opcode = "BR" => Needed(instr) = Len(ops)
  <2>1. LLVM!Operation \cap {"LOAD", "RET", "BR", "ALLOCA"} = {}
    BY DEF LLVM!Operation
  <2> HIDE DEF instr
  <2> QED
    BY <2>1 DEF Needed, ops
<1>10. /\ Len(f.consts) \in Nat /\ DOMAIN f.consts = 1 .. Len(f.consts)
       /\ Len(f.params) \in Nat /\ DOMAIN f.params = 1 .. Len(f.params)
       /\ Len(f.instructions) \in Nat
  BY <1>1, FunctionFields
<1>11. ASSUME NEW k \in 1 .. Needed(instr), ops[k].kind # "BLOCK" PROVE Reaches(f, ops[k])
  <2> DEFINE v == ops[k]
  <2>1. k \in DOMAIN ops /\ Loadable(f, globals, v) /\ v \in LLVMValueID /\ v.kind # "BLOCK"
    BY <1>4, <1>7, <1>11
  <2>2. v.kind = "INSTR" => v.id \in InstrIDs(f) /\
           (Instr(f, v.id).opcode = "ALLOCA" \/ Lists(f, b, v.id))
    <3>1. v.kind = "INSTR" => Uses(instr, v.id)
      BY <2>1 DEF Uses
    <3> QED
      BY <1>5, <3>1 DEF Good, Local, Simple
  <2>3. v.kind = "GLOBAL" => v.id \in GlobalIDs
    BY <1>8, <2>1
  <2> HIDE DEF v
  <2>4. v.kind = "INSTR" /\ Instr(f, v.id).opcode # "ALLOCA" => v.id \in ToSet(Lines(f))
    BY <1>1, <2>2, ListedLines
  <2>5. IsOperand(v)
    BY <2>1 DEF IsOperand, LLVMValueID, LLVMValueKind
  <2>6. v.kind = "PARAM" => v.id \in 0 .. 7 /\ v.id + 1 \in DOMAIN f.params
    BY <1>10, <2>1 DEF Loadable, InArena
  <2>7. v.kind = "CONST" => v.id + 1 \in DOMAIN f.consts
    BY <1>10, <2>1 DEF Loadable, InArena
  <2>8. Reaches(f, v)
    BY <2>2, <2>3, <2>4, <2>5, <2>6, <2>7 DEF Reaches
  <2> QED
    BY <2>8 DEF v
<1>12. ASSUME NEW k \in 1 .. Needed(instr), ops[k].kind = "BLOCK" PROVE ops[k].id \in BlockIDs(f)
  BY <1>7, <1>12 DEF Loadable, InArena, BlockIDs, LastBlock
<1>13. CASE instr.opcode \in LLVM!Operation
  <2>1. instr.opcode \notin {"LOAD", "RET", "BR"}
    BY <1>13 DEF LLVM!Operation
  <2>2. 1 \in 1 .. Needed(instr) /\ 2 \in 1 .. Needed(instr)
    BY <1>9, <1>13
  <2>3. ops[1].kind # "BLOCK" /\ ops[2].kind # "BLOCK"
    BY <1>5, <1>7, <2>1, <2>2 DEF WellFormed
  <2>4. Reaches(f, ops[1]) /\ Reaches(f, ops[2])
    BY <1>11, <2>2, <2>3
  <2> QED
    BY <1>3, <1>4, <2>1, <2>4 DEF Fed, Supplied, Reaches
<1>14. CASE instr.opcode \in {"LOAD", "RET"}
  <2>1. instr.opcode \notin LLVM!Operation
    BY <1>14 DEF LLVM!Operation
  <2>2. 1 \in 1 .. Needed(instr)
    BY <1>9, <1>14
  <2>3. ops[1].kind # "BLOCK"
    BY <1>5, <1>7, <1>14, <2>2 DEF WellFormed
  <2>4. Reaches(f, ops[1])
    BY <1>11, <2>2, <2>3
  <2> QED
    BY <1>3, <1>4, <1>14, <2>1, <2>4 DEF Fed, Supplied, Reaches
<1>15. CASE instr.opcode = "BR"
  <2>1. instr.opcode \notin LLVM!Operation /\ Needed(instr) = Len(ops)
    BY <1>9, <1>15 DEF LLVM!Operation
  <2>2. \/ Len(ops) = 1 /\ ops[1].kind = "BLOCK"
        \/ /\ Len(ops) = 3 /\ ops[1].kind = "INSTR"
           /\ ops[2].kind = "BLOCK" /\ ops[3].kind = "BLOCK"
    BY <1>5, <1>15 DEF WellFormed
  <2>3. CASE Len(ops) = 1 /\ ops[1].kind = "BLOCK"
    <3>1. ops[1].id \in BlockIDs(f)
      BY <1>12, <2>1, <2>3
    <3> QED
      BY <1>3, <1>4, <1>15, <2>1, <2>3, <3>1 DEF Fed, Supplied
  <2>4. CASE /\ Len(ops) = 3 /\ ops[1].kind = "INSTR"
             /\ ops[2].kind = "BLOCK" /\ ops[3].kind = "BLOCK"
    <3>1. ops[2].id \in BlockIDs(f) /\ ops[3].id \in BlockIDs(f)
      BY <1>12, <2>1, <2>4
    <3>2. Reaches(f, ops[1])
      BY <1>11, <2>1, <2>4
    <3> QED
      BY <1>3, <1>4, <1>15, <2>1, <2>4, <3>1, <3>2 DEF Fed, Supplied, Reaches
  <2> QED
    BY <2>2, <2>3, <2>4
<1>16. CASE instr.opcode = "ALLOCA"
  <2>1. instr.opcode \notin LLVM!Operation
    BY <1>16 DEF LLVM!Operation
  <2> QED
    BY <1>3, <1>4, <1>16, <2>1 DEF Fed, Supplied
<1>17. instr.opcode \in LLVM!Operation \cup {"LOAD", "RET", "BR", "ALLOCA"}
  BY <1>4 DEF LLVMOpcode, LLVM!Operation
<1> QED
  BY <1>13, <1>14, <1>15, <1>16, <1>17

\* A place <<n, j>> in the code: n lines of the IR are over, and of the next
\* line's code j lines.  Label and nop are before the first line of a block; any
\* other line of code is the next of its line's.
Marks(f, l, n) ==
    /\ l.id = NPos /\ l.op \in {"label", "nop"}
    /\ l.op = "label" => \E b \in BlockIDs(f) :
                           l.args = <<Block(f, b).label>> /\ n + 1 = Start(f, b)
CodeAt(f, n) == emitInstruction(f, Lines(f)[n + 1])
Belongs(f, l, n, j) ==
    /\ n + 1 \in 1 .. Len(Lines(f)) /\ j + 1 \in 1 .. Len(CodeAt(f, n))
    /\ l = CodeAt(f, n)[j + 1]
Steps(f, l, P, Q) ==
    \/ Marks(f, l, P[1]) /\ P[2] = 0 /\ Q = P
    \/ /\ Belongs(f, l, P[1], P[2])
       /\ Q = IF P[2] + 1 < Len(CodeAt(f, P[1])) THEN <<P[1], P[2] + 1>> ELSE <<P[1] + 1, 0>>
PlacedBy(f, s, T) == \A k \in 1 .. Len(s) : T[k] \in Nat \X Nat /\ Steps(f, s[k], T[k], T[k + 1])
Along(f, s, P, Q) ==
    IsSequence(s) /\ \E T : PlacedBy(f, s, T) /\ T[1] = P /\ T[Len(s) + 1] = Q

LEMMA AlongNone ==
    ASSUME NEW f, NEW P, NEW Q, P = Q
    PROVE  Along(f, <<>>, P, Q)
<1> DEFINE T == <<P>>
<1>1. T[1] = P /\ Len(<<>>) = 0 /\ IsSequence(<<>>)
  BY DEF IsSequence
<1> HIDE DEF T
<1>2. PlacedBy(f, <<>>, T)
  BY <1>1 DEF PlacedBy
<1> QED
  BY <1>1, <1>2 DEF Along

LEMMA AlongConcat ==
    ASSUME NEW f, NEW s, NEW t, NEW A, NEW B, NEW C, Along(f, s, A, B), Along(f, t, B, C)
    PROVE  Along(f, s \o t, A, C)
<1>1. PICK T : PlacedBy(f, s, T) /\ T[1] = A /\ T[Len(s) + 1] = B
  BY DEF Along
<1>2. PICK U : PlacedBy(f, t, U) /\ U[1] = B /\ U[Len(t) + 1] = C
  BY DEF Along
<1> DEFINE m == Len(s)
           n == Len(t)
           V == [k \in 1 .. m + n + 1 |-> IF k <= m THEN T[k] ELSE U[k - m]]
           w == s \o t
<1>3. /\ IsSequence(s) /\ IsSequence(t) /\ m \in Nat /\ n \in Nat
      /\ IsSequence(w) /\ Len(w) = m + n
      /\ \A k \in 1 .. m : w[k] = s[k]
      /\ \A k \in m + 1 .. m + n : w[k] = t[k - m]
  BY Concatenated DEF Along, IsSequence
<1>4. /\ \A k \in 1 .. m : V[k] = T[k]
      /\ \A k \in m + 1 .. m + n + 1 : V[k] = U[k - m]
  BY <1>3
<1>5. V[m + 1] = T[m + 1]
  BY <1>1, <1>2, <1>3, <1>4
<1> HIDE DEF m, n, V, w
<1>6. ASSUME NEW k \in 1 .. m PROVE V[k] \in Nat \X Nat /\ Steps(f, w[k], V[k], V[k + 1])
  <2>1. T[k] \in Nat \X Nat /\ Steps(f, s[k], T[k], T[k + 1])
    BY <1>1 DEF PlacedBy, m
  <2>2. w[k] = s[k] /\ V[k] = T[k] /\ V[k + 1] = T[k + 1]
    BY <1>3, <1>4, <1>5
  <2> QED
    BY <2>1, <2>2
<1>7. ASSUME NEW k \in m + 1 .. m + n
      PROVE  V[k] \in Nat \X Nat /\ Steps(f, w[k], V[k], V[k + 1])
  <2>1. k - m \in 1 .. n /\ (k + 1) - m = (k - m) + 1 /\ k + 1 \in m + 1 .. m + n + 1
        /\ k \in m + 1 .. m + n + 1
    BY <1>3
  <2>2. U[k - m] \in Nat \X Nat /\ Steps(f, t[k - m], U[k - m], U[(k - m) + 1])
    BY <1>2, <2>1 DEF PlacedBy, n
  <2>3. w[k] = t[k - m] /\ V[k] = U[k - m] /\ V[k + 1] = U[(k - m) + 1]
    BY <1>3, <1>4, <2>1
  <2> QED
    BY <2>2, <2>3
<1>8. PlacedBy(f, w, V)
  <2>1. \A k \in 1 .. m + n : k \in 1 .. m \/ k \in m + 1 .. m + n
    BY <1>3
  <2> QED
    BY <1>3, <1>6, <1>7, <2>1 DEF PlacedBy
<1>9. V[1] = A
  <2>1. CASE m = 0
    BY <1>1, <1>3, <1>5, <2>1 DEF m
  <2>2. CASE m # 0
    BY <1>1, <1>3, <1>4, <2>2
  <2> QED
    BY <2>1, <2>2
<1>10. V[Len(w) + 1] = C
  <2>1. V[(m + n) + 1] = U[n + 1]
    BY <1>3, <1>4
  <2> QED
    BY <1>2, <1>3, <2>1 DEF n
<1> QED
  BY <1>3, <1>8, <1>9, <1>10 DEF Along, w

LEMMA AlongFlatten ==
    ASSUME NEW f, NEW S, IsSequence(S), NEW A,
           \A k \in 1 .. Len(S) : Along(f, S[k], A[k], A[k + 1])
    PROVE  Along(f, FlattenSeq(S), A[1], A[Len(S) + 1])
<1> DEFINE G == {m \in Nat : m <= Len(S) => Along(f, FlattenSeq(First(S, m)), A[1], A[m + 1])}
<1>1. Len(S) \in Nat /\ \A k \in 1 .. Len(S) : IsSequence(S[k])
  BY DEF IsSequence, Along
<1>2. 0 \in G
  <2>1. FlattenSeq(First(S, 0)) = <<>>
    BY FlattenNone
  <2>2. Along(f, <<>>, A[1], A[0 + 1])
    BY AlongNone
  <2> QED
    BY <2>1, <2>2
<1>3. ASSUME NEW m \in Nat, m \in G PROVE m + 1 \in G
  <2>1. SUFFICES ASSUME m + 1 <= Len(S)
                 PROVE  Along(f, FlattenSeq(First(S, m + 1)), A[1], A[(m + 1) + 1])
    OBVIOUS
  <2>2. FlattenSeq(First(S, m + 1)) = FlattenSeq(First(S, m)) \o S[m + 1]
    BY <1>1, <2>1, FlattenMore
  <2>3. Along(f, FlattenSeq(First(S, m)), A[1], A[m + 1])
    BY <1>1, <1>3, <2>1
  <2>4. Along(f, S[m + 1], A[m + 1], A[(m + 1) + 1])
    BY <1>1, <2>1
  <2>5. Along(f, FlattenSeq(First(S, m)) \o S[m + 1], A[1], A[(m + 1) + 1])
    BY <2>3, <2>4, AlongConcat
  <2> QED
    BY <2>2, <2>5
<1> HIDE DEF G
<1>4. Len(S) \in G
  BY <1>1, <1>2, <1>3, SetInduction
<1>5. FlattenSeq(First(S, Len(S))) = FlattenSeq(S)
  BY <1>1, FlattenBegins
<1> QED
  BY <1>1, <1>4, <1>5 DEF G

\* The code of the instruction that is line n + 1.
LEMMA AlongInstruction ==
    ASSUME NEW f, NEW n \in Nat, n + 1 \in 1 .. Len(Lines(f)),
           IsSequence(CodeAt(f, n)), Len(CodeAt(f, n)) >= 1
    PROVE  Along(f, CodeAt(f, n), <<n, 0>>, <<n + 1, 0>>)
<1> DEFINE c == CodeAt(f, n)
           m == Len(c)
           T == [k \in 1 .. m + 1 |-> IF k <= m THEN <<n, k - 1>> ELSE <<n + 1, 0>>]
<1>1. IsSequence(c) /\ m \in Nat /\ m >= 1
  BY DEF IsSequence
<1>2. \A k \in 1 .. m : T[k] = <<n, k - 1>>
  BY <1>1
<1>3. T[m + 1] = <<n + 1, 0>>
  BY <1>1
<1> HIDE DEF T
<1>4. ASSUME NEW k \in 1 .. m PROVE T[k] \in Nat \X Nat /\ Steps(f, c[k], T[k], T[k + 1])
  <2>1. T[k][1] = n /\ T[k][2] = k - 1 /\ k - 1 \in Nat /\ (k - 1) + 1 = k
    BY <1>2
  <2>2. T[k] \in Nat \X Nat
    <3> DEFINE j == k - 1
    <3>1. T[k] = <<n, j>> /\ j \in Nat
      BY <1>2, <2>1
    <3> HIDE DEF j
    <3> QED
      BY <3>1
  <2>3. T[k + 1] = IF k < m THEN <<n, k>> ELSE <<n + 1, 0>>
    <3>1. CASE k < m
      <4>1. k + 1 \in 1 .. m /\ (k + 1) - 1 = k
        BY <1>1, <3>1
      <4> QED
        BY <1>2, <3>1, <4>1
    <3>2. CASE k = m
      BY <1>1, <1>3, <3>2
    <3> QED
      BY <1>1, <3>1, <3>2
  <2>4. Belongs(f, c[k], n, k - 1)
    BY <2>1 DEF Belongs
  <2> HIDE DEF c, m
  <2> QED
    BY <2>1, <2>2, <2>3, <2>4 DEF Steps, c, m
<1>5. PlacedBy(f, c, T)
  BY <1>4 DEF PlacedBy
<1>6. T[1] = <<n, 0>>
  BY <1>1, <1>2
<1> HIDE DEF c, m
<1>7. Along(f, c, <<n, 0>>, <<n + 1, 0>>)
  BY <1>1, <1>3, <1>5, <1>6 DEF Along, m
<1> QED
  BY <1>7 DEF c

\* The label of a block and the nop behind it.
LEMMA AlongMark ==
    ASSUME NEW f, NEW n \in Nat, NEW l, Marks(f, l, n)
    PROVE  Along(f, <<l>>, <<n, 0>>, <<n, 0>>)
<1> DEFINE s == <<l>>
           P == <<n, 0>>
           T == <<P, P>>
<1>1. Len(s) = 1 /\ s[1] = l /\ IsSequence(s) /\ T[1] = P /\ T[1 + 1] = P
  BY DEF IsSequence
<1>2. P[1] = n /\ P[2] = 0 /\ P \in Nat \X Nat
  OBVIOUS
<1> HIDE DEF s, T, P
<1>3. Steps(f, l, P, P)
  BY <1>2 DEF Steps
<1>4. PlacedBy(f, s, T)
  BY <1>1, <1>2, <1>3 DEF PlacedBy
<1>5. Along(f, s, P, P)
  BY <1>1, <1>4 DEF Along
<1> QED
  BY <1>5 DEF s, P

LEMMA AlongBlock ==
    ASSUME Simple, NEW f, Followable(f), NEW b \in BlockIDs(f)
    PROVE  LET at(c) == Len(FlattenSeq(First(Parts(f), c)))
           IN Along(f, emitBlock(f, Block(f, b)), <<at(b), 0>>, <<at(b + 1), 0>>)
<1> DEFINE ids == Block(f, b).instrIDs
           n == Len(ids)
           at(c) == Len(FlattenSeq(First(Parts(f), c)))
           S == [k \in DOMAIN ids |-> emitInstruction(f, ids[k])]
           A == [k \in 1 .. n + 1 |-> <<Before(f, b, k), 0>>]
           head == IF Block(f, b).label.role = "entry" THEN <<>>
                   ELSE <<Asm("label", <<Block(f, b).label>>), Asm("nop", <<>>)>>
<1>1. Orderly(f)
  BY FollowableFacts
<1>2. n \in Nat /\ DOMAIN ids = 1 .. n
  BY <1>1, BlockFields DEF Orderly
<1>3. /\ Before(f, b, 1) = at(b) /\ Before(f, b, n + 1) = at(b + 1)
      /\ \A k \in 1 .. n :
           /\ Before(f, b, k) \in Nat
           /\ Instr(f, ids[k]).opcode = "ALLOCA" => Before(f, b, k + 1) = Before(f, b, k)
           /\ Instr(f, ids[k]).opcode # "ALLOCA" =>
                /\ Before(f, b, k + 1) = Before(f, b, k) + 1
                /\ Before(f, b, k) + 1 \in 1 .. Len(Lines(f))
                /\ Lines(f)[Before(f, b, k) + 1] = ids[k]
  BY <1>1, LinesBefore
<1>4. \A k \in 1 .. n + 1 : A[k] = <<Before(f, b, k), 0>>
  OBVIOUS
<1>5. \A k \in 1 .. n : S[k] = emitInstruction(f, ids[k])
  BY <1>2
<1>6. S = First(S, n)
  BY <1>2 DEF First
<1>7. emitBlock(f, Block(f, b)) = head \o FlattenSeq(S)
  BY DEF emitBlock
<1>8. Along(f, head, <<at(b), 0>>, <<at(b), 0>>)
  <2> DEFINE l == <<Block(f, b).label>>
             label == Asm("label", l)
             nop == Asm("nop", <<>>)
             P == <<at(b), 0>>
  <2>1. Along(f, <<>>, P, P)
    BY AlongNone
  <2>2. Start(f, b) = at(b) + 1
    BY <1>1, StartOfBlock
  <2>3. at(b) \in Nat
    <3>1. /\ IsSequence(Parts(f)) /\ Len(Parts(f)) = Len(f.blocks) /\ Len(f.blocks) \in Nat
          /\ \A k \in 1 .. Len(Parts(f)) : IsSequence(Parts(f)[k])
      BY <1>1, LinesInOrder
    <3>2. b \in 0 .. Len(Parts(f))
      BY <3>1 DEF BlockIDs, LastBlock
    <3>3. IsSequence(FlattenSeq(First(Parts(f), b)))
      BY <3>1, <3>2, FlattenBegins
    <3> QED
      BY <3>3 DEF IsSequence
  <2>4. label.op = "label" /\ label.args = l /\ label.id = NPos /\ nop.op = "nop" /\ nop.id = NPos
    BY DEF Asm
  <2> HIDE DEF at
  <2>5. Marks(f, label, at(b)) /\ Marks(f, nop, at(b))
    <3> HIDE DEF label, nop
    <3> QED
      BY <2>2, <2>4 DEF Marks, l
  <2>6. <<label>> \o <<nop>> = <<label, nop>>
    BY TwoLines
  <2> HIDE DEF label, nop
  <2>7. Along(f, <<label>>, P, P) /\ Along(f, <<nop>>, P, P)
    BY <2>3, <2>5, AlongMark
  <2> HIDE DEF P
  <2>8. Along(f, <<label>> \o <<nop>>, P, P)
    BY <2>7, AlongConcat
  <2> QED
    BY <2>1, <2>6, <2>8 DEF P, label, nop
<1> HIDE DEF S, A, head, at
<1>9. Len(S) = n /\ IsSequence(S)
  BY <1>2, <1>6, FirstFacts
<1>10. ASSUME NEW k \in 1 .. n PROVE Along(f, S[k], A[k], A[k + 1])
  <2>1. Lists(f, b, ids[k])
    BY <1>2 DEF Lists
  <2>2. Fed(f, ids[k])
    BY <2>1, FollowableFacts
  <2> DEFINE c == emitInstruction(f, ids[k])
  <2>3. IsSequence(c) /\ (Instr(f, ids[k]).opcode # "ALLOCA" => Len(c) >= 1)
        /\ (Instr(f, ids[k]).opcode = "ALLOCA" => c = <<>>)
    BY <2>2, InstructionLines DEF CodeLines
  <2>4. A[k] = <<Before(f, b, k), 0>> /\ A[k + 1] = <<Before(f, b, k + 1), 0>>
    BY <1>2, <1>4
  <2>5. CASE Instr(f, ids[k]).opcode = "ALLOCA"
    <3>1. A[k] = A[k + 1]
      BY <1>3, <2>4, <2>5
    <3> QED
      BY <1>5, <2>3, <2>5, <3>1, AlongNone
  <2>6. CASE Instr(f, ids[k]).opcode # "ALLOCA"
    <3> DEFINE m == Before(f, b, k)
    <3>1. /\ Before(f, b, k + 1) = m + 1 /\ m \in Nat
          /\ m + 1 \in 1 .. Len(Lines(f)) /\ Lines(f)[m + 1] = ids[k]
      BY <1>3, <2>6
    <3> HIDE DEF m
    <3>2. CodeAt(f, m) = c
      BY <3>1 DEF CodeAt
    <3>3. Along(f, CodeAt(f, m), <<m, 0>>, <<m + 1, 0>>)
      BY <2>3, <2>6, <3>1, <3>2, AlongInstruction
    <3> QED
      BY <1>5, <2>4, <3>1, <3>2, <3>3 DEF m
  <2> QED
    BY <2>5, <2>6
<1>11. Along(f, FlattenSeq(S), A[1], A[n + 1])
  BY <1>9, <1>10, AlongFlatten
<1>12. A[1] = <<at(b), 0>> /\ A[n + 1] = <<at(b + 1), 0>>
  BY <1>2, <1>3, <1>4
<1>13. Along(f, head \o FlattenSeq(S), <<at(b), 0>>, <<at(b + 1), 0>>)
  BY <1>8, <1>11, <1>12, AlongConcat
<1> QED
  BY <1>7, <1>13 DEF at

LEMMA AlongBody ==
    ASSUME Simple, NEW f, Followable(f)
    PROVE  Along(f, Body(f), <<0, 0>>, <<Len(Lines(f)), 0>>)
<1> DEFINE n == Len(f.blocks)
           at(c) == Len(FlattenSeq(First(Parts(f), c)))
           S == [b \in DOMAIN f.blocks |-> emitBlock(f, f.blocks[b])]
           A == [k \in 1 .. n + 1 |-> <<at(k - 1), 0>>]
<1>1. Orderly(f)
  BY FollowableFacts
<1>2. n \in Nat /\ DOMAIN f.blocks = 1 .. n
  BY <1>1, LinesInOrder
<1>3. at(0) = 0 /\ at(n) = Len(Lines(f))
  BY <1>1, StartOfBlock
<1>4. \A k \in 1 .. n + 1 : A[k] = <<at(k - 1), 0>>
  OBVIOUS
<1>5. S = First(S, n)
  BY <1>2 DEF First
<1>6. Body(f) = FlattenSeq(S)
  BY DEF Body
<1>7. ASSUME NEW k \in 1 .. n PROVE Along(f, S[k], A[k], A[k + 1])
  <2>1. k - 1 \in BlockIDs(f) /\ Block(f, k - 1) = f.blocks[k] /\ (k - 1) + 1 = k
    BY <1>2 DEF BlockIDs, LastBlock, Block
  <2>2. S[k] = emitBlock(f, Block(f, k - 1))
    BY <1>2, <2>1
  <2>3. A[k] = <<at(k - 1), 0>> /\ A[k + 1] = <<at(k), 0>>
    <3>1. k \in 1 .. n + 1 /\ k + 1 \in 1 .. n + 1 /\ (k + 1) - 1 = k
      BY <1>2
    <3> HIDE DEF A, at
    <3> QED
      BY <1>4, <3>1
  <2>4. Along(f, emitBlock(f, Block(f, k - 1)), <<at(k - 1), 0>>, <<at((k - 1) + 1), 0>>)
    BY <2>1, AlongBlock
  <2> HIDE DEF S, A, at
  <2> QED
    BY <2>1, <2>2, <2>3, <2>4
<1> HIDE DEF S, A, at
<1>8. Len(S) = n /\ IsSequence(S)
  BY <1>2, <1>5, FirstFacts
<1>9. Along(f, FlattenSeq(S), A[1], A[n + 1])
  BY <1>7, <1>8, AlongFlatten
<1>10. A[1] = <<0, 0>> /\ A[n + 1] = <<Len(Lines(f)), 0>>
  <2>1. 1 \in 1 .. n + 1 /\ n + 1 \in 1 .. n + 1 /\ 1 - 1 = 0 /\ (n + 1) - 1 = n
    BY <1>2
  <2> QED
    BY <1>3, <1>4, <2>1
<1> QED
  BY <1>6, <1>9, <1>10

LEMMA CodeBody ==
    ASSUME Simple, NEW f, CodeReady(f)
    PROVE  LET c   == emitFunction(f)
               end == BodyEnd(f)
           IN /\ end \in Nat /\ 4 <= end /\ Len(c) = end + 5 /\ DOMAIN c = 1 .. end + 5
              /\ Len(Body(f)) = end - 4
              /\ \A k \in 5 .. end : c[k] = Body(f)[k - 4]
              /\ \A k \in end + 1 .. end + 5 : c[k].id = NPos
              /\ c[end + 1].args = <<Epilogue>>
<1> DEFINE size == FrameSize(f)
           s == prologue(size)
           t == Body(f)
           u == epilogue(size)
           v == s \o t
           c == v \o u
           n == Len(t)
           end == BodyEnd(f)
<1>1. emitFunction(f) = c
  BY DEF emitFunction, FrameSize, Body
<1>2. IsSequence(t) /\ n \in Nat
  <2>1. Typed(f, t, {}, {})
    BY BodyTyped
  <2> QED
    BY <2>1 DEF Typed, IsSequence
<1>3. /\ IsSequence(s) /\ Len(s) = 4 /\ IsSequence(u) /\ Len(u) = 5
  BY FrameLines
<1>4. \A k \in 1 .. 5 : u[k].id = NPos
  <2> DEFINE label  == Asm("label", <<Epilogue>>)
             loadRA == Asm("lw", <<"ra", size - SavedRA, "sp">>)
             loadFP == Asm("lw", <<"s0", size - SavedFP, "sp">>)
             spUp   == Asm("addi", <<"sp", "sp", size>>)
             ret    == Asm("ret", <<>>)
  <2>1. u = <<label, loadRA, loadFP, spUp, ret>>
    BY DEF epilogue
  <2>2. label.id = NPos /\ loadRA.id = NPos /\ loadFP.id = NPos /\ spUp.id = NPos /\ ret.id = NPos
    BY DEF Asm
  <2> HIDE DEF label, loadRA, loadFP, spUp, ret
  <2> QED
    BY <2>1, <2>2
<1>5. u[1].args = <<Epilogue>>
  <2> DEFINE label  == Asm("label", <<Epilogue>>)
             loadRA == Asm("lw", <<"ra", size - SavedRA, "sp">>)
             loadFP == Asm("lw", <<"s0", size - SavedFP, "sp">>)
             spUp   == Asm("addi", <<"sp", "sp", size>>)
             ret    == Asm("ret", <<>>)
  <2>1. u = <<label, loadRA, loadFP, spUp, ret>>
    BY DEF epilogue
  <2>2. label.args = <<Epilogue>>
    BY DEF Asm
  <2> HIDE DEF label, loadRA, loadFP, spUp, ret
  <2> QED
    BY <2>1, <2>2
<1> HIDE DEF s, u
<1>6. /\ IsSequence(v) /\ Len(v) = 4 + n
      /\ \A k \in 4 + 1 .. 4 + n : v[k] = t[k - 4]
  <2>1. /\ IsSequence(v) /\ Len(v) = Len(s) + Len(t)
        /\ \A k \in Len(s) + 1 .. Len(s) + Len(t) : v[k] = t[k - Len(s)]
    BY <1>2, <1>3, Concatenated
  <2> HIDE DEF v
  <2> QED
    BY <1>3, <2>1
<1> HIDE DEF v
<1>7. /\ IsSequence(c) /\ Len(c) = (4 + n) + 5
      /\ \A k \in 1 .. 4 + n : c[k] = v[k]
      /\ \A k \in (4 + n) + 1 .. (4 + n) + 5 : c[k] = u[k - (4 + n)]
  <2>1. IsSequence(v) /\ IsSequence(u)
    BY <1>3, <1>6
  <2>2. /\ IsSequence(c) /\ Len(c) = Len(v) + Len(u)
        /\ \A k \in 1 .. Len(v) : c[k] = v[k]
        /\ \A k \in Len(v) + 1 .. Len(v) + Len(u) : c[k] = u[k - Len(v)]
    BY <2>1, Concatenated
  <2> HIDE DEF c
  <2> QED
    BY <1>3, <1>6, <2>2
<1>8. end = n + 4 /\ end = 4 + n
  BY <1>2 DEF BodyEnd
<1> HIDE DEF end, n, c, size
<1>9. DOMAIN c = 1 .. Len(c)
  BY <1>7, SequenceFacts
<1>10. ASSUME NEW k \in 5 .. end PROVE c[k] = t[k - 4]
  <2>1. k \in 4 + 1 .. 4 + n /\ k \in 1 .. 4 + n
    BY <1>2, <1>8
  <2> QED
    BY <1>6, <1>7, <2>1
<1>11. ASSUME NEW k \in end + 1 .. end + 5 PROVE c[k].id = NPos
  <2>1. k \in (4 + n) + 1 .. (4 + n) + 5 /\ k - (4 + n) \in 1 .. 5
    BY <1>2, <1>8
  <2>2. c[k] = u[k - (4 + n)]
    BY <1>7, <2>1
  <2> QED
    BY <1>4, <2>1, <2>2
<1>12. c[end + 1] = u[1]
  BY <1>2, <1>7, <1>8
<1> QED
  BY <1>1, <1>2, <1>5, <1>7, <1>8, <1>9, <1>10, <1>11, <1>12 DEF end, n, c

\* The place before each line of the body, and after it.
Places(f) ==
    CHOOSE T : /\ PlacedBy(f, Body(f), T)
               /\ T[1] = <<0, 0>> /\ T[Len(Body(f)) + 1] = <<Len(Lines(f)), 0>>

LEMMA PlacesFacts ==
    ASSUME Simple, NEW f, Followable(f)
    PROVE  LET T   == Places(f)
               end == BodyEnd(f)
           IN /\ T[1] = <<0, 0>> /\ T[end - 3] = <<Len(Lines(f)), 0>>
              /\ \A k \in 5 .. end :
                   T[k - 4] \in Nat \X Nat /\ Steps(f, emitFunction(f)[k], T[k - 4], T[k - 3])
<1> DEFINE T == Places(f)
           end == BodyEnd(f)
           n == Len(Body(f))
<1>1. Along(f, Body(f), <<0, 0>>, <<Len(Lines(f)), 0>>)
  BY AlongBody
<1>2. /\ PlacedBy(f, Body(f), T)
      /\ T[1] = <<0, 0>> /\ T[n + 1] = <<Len(Lines(f)), 0>>
  <2>1. PICK U : /\ PlacedBy(f, Body(f), U)
                 /\ U[1] = <<0, 0>> /\ U[Len(Body(f)) + 1] = <<Len(Lines(f)), 0>>
    BY <1>1 DEF Along
  <2> QED
    BY <2>1 DEF Places
<1> HIDE DEF T
<1>3. /\ end \in Nat /\ 4 <= end /\ n = end - 4
      /\ \A k \in 5 .. end : emitFunction(f)[k] = Body(f)[k - 4]
  BY CodeBody DEF Followable
<1> HIDE DEF end
<1>4. n + 1 = end - 3
  BY <1>3
<1>5. ASSUME NEW k \in 5 .. end
      PROVE T[k - 4] \in Nat \X Nat /\ Steps(f, emitFunction(f)[k], T[k - 4], T[k - 3])
  <2>1. k - 4 \in 1 .. n /\ (k - 4) + 1 = k - 3
    BY <1>3
  <2>2. T[k - 4] \in Nat \X Nat /\ Steps(f, Body(f)[k - 4], T[k - 4], T[(k - 4) + 1])
    BY <1>2, <2>1 DEF PlacedBy
  <2> QED
    BY <1>3, <2>1, <2>2
<1> QED
  BY <1>2, <1>4, <1>5 DEF T, end

LEMMA BelongsFacts ==
    ASSUME Simple, NEW f, Followable(f), NEW n \in Nat, n + 1 \in 1 .. Len(Lines(f))
    PROVE  LET id == Lines(f)[n + 1]
               c  == CodeAt(f, n)
           IN /\ id \in InstrIDs(f) /\ id # NPos /\ id \in ToSet(Lines(f))
              /\ Instr(f, id).opcode # "ALLOCA" /\ Fed(f, id) /\ Supplied(f, id)
              /\ CodeLines(f, id, c) /\ \A k \in 1 .. Len(c) : c[k].id = id
<1> DEFINE L == Lines(f)
           id == L[n + 1]
<1>1. Orderly(f)
  BY FollowableFacts
<1>2. /\ IsSequence(L) /\ id \in InstrIDs(f) /\ Instr(f, id).opcode # "ALLOCA"
      /\ \E b \in BlockIDs(f) : Lists(f, b, id)
  BY <1>1, LinesInOrder DEF Increasing
<1>3. Fed(f, id) /\ Supplied(f, id)
  BY <1>2, FollowableFacts
<1>4. CodeLines(f, id, emitInstruction(f, id))
      /\ \A k \in 1 .. Len(emitInstruction(f, id)) : emitInstruction(f, id)[k].id = id
  BY <1>3, InstructionLines
<1>5. id # NPos
  BY <1>2 DEF InstrIDs, NPos
<1>6. DOMAIN L = 1 .. Len(L)
  <2> HIDE DEF L
  <2> QED
    BY <1>2, SequenceFacts
<1>7. id \in ToSet(L)
  BY <1>6 DEF ToSet
<1> QED
  BY <1>2, <1>3, <1>4, <1>5, <1>7 DEF CodeAt

LEMMA LinesOfCode ==
    ASSUME Simple, NEW f, Followable(f), NEW k \in 1 .. BodyEnd(f) + 5
    PROVE  LET end == BodyEnd(f)
               line == LineAt(Lines(f), emitFunction(f), k)
           IN /\ k \in 1 .. 4 => line = 0
              /\ k \in 5 .. end => line = Places(f)[k - 4][1] + 1
              /\ k \in end + 1 .. end + 5 => line = Len(Lines(f)) + 1
<1> DEFINE L == Lines(f)
           c == emitFunction(f)
           end == BodyEnd(f)
           T == Places(f)
           next == {l \in k .. Len(c) : c[l].id # NPos}
           line == LineAt(L, c, k)
<1>1. /\ end \in Nat /\ 4 <= end /\ Len(c) = end + 5
      /\ \A l \in end + 1 .. end + 5 : c[l].id = NPos
  BY CodeBody DEF Followable
<1>2. /\ T[end - 3] = <<Len(L), 0>>
      /\ \A l \in 5 .. end : T[l - 4] \in Nat \X Nat /\ Steps(f, c[l], T[l - 4], T[l - 3])
  BY PlacesFacts
<1>3. Increasing(L) /\ DOMAIN L = 1 .. Len(L) /\ Len(L) \in Nat
  <2>1. Increasing(L)
    BY FollowableFacts, LinesInOrder
  <2> HIDE DEF L
  <2> QED
    BY <2>1, SequenceFacts DEF Increasing, IsSequence
<1>4. DOMAIN prologue(0) = 1 .. 4
  <2>1. IsSequence(prologue(0)) /\ Len(prologue(0)) = 4
    BY FrameLines
  <2> QED
    BY <2>1, SequenceFacts
<1>5. /\ k \in 1 .. 4 => line = 0
      /\ k \notin 1 .. 4 /\ next = {} => line = Len(L) + 1
      /\ k \notin 1 .. 4 /\ next # {} => line = CHOOSE i \in DOMAIN L : L[i] = c[Min(next)].id
  BY <1>4 DEF LineAt
<1>6. ASSUME NEW l \in 5 .. end
      PROVE  /\ c[l].id = NPos => T[l - 3] = T[l - 4]
             /\ c[l].id # NPos => LET i == T[l - 4][1] + 1
                                  IN i \in DOMAIN L /\ c[l].id = L[i]
  <2> DEFINE n == T[l - 4][1]
             j == T[l - 4][2]
  <2>1. n \in Nat /\ j \in Nat
    BY <1>2
  <2>2. Steps(f, c[l], T[l - 4], T[l - 3])
    BY <1>2
  <2>3. CASE Marks(f, c[l], n) /\ T[l - 3] = T[l - 4]
    BY <2>3 DEF Marks
  <2>4. CASE Belongs(f, c[l], n, j)
    <3>1. /\ n + 1 \in 1 .. Len(Lines(f)) /\ c[l] = CodeAt(f, n)[j + 1]
          /\ j + 1 \in 1 .. Len(CodeAt(f, n))
      BY <2>4 DEF Belongs
    <3>2. L[n + 1] # NPos /\ \A i \in 1 .. Len(CodeAt(f, n)) : CodeAt(f, n)[i].id = L[n + 1]
      BY <2>1, <3>1, BelongsFacts
    <3>3. c[l].id = L[n + 1] /\ c[l].id # NPos
      BY <3>1, <3>2
    <3> QED
      BY <1>3, <3>1, <3>3
  <2> QED
    BY <2>2, <2>3, <2>4 DEF Steps
<1> HIDE DEF T, c, L, line, end
<1>7. ASSUME k \in 5 .. end, NEW m \in 5 .. end + 1, k <= m,
             \A l \in k .. m - 1 : c[l].id = NPos
      PROVE  T[m - 4] = T[k - 4]
  <2> DEFINE G == {d \in Nat : k + d <= m => T[(k + d) - 4] = T[k - 4]}
  <2>1. 0 \in G
    BY <1>7
  <2>2. ASSUME NEW d \in Nat, d \in G PROVE d + 1 \in G
    <3>1. SUFFICES ASSUME k + (d + 1) <= m PROVE T[(k + (d + 1)) - 4] = T[k - 4]
      OBVIOUS
    <3>2. /\ k + d \in 5 .. end /\ k + d \in k .. m - 1 /\ k + d <= m
          /\ (k + d) - 3 = (k + (d + 1)) - 4
      BY <1>1, <1>7, <3>1
    <3>3. T[(k + d) - 3] = T[(k + d) - 4]
      BY <1>6, <1>7, <3>2
    <3>4. T[(k + d) - 4] = T[k - 4]
      BY <2>2, <3>2
    <3> QED
      BY <3>2, <3>3, <3>4
  <2> HIDE DEF G
  <2>3. m - k \in G
    BY <1>1, <1>7, <2>1, <2>2, SetInduction
  <2>4. k + (m - k) = m
    BY <1>1, <1>7
  <2> QED
    BY <1>7, <2>3, <2>4 DEF G
<1>8. CASE k \in 1 .. 4
  <2>1. k \notin 5 .. end /\ k \notin end + 1 .. end + 5
    BY <1>1, <1>8
  <2>2. line = 0
    BY <1>5, <1>8
  <2> QED
    BY <1>8, <2>1, <2>2 DEF line, L, c, end
<1>9. CASE k \in end + 1 .. end + 5
  <2>1. next = {}
    BY <1>1, <1>9
  <2>2. k \notin 1 .. 4 /\ k \notin 5 .. end
    BY <1>1, <1>9
  <2>3. line = Len(L) + 1
    <3> HIDE DEF next
    <3> QED
      BY <1>5, <2>1, <2>2
  <2> QED
    BY <1>9, <2>2, <2>3 DEF line, L, c, end
<1>10. CASE k \in 5 .. end
  <2>1. k \notin 1 .. 4 /\ k \notin end + 1 .. end + 5
    BY <1>1, <1>10
  <2>2. CASE next = {}
    <3>1. \A l \in k .. (end + 1) - 1 : c[l].id = NPos
      BY <1>1, <1>10, <2>2
    <3>2. end + 1 \in 5 .. end + 1 /\ k <= end + 1 /\ (end + 1) - 4 = end - 3
      BY <1>1, <1>10
    <3>3. T[(end + 1) - 4] = T[k - 4]
      BY <1>7, <1>10, <3>1, <3>2
    <3>4. T[k - 4][1] = Len(L)
      BY <1>2, <3>2, <3>3
    <3> QED
      BY <1>5, <2>1, <2>2, <3>4 DEF line, L, c, end, T
  <2>3. CASE next # {}
    <3> DEFINE l == Min(next)
    <3>1. next \subseteq Nat
      BY <1>1, <1>10
    <3>2. l \in next /\ \A m \in next : l <= m
      <4>1. \E m \in next : \A i \in next : m <= i
        BY <2>3, <3>1, LeastNatural
      <4> HIDE DEF next
      <4> QED
        BY <4>1 DEF Min
    <3> HIDE DEF l
    <3>3. l \in k .. end /\ c[l].id # NPos
      BY <1>1, <1>10, <3>2
    <3>4. \A m \in k .. l - 1 : c[m].id = NPos
      BY <1>1, <1>10, <3>2, <3>3
    <3>5. T[l - 4] = T[k - 4]
      <4>1. l \in 5 .. end + 1 /\ k <= l
        BY <1>1, <1>10, <3>3
      <4> QED
        BY <1>7, <1>10, <3>4, <4>1
    <3> DEFINE n == T[k - 4][1] + 1
    <3>6. n \in DOMAIN L /\ c[l].id = L[n]
      <4>1. l \in 5 .. end
        BY <1>1, <1>10, <3>3
      <4> QED
        BY <1>6, <3>3, <3>5, <4>1
    <3>7. \A i \in DOMAIN L : L[i] = L[n] => i = n
      <4> HIDE DEF n
      <4>1. ASSUME NEW i \in DOMAIN L, i # n PROVE L[i] # L[n]
        <5>1. i \in 1 .. Len(L) /\ n \in 1 .. Len(L)
          BY <1>3, <3>6
        <5>2. L[i] < L[n] \/ L[n] < L[i]
          BY <1>3, <4>1, <5>1 DEF Increasing
        <5>3. L[i] \in Int /\ L[n] \in Int
          <6>1. Orderly(f)
            BY FollowableFacts
          <6>2. L[i] \in InstrIDs(f) /\ L[n] \in InstrIDs(f)
            BY <5>1, <6>1, LinesInOrder DEF L
          <6> QED
            BY <6>1, <6>2, FunctionFields DEF InstrIDs, LastInstr, Orderly
        <5> QED
          BY <5>2, <5>3
      <4> QED
        BY <4>1
    <3>8. line = n
      <4> HIDE DEF n, next
      <4>1. line = CHOOSE i \in DOMAIN L : L[i] = c[l].id
        BY <1>5, <2>1, <2>3 DEF l
      <4> QED
        BY <3>6, <3>7, <4>1
    <3> QED
      BY <2>1, <3>8 DEF line, L, c, end, T
  <2> QED
    BY <2>2, <2>3
<1>11. k \in 1 .. end + 5
  BY DEF end
<1> QED
  BY <1>1, <1>8, <1>9, <1>10, <1>11
=============================================================================
