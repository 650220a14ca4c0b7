----------------------------- MODULE IRMachine -----------------------------
(***************************************************************************)
(* What executing a function of the IR means.  The instructions of all     *)
(* blocks, in the order of the blocks, are its lines; a block that does    *)
(* not end with a branch continues with the next one.  Storage is the      *)
(* function's allocas and the module's globals, at addresses the target    *)
(* chooses.                                                                *)
(***************************************************************************)
EXTENDS Layout, Word

CONSTANTS GlobalIDs, AllocaAddress(_), GlobalAddress(_)

\* line 0 is where a call is being set up, the line after the last one where
\* it is over; then result is what it returned.
VARIABLES func, params, lines, line, values, memory, result
vars == <<func, params, lines, line, values, memory, result>>
call == <<func, params, lines>>

Over == Len(lines) + 1

Operand(v) ==
    CASE v.kind = "CONST"  -> Wrap(func.consts[v.id + 1])
      [] v.kind = "PARAM"  -> params[v.id + 1]
      [] v.kind = "GLOBAL" -> GlobalAddress(v.id)
      [] v.kind = "INSTR"  -> IF v.id \in Allocas(func) THEN AllocaAddress(v.id) ELSE values[v.id]

Holds(cond, a, b) ==
    CASE cond = "EQ"  -> a = b
      [] cond = "NE"  -> a # b
      [] cond = "UGT" -> a > b
      [] cond = "UGE" -> a >= b
      [] cond = "ULT" -> a < b
      [] cond = "SGT" -> Signed(a) > Signed(b)
      [] cond = "SGE" -> Signed(a) >= Signed(b)
      [] cond = "SLT" -> Signed(a) < Signed(b)
      [] cond = "SLE" -> Signed(a) <= Signed(b)

Divisions == {"UDIV", "SDIV", "UREM", "SREM"}
\* What an instruction may compute; the quotients LLVM leaves undefined are
\* any word.
Outcomes(instr, a, b) ==
    LET op == instr.opcode
        overflow == Signed(a) = -(WordSize \div 2) /\ Signed(b) = -1
    IN CASE op = "ADD" -> {Wrap(a + b)}
         [] op = "SUB" -> {Wrap(a - b)}
         [] op = "MUL" -> {Wrap(a * b)}
         [] op \in Divisions /\ b = 0 -> Word
         [] op = "UDIV" /\ b # 0 -> {a \div b}
         [] op = "UREM" /\ b # 0 -> {a % b}
         [] op \in {"SDIV", "SREM"} /\ b # 0 /\ overflow -> Word
         [] op = "SDIV" /\ b # 0 /\ ~overflow -> {Wrap(Quotient(Signed(a), Signed(b)))}
         [] op = "SREM" /\ b # 0 /\ ~overflow -> {Wrap(Remainder(Signed(a), Signed(b)))}
         [] op = "AND" -> {And(a, b)}
         [] op = "OR"  -> {Or(a, b)}
         [] op = "XOR" -> {Xor(a, b)}
         [] op = "ICMP" -> {Flag(Holds(instr.cond, a, b))}

-----------------------------------------------------------------------------
Globals == [i \in GlobalIDs |-> memory[GlobalAddress(i)]]

\* A call may come when none is going on.
Call ==
    /\ func = NoFunction \/ line = Over
    /\ func' # NoFunction
    /\ lines' = Lines(func') /\ line' = 0
    /\ Globals' = Globals

\* A function whose last line does not return returns anything.
Proceed(l) == line' = l /\ (l # Over => UNCHANGED result)

\* Until the first line runs, locals hold anything; globals hold their values.
Enter ==
    /\ func # NoFunction /\ line = 0
    /\ Proceed(0) \/ Proceed(1)
    /\ Globals' = Globals
    /\ UNCHANGED call

Executing(id) == func # NoFunction /\ line \in DOMAIN lines /\ id = lines[line]

Compute(id) ==
    LET instr == Instr(func, id)
    IN /\ instr.opcode \notin {"LOAD", "STORE", "BR", "RET"}
       /\ \E w \in Outcomes(instr, Operand(instr.operands[1]), Operand(instr.operands[2])) :
             values' = [values EXCEPT ![id] = w]
       /\ Proceed(line + 1)
       /\ UNCHANGED <<call, memory>>

Load(id) ==
    LET instr == Instr(func, id)
    IN /\ instr.opcode = "LOAD"
       /\ values' = [values EXCEPT ![id] = memory[Operand(instr.operands[1])]]
       /\ Proceed(line + 1)
       /\ UNCHANGED <<call, memory>>

Store(id) ==
    LET instr == Instr(func, id)
    IN /\ instr.opcode = "STORE"
       /\ memory' = [memory EXCEPT ![Operand(instr.operands[2])] = Operand(instr.operands[1])]
       /\ Proceed(line + 1)
       /\ UNCHANGED <<call, values>>

Branch(id) ==
    LET ops == Instr(func, id).operands
    IN /\ Instr(func, id).opcode = "BR"
       /\ Proceed(Start(func, ops[IF Len(ops) = 1 THEN 1
                                 ELSE IF Operand(ops[1]) # 0 THEN 2 ELSE 3].id))
       /\ UNCHANGED <<call, values, memory>>

Ret(id) ==
    /\ Instr(func, id).opcode = "RET"
    /\ result' = Operand(Instr(func, id).operands[1])
    /\ line' = Over
    /\ UNCHANGED <<call, values, memory>>

Init ==
    /\ func = NoFunction /\ lines = <<>>
    /\ Globals = [i \in GlobalIDs |-> 0]
Next ==
    \/ Call
    \/ Enter
    \/ \E id \in InstrIDs(func) :
          /\ Executing(id)
          /\ Compute(id) \/ Load(id) \/ Store(id) \/ Branch(id) \/ Ret(id)
Spec == Init /\ [][Next]_vars
=============================================================================
