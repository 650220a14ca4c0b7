------------------------------- MODULE IREmitter -------------------------------
(***************************************************************************)
(* IREmitter: a function as the lines of its LLVM text, for a reader that  *)
(* knows nothing of arenas: an operand is a name, and a name has to be     *)
(* defined.  How names and instructions are spelt is left out.             *)
(***************************************************************************)
EXTENDS LLVMModule, SequencesExt

\* getValueLabel(): what an operand is called.
getValueLabel(f, globals, v) ==
    CASE v.kind = "INSTR" -> <<"%ins", v.id>>
      [] v.kind = "PARAM" -> <<"%", f.params[v.id + 1]>>
      [] v.kind = "CONST" -> <<"", f.consts[v.id + 1]>>
      [] v.kind = "BLOCK" -> <<"label", Block(f, v.id).label>>
      [] v.kind = "GLOBAL" -> <<"@", globals[v.id + 1]>>

\* Whether a result is named.
HasDest(instr) == instr.type # "void" /\ instr.opcode # "RET"

\* The operands of an instruction that are printed, and the one whose type is.
Operation ==
    {"ADD", "SUB", "MUL", "UDIV", "SDIV", "UREM", "SREM", "AND", "OR", "XOR", "ICMP", "STORE"}
PrintedOperands(instr) ==
    CASE instr.opcode \in Operation -> {1, 2}
      [] instr.opcode = "LOAD" -> {1}
      [] instr.opcode = "BR" -> IF Len(instr.operands) = 1 THEN {1} ELSE {1, 2, 3}
      [] instr.opcode = "RET" /\ instr.type # "void" -> {1}
      [] OTHER -> {}
AsksTypeOf(instr, k) == instr.opcode \in {"ICMP", "STORE"} /\ k = 1

\* emitInstruction() throws: an operand that cannot be looked up, or getTypeOf()
\* of a global.  (Every block has a label.)
InstructionThrows(f, globals, instr) ==
    \E k \in PrintedOperands(instr) :
        \/ k \notin DOMAIN instr.operands
        \/ ~InArena(f, globals, instr.operands[k])
           /\ (instr.operands[k].kind = "INSTR" => AsksTypeOf(instr, k))
        \/ AsksTypeOf(instr, k) /\ instr.operands[k].kind = "GLOBAL"

\* A line of the text: the name it defines, if any, and the names it uses.
NoDest == <<>>
Line(dest, uses) == [dest |-> dest, uses |-> uses]
emitInstruction(f, globals, id) ==
    LET instr == Instr(f, id)
    IN Line(IF HasDest(instr) THEN <<"%ins", id>> ELSE NoDest,
            {getValueLabel(f, globals, instr.operands[k]) : k \in PrintedOperands(instr)})
\* The parameters, then block after block, each behind its label.
emitFunction(f, globals) ==
    [i \in DOMAIN f.params |-> Line(<<"%", f.params[i]>>, {})]
    \o FlattenSeq([b \in DOMAIN f.blocks |->
        <<Line(<<"label", f.blocks[b].label>>, {})>>
        \o [k \in DOMAIN f.blocks[b].instrIDs |->
                emitInstruction(f, globals, f.blocks[b].instrIDs[k])]])
=============================================================================
