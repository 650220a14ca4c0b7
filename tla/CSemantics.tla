----------------------------- MODULE CSemantics -----------------------------
(***************************************************************************)
(* What a C function means and what the IR generated for it does, to       *)
(* compare the two.  A value is <<v>>, or <<>> when C leaves it undefined. *)
(*                                                                         *)
(* The source side interprets `program`, the nodes in visiting order; the  *)
(* operands of a binary node therefore come right operand first.  It       *)
(* follows C89 and owes nothing to the compiler.  The IR side executes     *)
(* blocks in the order of the arena, as RISCVEmitter lays them out: a      *)
(* block without a branch continues with the next one.                     *)
(***************************************************************************)
EXTENDS IRGenProps, Division, TLC

Undefined == <<>>
TruthOf(b) == IF b THEN <<1>> ELSE <<0>>

Apply(op, l, r) ==
    IF l = Undefined \/ r = Undefined THEN Undefined
    ELSE LET a == l[1]
             b == r[1]
         IN CASE op = "+" -> <<a + b>>
              [] op = "-" -> <<a - b>>
              [] op = "*" -> <<a * b>>
              [] op \in {"/", "%"} /\ b = 0 -> Undefined
              [] op = "/" -> <<Quotient(a, b)>>
              [] op = "%" -> <<Remainder(a, b)>>
              [] op = "==" -> TruthOf(a = b)
              [] op = "!=" -> TruthOf(a # b)

-----------------------------------------------------------------------------
(* The source.  An environment holds the scopes, innermost last, that map a *)
(* name to a location; the store; and whether and with what it returned.    *)

Declare(env, n, v) ==
    [env EXCEPT !.scopes[Len(env.scopes)] = Bind(@, n, Len(env.store) + 1),
                !.store = Append(@, v)]
Location(env, n) == GetOrd(env.scopes, n)
Result(next, val, env) == [next |-> next, val |-> val, env |-> env]
\* The continuation applied to the result of a part.
After(result, Then(_)) == Then(result)

RECURSIVE SourceExpr(_, _), SourceList(_, _, _)
SourceExpr(i, env) ==
    LET node == program[i].node
        arg  == program[i].arg
    IN CASE node = "literal" -> Result(i + 1, <<arg>>, env)
         [] node = "identifier" -> Result(i + 1, env.store[Location(env, arg)], env)
         [] node = "paren" -> SourceList(i + 2, program[i + 1].arg, env)
         [] node = "binary" ->
              After(SourceExpr(i + 1, env), LAMBDA right :
                After(SourceExpr(right.next, right.env), LAMBDA left :
                  Result(left.next, Apply(arg, left.val, right.val), left.env)))
         [] node = "assign" ->
              After(SourceExpr(i + 1, env), LAMBDA right :
                LET place == Location(env, program[right.next].arg)
                    old   == right.env.store[place]
                    new   == CASE arg = "=" -> right.val
                               [] arg = "+=" -> Apply("+", old, right.val)
                               [] arg = "-=" -> Apply("-", old, right.val)
                IN Result(right.next + 1, new, [right.env EXCEPT !.store[place] = new]))
SourceList(i, n, env) ==
    After(SourceExpr(i, env), LAMBDA first :
      IF n = 1 THEN first ELSE SourceList(first.next, n - 1, first.env))

\* `running` is FALSE once the function has returned or gone undefined; the
\* nodes after that are only skipped.
Running(env) == ~env.returned /\ env.defined
Skipping(env) == [env EXCEPT !.returned = TRUE]
\* env after a part that only `taken` executes.
Joined(taken, before, after) ==
    IF taken THEN [after EXCEPT !.scopes = before.scopes] ELSE before

RECURSIVE SourceStmt(_, _), SourceStmts(_, _), SourceDecls(_, _)
SourceDecls(i, env) ==
    LET node == program[i].node
        arg  == program[i].arg
    IN CASE node = "end" -> Result(i + 1, Undefined, env)
         [] node = "declarator" -> SourceDecls(i + 1, Declare(env, arg, Undefined))
         [] node = "initDeclarator" ->
              LET declared == Declare(env, arg, Undefined)
              IN After(SourceExpr(i + 1, declared), LAMBDA init :
                   SourceDecls(init.next,
                     [init.env EXCEPT !.store[Location(declared, arg)] = init.val]))
SourceStmts(i, env) ==
    IF program[i].node = "end" THEN Result(i + 1, Undefined, env)
    ELSE After(SourceStmt(i, env), LAMBDA stmt : SourceStmts(stmt.next, stmt.env))
\* env after `e`, a list of expressions that ends its statement.
Evaluated(env, e) == Result(e.next, Undefined, Joined(Running(env), env, e.env))
\* env with the condition evaluated; an undefined one leaves all undefined.
Decided(env, cond) ==
    IF Running(env) THEN [cond.env EXCEPT !.defined = cond.val # Undefined] ELSE env
SourceStmt(i, env) ==
    LET node == program[i].node
        list(k) == SourceList(k + 1, program[k].arg, env)
    IN CASE node = "compound" ->
              After(SourceDecls(i + 1, [env EXCEPT !.scopes = Append(@, EmptyScope)]),
                LAMBDA decls : After(SourceStmts(decls.next, decls.env),
                  LAMBDA body : Evaluated(env, body)))
         [] node = "expression" -> Evaluated(env, list(i + 1))
         [] node = "return" ->
              After(list(i + 1), LAMBDA e :
                Evaluated(env, [e EXCEPT !.env.returned = TRUE, !.env.value = e.val]))
         [] node = "returnVoid" ->
              Evaluated(env, Result(i + 1, Undefined, [env EXCEPT !.returned = TRUE]))
         [] node = "if" ->
              After(list(i + 1), LAMBDA cond :
                LET holds == cond.val # Undefined /\ cond.val # <<0>>
                    known == Decided(env, cond)
                IN After(SourceStmt(cond.next, IF holds THEN known ELSE Skipping(known)),
                     LAMBDA yes :
                       IF program[yes.next].node = "end"
                       THEN Result(yes.next + 1, Undefined, IF holds THEN yes.env ELSE known)
                       ELSE After(SourceStmt(yes.next + 1,
                                    IF holds THEN Skipping(known) ELSE known),
                              LAMBDA no : Result(no.next, Undefined,
                                            IF holds THEN yes.env ELSE no.env))))

\* The function whose definition is node i, called with args.
RECURSIVE SourceParams(_, _, _)
SourceParams(i, args, env) ==
    IF program[i].node = "end" THEN Result(i + 1, Undefined, env)
    ELSE SourceParams(i + 1, Tail(args), Declare(env, program[i].arg, <<Head(args)>>))

\* File-scope variables declared before node i; they start as zero.
RECURSIVE SourceGlobals(_, _)
SourceGlobals(i, env) ==
    IF i = 0 THEN env
    ELSE LET before == SourceGlobals(i - 1, env)
         IN IF program[i].node = "declarator" /\ \E j \in 1 .. i - 1 :
                  /\ program[j].node = "global"
                  /\ \A k \in j + 1 .. i : program[k].node = "declarator"
            THEN Declare(before, program[i].arg, <<0>>)
            ELSE before

NewEnv == [scopes |-> <<EmptyScope>>, store |-> <<>>,
           returned |-> FALSE, value |-> Undefined, defined |-> TRUE]

RunSource(i, args) ==
    LET env    == SourceGlobals(i - 1, NewEnv)
    IN After(SourceParams(i + 1, args, [env EXCEPT !.scopes = Append(@, EmptyScope)]),
         LAMBDA params : After(SourceDecls(params.next, params.env),
           LAMBDA decls : After(SourceStmts(decls.next, decls.env).env,
             LAMBDA final : [defined |-> final.defined, value |-> final.value,
                             globals |-> SubSeq(final.store, 1, Len(env.store))])))

-----------------------------------------------------------------------------
(* The IR.  Storage is the function's allocas and the module's globals; an  *)
(* address is a number no program of the instance computes otherwise.       *)

AllocaCell(id) == 1000 + id
GlobalCell(id) == 2000 + id

OperandValue(f, regs, args, v) ==
    CASE v.kind = "CONST"  -> <<f.consts[v.id + 1]>>
      [] v.kind = "PARAM"  -> <<args[v.id + 1]>>
      [] v.kind = "GLOBAL" -> <<GlobalCell(v.id)>>
      [] v.kind = "INSTR"  ->
           IF Instr(f, v.id).opcode = "ALLOCA" THEN <<AllocaCell(v.id)>> ELSE regs[v.id]

OpcodeOperator ==
    [ADD |-> "+", SUB |-> "-", MUL |-> "*", SDIV |-> "/", SREM |-> "%"]

\* Run from instruction number k of block b.
RECURSIVE RunBlock(_, _, _, _, _, _)
RunBlock(f, args, b, k, regs, memory) ==
    LET outcome(defined, value) ==
            [defined |-> defined, value |-> value,
             globals |-> [i \in 1 .. Len(module.globals) |-> memory[GlobalCell(i - 1)]]]
    IN IF b > LastBlock(f) THEN outcome(TRUE, Undefined)
       ELSE IF k > Len(Block(f, b).instrIDs) THEN RunBlock(f, args, b + 1, 1, regs, memory)
       ELSE LET id        == Block(f, b).instrIDs[k]
                instr     == Instr(f, id)
                val(j)    == OperandValue(f, regs, args, instr.operands[j])
                next(r, m) == RunBlock(f, args, b, k + 1, r, m)
                set(v)    == next([regs EXCEPT ![id] = v], memory)
                at(a)     == IF a # Undefined /\ a[1] \in DOMAIN memory
                             THEN memory[a[1]] ELSE Undefined
            IN CASE instr.opcode = "ALLOCA" -> next(regs, memory)
                 [] instr.opcode = "LOAD" -> set(at(val(1)))
                 [] instr.opcode = "STORE" ->
                      next(regs, IF val(2) = Undefined THEN memory
                                 ELSE [memory EXCEPT ![val(2)[1]] = val(1)])
                 [] instr.opcode = "ICMP" ->
                      set(Apply(IF instr.cond = "EQ" THEN "==" ELSE "!=", val(1), val(2)))
                 [] instr.opcode = "RET" ->
                      outcome(TRUE, IF instr.operands = <<>> THEN Undefined ELSE val(1))
                 [] instr.opcode = "BR" ->
                      IF Len(instr.operands) = 1
                      THEN RunBlock(f, args, instr.operands[1].id, 1, regs, memory)
                      ELSE IF val(1) = Undefined THEN outcome(FALSE, Undefined)
                      ELSE RunBlock(f, args,
                             instr.operands[IF val(1) # <<0>> THEN 2 ELSE 3].id, 1, regs, memory)
                 [] OTHER -> set(Apply(OpcodeOperator[instr.opcode], val(1), val(2)))

RunIR(f, args) ==
    RunBlock(f, args, 0, 1, [i \in InstrIDs(f) |-> Undefined],
             [a \in {AllocaCell(i) : i \in InstrIDs(f)} |-> Undefined]
             @@ [a \in {GlobalCell(i) : i \in 0 .. Len(module.globals) - 1} |-> <<0>>])
=============================================================================
