------------------------------- MODULE IRGen -------------------------------
(***************************************************************************)
(* IRGenVisitor: one walk over the checked AST of a translation unit that  *)
(* builds an LLVMModule.                                                   *)
(*                                                                         *)
(* The recursive visitor is a state machine.  `todo` is its call stack     *)
(* inside the current function: a frame is either a child node still to be *)
(* visited or a suspended visit() that resumes after its child, with the   *)
(* locals it holds (instruction ids it will need).  The innermost is the   *)
(* head.  The loop over external declarations and the one over a global's  *)
(* declarators are implicit in `function` and `global`, as they are in     *)
(* the null tests of the code.                                             *)
(*                                                                         *)
(* The AST is chosen while it is walked: a frame for a child that has not  *)
(* been visited may be any node the parser builds and SemaVisitor accepts  *)
(* there.  `program` records the nodes in visiting order, `table` and      *)
(* `evaluated` what SemaVisitor had put into them, and `budget` bounds     *)
(* their number.  Every declarator of a local Declaration is one element   *)
(* of the declaration list: the visitor treats `int x, y;` as two.         *)
(***************************************************************************)
EXTENDS IRBuilder, SymbolTable, FiniteSets

CONSTANTS
    FuncNames,   \* names of functions
    VarNames,    \* names of variables declared with a plain declarator
    PtrNames,    \* names of variables declared with a pointer or array one
    VarTypes,    \* declared types of variables
    Literals,    \* values of integer constants
    Operators,   \* the operators programs may use
    Fragment,    \* the optional constructs programs may use (see Optional)
    MaxNodes     \* bound on the nodes of a program

NoName == "no name"
Names == VarNames \cup PtrNames

\* Where the value of an expression goes: nowhere, through
\* _evaluateAsRValue, or straight into the next instruction.
Position == {"discarded", "rvalue", "unloaded"}

Optional ==
    {"global",        \* file-scope variables
     "globalInit",    \* ... with an initializer
     "globalList",    \* ... several in one declaration
     "prototype",     \* block-scope function declarations
     "pointer",       \* pointer and array declarators
     "abstract",      \* parameters without a declarator
     "braces",        \* brace-enclosed initializers
     "block",         \* nested compound statements
     "shadow",        \* a name declared while an outer one is visible
     "list",          \* comma expressions and parentheses
     "nestedAssign",  \* an assignment whose value is used
     "bareIdentifier",\* `if (x)`, `int y = x;`
     "voidReturn",    \* `return;`
     "empty",         \* the statement `;`
     "unhandledExpr", \* expressions the visitor has no handler for
     "unhandledStmt"} \* statements the visitor has no handler for

ASSUME NamesAssumption ==
    /\ VarNames \cap PtrNames = {}
    /\ NoName \notin Names
    /\ NoFunctionName \notin FuncNames
ASSUME TypesAssumption == VarTypes \subseteq {"char", "short", "int", "long"}
ASSUME LiteralsAssumption == Literals \subseteq Int
ASSUME OperatorsAssumption == Operators \subseteq BinaryOperator \cup AssignmentOperator
ASSUME BoundAssumption == MaxNodes \in Nat /\ Fragment \subseteq Optional

VARIABLES
    function,     \* *_function, NoFunction when the pointer is null
    global,       \* <<>> when _global is null, else <<name of *_global>>
    module,       \* _module: its finished functions and its globals' names
    identifiers,  \* _identifiers: layers, outermost first
    initialising, \* _initialising
    todo,         \* the call stack within the function
    status,       \* "visiting", "done", or how the process ended early
    table,        \* SemaVisitor's scopes at this point of the program
    evaluated,    \* getEvaluatedType() of the expression visited last
    program,      \* the nodes visited so far
    budget        \* how many more nodes the program may have

vars == <<function, global, module, identifiers, initialising, todo, status,
          table, evaluated, program, budget>>
unit == <<global, module>>
scopes == <<identifiers, initialising, table>>
source == <<program, budget>>

-----------------------------------------------------------------------------
(* Where the visitor is, and names *)

InFunction == function # NoFunction

ResolveIdentifier(n) ==
    LET i == CHOOSE i \in DOMAIN identifiers :
                 /\ n \in DOMAIN identifiers[i]
                 /\ \A j \in DOMAIN identifiers : n \in DOMAIN identifiers[j] => i <= j
    IN identifiers[i][n]
\* Mutant: only the innermost layer is searched.
ResolvableInnermost(n) == identifiers # <<>> /\ n \in DOMAIN identifiers[Len(identifiers)]
Resolvable(n) == \E i \in DOMAIN identifiers : n \in DOMAIN identifiers[i]

BindCurrent(layers, n, v) ==
    [layers EXCEPT ![Len(layers)] = Bind(layers[Len(layers)], n, v)]
\* _currentIdentifiers() opens a first layer when there is none.
CurrentLayers == IF identifiers = <<>> THEN <<EmptyScope>> ELSE identifiers

-----------------------------------------------------------------------------
(* Types *)

Rank == [void |-> -1, char |-> 1, short |-> 2, int |-> 3, long |-> 4,
         float |-> 5, double |-> 6, ptr |-> -1]
PromotedType(lhs, rhs) == IF Rank[lhs] >= Rank[rhs] THEN lhs ELSE rhs

-----------------------------------------------------------------------------
(* The call stack *)

\* at: the child to visit or the place to resume; arg: a position or an
\* operator; type: the right operand's evaluated type; ids: saved ids.
Resume(at, arg, type, ids) == [at |-> at, arg |-> arg, type |-> type, ids |-> ids]
Frame(at) == Resume(at, "", "void", <<>>)
Child(at, position) == Resume(at, position, "void", <<>>)

\* Frames that stand for at least one node still to be chosen.
Owing == {"list", "expr", "lvalue", "init", "stmt",
          "binaryLhs", "assignLhs", "ifThen"}
Owed == Cardinality({i \in DOMAIN todo : todo[i].at \in Owing})
\* A node may be chosen if it and `more` others fit the bound.
Affords(more) == budget >= Owed + more

At(place) == status = "visiting" /\ todo # <<>> /\ Head(todo).at = place
Continue(frames) == todo' = frames \o Tail(todo)
Note(node, arg) == program' = Append(program, [node |-> node, arg |-> arg])
Visit(node, arg) == Note(node, arg) /\ budget > 0 /\ budget' = budget - 1
Stop(how) ==
    /\ status' = how
    /\ UNCHANGED <<function, unit, todo, scopes, evaluated>>

-----------------------------------------------------------------------------
(* External declarations *)

Outside == status = "visiting" /\ todo = <<>> /\ ~InFunction /\ global = <<>>

\* The name may be declared: C allows it once per scope.
Declarable(n) ==
    /\ n \notin DOMAIN table[Len(table)]
    /\ "shadow" \in Fragment \/ ~HasOrd(table, n)
Symbol(type, storage) == [type |-> type, storage |-> storage]
NoStorage == Value("INSTR", NPos)

\* visit(Declaration) at file scope: *_global lives for its declarators.
GlobalDeclaration ==
    /\ Outside /\ "global" \in Fragment /\ Affords(1)
    /\ \E n \in VarNames : Declarable(n)
    /\ global' = <<NoName>>
    /\ Note("global", NoName)
    /\ UNCHANGED <<function, module, identifiers, initialising, todo, status,
                   table, evaluated, budget>>

InGlobal == status = "visiting" /\ global # <<>>

\* visit(IdentifierDeclarator) with _global set.
GlobalIdentifier(n, type) ==
    /\ InGlobal /\ Affords(1) /\ Declarable(n)
    /\ global = <<NoName>> \/ "globalList" \in Fragment
    /\ LET storage == Value("GLOBAL", Len(module.globals))
       IN /\ global' = <<n>>
          /\ identifiers' = BindCurrent(CurrentLayers, n, storage)
          /\ table' = AddToScope(table, n, Symbol(type, storage))
    /\ Visit("declarator", n)
    /\ UNCHANGED <<function, module, initialising, todo, status, evaluated>>

\* A pointer or array declarator at file scope: no handler, no name.
GlobalPointer(n) ==
    /\ InGlobal /\ "pointer" \in Fragment /\ Affords(1) /\ Declarable(n)
    /\ table' = AddToScope(table, n, Symbol("ptr", NoStorage))
    /\ Visit("declarator", n)
    /\ UNCHANGED <<function, unit, identifiers, initialising, todo, status, evaluated>>

\* visit(InitDeclarator) at file scope reaches the initializer's handlers,
\* which dereference the null _function.
GlobalInitialised(n) ==
    /\ InGlobal /\ "globalInit" \in Fragment /\ Affords(2) /\ Declarable(n)
    /\ Visit("declarator", n)
    /\ Stop("crashed")

\* _global = nullptr; _module.globals.push_back(global)
EndGlobal ==
    /\ InGlobal /\ program[Len(program)].node # "global"
    /\ global' = <<>>
    /\ module' = [module EXCEPT !.globals = Append(@, global[1])]
    /\ Note("end", NoName)
    /\ UNCHANGED <<function, scopes, todo, status, evaluated, budget>>

\* visit(FunctionDefinition) up to its declarator.  A pointer declarator
\* around the function declarator has no handler: neither name nor params.
FunctionDefinition(g, pointer) ==
    /\ Outside /\ Affords(1)
    /\ \A i \in DOMAIN module.functions : module.functions[i].name # g
    /\ pointer => "pointer" \in Fragment
    /\ function' = IF pointer THEN NewFunction ELSE [NewFunction EXCEPT !.name = g]
    /\ identifiers' = Append(identifiers, EmptyScope)
    /\ table' = PushScope(table)
    /\ todo' = IF pointer THEN <<Frame("decls"), Frame("stmts")>>
               ELSE <<Frame("params"), Frame("decls"), Frame("stmts")>>
    /\ Visit(IF pointer THEN "pointerFunction" ELSE "function", g)
    /\ UNCHANGED <<unit, initialising, status, evaluated>>

\* Mutant: the layer of the function stays.
EndFunctionKeepsLayer ==
    /\ status = "visiting" /\ InFunction /\ todo = <<>>
    /\ function' = NoFunction
    /\ module' = [module EXCEPT !.functions = Append(@, function)]
    /\ identifiers' = identifiers
    /\ table' = PopScope(table)
    /\ UNCHANGED <<global, initialising, todo, status, evaluated, source>>

\* visit(FunctionDefinition) after the body.
EndFunction ==
    /\ status = "visiting" /\ InFunction /\ todo = <<>>
    /\ function' = NoFunction
    /\ module' = [module EXCEPT !.functions = Append(@, function)]
    /\ identifiers' = SubSeq(identifiers, 1, Len(identifiers) - 1)
    /\ table' = PopScope(table)
    /\ UNCHANGED <<global, initialising, todo, status, evaluated, source>>

EndUnit ==
    /\ Outside
    /\ status' = "done"
    /\ UNCHANGED <<function, unit, scopes, todo, evaluated, source>>

-----------------------------------------------------------------------------
(* Parameters and local declarations *)

\* visit(IdentifierDeclarator) with _function set, and what SemaVisitor's
\* handler of the same name put into the table.
DeclareLocal(n, type) ==
    LET storage == Value("INSTR", Len(function.instructions))
    IN /\ Declarable(n)
       /\ identifiers' = BindCurrent(CurrentLayers, n, storage)
       /\ table' = AddToScope(table, n, Symbol(type, storage))

DeclarePointer(n) ==
    /\ Declarable(n)
    /\ table' = AddToScope(table, n, Symbol("ptr", NoStorage))

ParameterIdentifier(n, type) ==
    /\ At("params") /\ Affords(1)
    /\ DeclareLocal(n, type)
    /\ function' = AddParameter(EmitInstr(function, Alloca(type)), n)
    /\ Visit("param", n)
    /\ UNCHANGED <<unit, initialising, todo, status, evaluated>>

ParameterPointer(n) ==
    /\ At("params") /\ "pointer" \in Fragment /\ Affords(1)
    /\ DeclarePointer(n)
    /\ function' = AddParameter(function, n)
    /\ Visit("param", n)
    /\ UNCHANGED <<unit, identifiers, initialising, todo, status, evaluated>>

\* visit(ParameterDeclaration) dereferences the missing declarator of
\* `int f(int)` and `int f(void)`.
ParameterAbstract ==
    /\ At("params") /\ "abstract" \in Fragment /\ Affords(1)
    /\ Visit("param", NoName)
    /\ Stop("crashed")

LocalIdentifier(n, type) ==
    /\ At("decls") /\ Affords(1)
    /\ DeclareLocal(n, type)
    /\ function' = EmitInstr(function, Alloca(type))
    /\ Visit("declarator", n)
    /\ UNCHANGED <<unit, initialising, todo, status, evaluated>>

LocalPointer(n) ==
    /\ At("decls") /\ "pointer" \in Fragment /\ Affords(1)
    /\ DeclarePointer(n)
    /\ Visit("declarator", n)
    /\ UNCHANGED <<function, unit, identifiers, initialising, todo, status, evaluated>>

\* visit(FunctionDeclarator) for a declaration in a block: it renames the
\* function being generated and its parameters become that function's.
LocalPrototype(g) ==
    /\ At("decls") /\ "prototype" \in Fragment /\ Affords(1)
    /\ function' = [function EXCEPT !.name = g]
    /\ todo' = <<Frame("params")>> \o todo
    /\ Visit("prototype", g)
    /\ UNCHANGED <<unit, scopes, status, evaluated>>

\* visit(InitDeclarator): the declarator, then _initialising, then the
\* initializer.
LocalInitialised(n, type) ==
    /\ At("decls") /\ Affords(2)
    /\ DeclareLocal(n, type)
    /\ function' = EmitInstr(function, Alloca(type))
    /\ initialising' = n
    /\ todo' = <<Frame("init")>> \o todo
    /\ Visit("initDeclarator", n)
    /\ UNCHANGED <<unit, status, evaluated>>

PointerInitialised(n) ==
    /\ At("decls") /\ "pointer" \in Fragment /\ Affords(2)
    /\ DeclarePointer(n)
    /\ initialising' = n
    /\ todo' = <<Frame("init")>> \o todo
    /\ Visit("initDeclarator", n)
    /\ UNCHANGED <<function, unit, identifiers, status, evaluated>>

\* visit(Initializer), an expression or a list, before its store.
InitializerExpression ==
    /\ At("init")
    /\ Continue(<<Child("expr", "unloaded"), Frame("store")>>)
    /\ UNCHANGED <<function, unit, scopes, status, evaluated, source>>

InitializerList(two) ==
    /\ At("init") /\ "braces" \in Fragment /\ Affords(IF two THEN 2 ELSE 1)
    /\ Continue((IF two THEN <<Frame("init")>> ELSE <<>>) \o <<Frame("init"), Frame("store")>>)
    /\ Visit("braces", IF two THEN 2 ELSE 1)
    /\ UNCHANGED <<function, unit, scopes, status, evaluated>>

InitializerStore ==
    /\ At("store") /\ Resolvable(initialising)
    /\ function' = EmitInstr(function,
         Instruction("STORE", "void",
           <<Value("INSTR", LastInstr(function)), ResolveIdentifier(initialising)>>))
    /\ Continue(<<>>)
    /\ UNCHANGED <<unit, scopes, status, evaluated, source>>

InitializerThrows ==
    /\ At("store") /\ ~Resolvable(initialising)
    /\ Stop("threw") /\ UNCHANGED source

EndList ==
    /\ At("params") \/ At("decls") \/ At("stmts")
    /\ Continue(<<>>)
    /\ Note("end", NoName)
    /\ UNCHANGED <<function, unit, scopes, status, evaluated, budget>>

-----------------------------------------------------------------------------
(* Expressions *)

\* Mutant: an address is left as it is.
EvaluateAsRValueUnloaded ==
    /\ At("rvalue") /\ function.instructions # <<>>
    /\ Continue(<<>>)
    /\ UNCHANGED <<function, unit, scopes, status, evaluated, source>>

\* _evaluateAsRValue after the child's visit.
EvaluateAsRValue ==
    /\ At("rvalue") /\ function.instructions # <<>>
    /\ function' =
         IF Instr(function, LastInstr(function)).type = "ptr"
         THEN EmitInstr(function, Instruction("LOAD", toLLVMType(evaluated),
                                              <<Value("INSTR", LastInstr(function))>>))
         ELSE function
    /\ Continue(<<>>)
    /\ UNCHANGED <<unit, scopes, status, evaluated, source>>

\* instructions.at(size() - 1) with no instruction yet.
EvaluateAsRValueThrows ==
    /\ At("rvalue") /\ function.instructions = <<>>
    /\ Stop("threw") /\ UNCHANGED source

\* visit(ListExpression): one element, or two separated by a comma.
ListExpression(two) ==
    /\ At("list")
    /\ two => "list" \in Fragment /\ Affords(1)
    /\ Continue((IF two THEN <<Child("expr", "discarded")>> ELSE <<>>)
                \o <<Child("expr", Head(todo).arg)>>)
    /\ Note("list", IF two THEN 2 ELSE 1)
    /\ UNCHANGED <<function, unit, scopes, status, evaluated, budget>>

Parentheses ==
    /\ At("expr") /\ "list" \in Fragment /\ Affords(1)
    /\ Continue(<<Child("list", Head(todo).arg)>>)
    /\ Visit("paren", NoName)
    /\ UNCHANGED <<function, unit, scopes, status, evaluated>>

\* visit(PrimaryExpression) of an int.
PrimaryExpression(c) ==
    /\ At("expr")
    /\ function' = EmitInstr([function EXCEPT !.consts = Append(@, c)],
         Instruction("ADD", "i32", <<Value("CONST", Len(function.consts)), Value("CONST", 0)>>))
    /\ evaluated' = "int"
    /\ Continue(<<>>)
    /\ Visit("literal", c)
    /\ UNCHANGED <<unit, scopes, status>>

\* visit(IdentifierExpression): SemaVisitor made every identifier an lvalue,
\* so it is the address.
EmitAddress(n) ==
    EmitInstr(function,
      Instruction("ADD", "ptr", <<ResolveIdentifier(n), Value("CONST", 0)>>))

IdentifierExpression(n) ==
    /\ At("lvalue") \/ At("expr")
    /\ At("expr") /\ Head(todo).arg = "unloaded" => "bareIdentifier" \in Fragment
    /\ HasOrd(table, n) /\ Resolvable(n)
    /\ function' = EmitAddress(n)
    /\ evaluated' = GetOrd(table, n).type
    /\ Continue(<<>>)
    /\ Visit("identifier", n)
    /\ UNCHANGED <<unit, scopes, status>>

IdentifierThrows(n) ==
    /\ At("lvalue") \/ At("expr")
    /\ HasOrd(table, n) /\ ~Resolvable(n)
    /\ Visit("identifier", n)
    /\ Stop("threw")

\* A relational, logical, shift, call or increment expression or a double
\* constant, which SemaVisitor types, or one it does not type (a cast, a unary
\* operator, sizeof, ...) where no type is read: visit(Node) emits nothing.
UnhandledExpression(type) ==
    /\ At("expr") /\ "unhandledExpr" \in Fragment
    /\ evaluated' = type
    /\ Continue(<<>>)
    /\ Visit("unhandled", type)
    /\ UNCHANGED <<function, unit, scopes, status>>

\* An untyped right operand, which SemaVisitor accepts under `=` and `==` outside
\* parentheses: behind an address, _evaluateAsRValue dereferences its null type.
UntypedOperand ==
    /\ At("expr") /\ "unhandledExpr" \in Fragment
    /\ LET operator == program[Len(program)]
       IN \/ operator.node = "assign"
          \/ operator.node = "binary" /\ operator.arg \in EqualityOperator
    /\ function.instructions # <<>>
    /\ Instr(function, LastInstr(function)).type = "ptr"
    /\ Visit("unhandled", NoName)
    /\ Stop("crashed")

\* visit(AddMult-, Bitwise-, EqualityExpression): rhs, lhs, instruction.
BinaryExpression(op) ==
    /\ At("expr") /\ Affords(2)
    /\ Continue(<<Child("expr", "rvalue"), Frame("rvalue"), Child("binaryLhs", op)>>)
    /\ Visit("binary", op)
    /\ UNCHANGED <<function, unit, scopes, status, evaluated>>

BinaryLhs ==
    /\ At("binaryLhs")
    /\ Continue(<<Child("expr", "rvalue"), Frame("rvalue"),
                  Resume("binary", Head(todo).arg, evaluated, <<LastInstr(function)>>)>>)
    /\ UNCHANGED <<function, unit, scopes, status, evaluated, source>>

BinaryInstr(op, lhs, rhs, type) ==
    CASE op \in AddMultOperator -> AddMultInstr(op, lhs, rhs, type)
      [] op \in BitwiseOperator -> BitwiseInstr(op, lhs, rhs, type)
      [] OTHER                  -> EqualityInstr(op, lhs, rhs)

FinishBinary ==
    /\ At("binary")
    /\ LET frame == Head(todo)
       IN /\ function' = EmitInstr(function,
               BinaryInstr(frame.arg, LastInstr(function), frame.ids[1], frame.type))
          /\ evaluated' = IF frame.arg \in EqualityOperator THEN "int"
                          ELSE PromotedType(evaluated, frame.type)
    /\ Continue(<<>>)
    /\ UNCHANGED <<unit, scopes, status, source>>

\* visit(AssignmentExpression): rhs, lhs, [operation], store.
AssignmentExpression(op) ==
    /\ At("expr") /\ Affords(2)
    /\ \E n \in Names : HasOrd(table, n)
    /\ Head(todo).arg # "discarded" => "nestedAssign" \in Fragment
    /\ Continue(<<Child("expr", "rvalue"), Frame("rvalue"), Child("assignLhs", op)>>)
    /\ Visit("assign", op)
    /\ UNCHANGED <<function, unit, scopes, status, evaluated>>

AssignmentLhs ==
    /\ At("assignLhs")
    /\ Continue(<<Frame("lvalue"),
                  Resume("assign", Head(todo).arg, evaluated, <<LastInstr(function)>>)>>)
    /\ UNCHANGED <<function, unit, scopes, status, evaluated, source>>

FinishAssignment ==
    /\ At("assign")
    /\ function' = Assign(function, Head(todo).arg, LastInstr(function), Head(todo).ids[1])
    /\ Continue(<<>>)
    /\ UNCHANGED <<unit, scopes, status, evaluated, source>>

-----------------------------------------------------------------------------
(* Statements *)

\* One more element of a statement list.
NextStatement ==
    /\ At("stmts") /\ Affords(1)
    /\ todo' = <<Frame("stmt")>> \o todo
    /\ UNCHANGED <<function, unit, scopes, status, evaluated, source>>

\* visit(CompoundStatement): SemaVisitor opens a scope, the IR generator no
\* identifier layer.
CompoundStatement ==
    /\ At("stmt") /\ "block" \in Fragment
    /\ Continue(<<Frame("decls"), Frame("stmts"), Frame("endScope")>>)
    /\ table' = PushScope(table)
    /\ Visit("compound", NoName)
    /\ UNCHANGED <<function, unit, identifiers, initialising, status, evaluated>>

EndCompound ==
    /\ At("endScope")
    /\ Continue(<<>>)
    /\ table' = PopScope(table)
    /\ UNCHANGED <<function, unit, identifiers, initialising, status, evaluated, source>>

ExpressionStatement ==
    /\ At("stmt") /\ Affords(1)
    /\ Continue(<<Child("list", "discarded")>>)
    /\ Visit("expression", NoName)
    /\ UNCHANGED <<function, unit, scopes, status, evaluated>>

\* visit(ExpressionStatement) dereferences the missing expression of `;`.
EmptyStatement ==
    /\ At("stmt") /\ "empty" \in Fragment
    /\ Visit("empty", NoName)
    /\ Stop("crashed")

UnhandledStatement ==
    /\ At("stmt") /\ "unhandledStmt" \in Fragment
    /\ Continue(<<>>)
    /\ Visit("unhandledStmt", NoName)
    /\ UNCHANGED <<function, unit, scopes, status, evaluated>>

\* Mutant: the condition is not visited.
IfStatementNoCondition ==
    /\ At("stmt") /\ Affords(2)
    /\ Continue(<<Frame("ifThen")>>)
    /\ Visit("if", NoName)
    /\ UNCHANGED <<function, unit, scopes, status, evaluated>>

IfStatement ==
    /\ At("stmt") /\ Affords(2)
    /\ Continue(<<Child("list", "unloaded"), Frame("ifThen")>>)
    /\ Visit("if", NoName)
    /\ UNCHANGED <<function, unit, scopes, status, evaluated>>

IfThen ==
    /\ At("ifThen")
    /\ function' = StartIf(function)
    /\ LET ifID == Len(function.instructions)
       IN Continue(<<Frame("stmt"), Resume("ifElse", "", "void", <<ifID, ifID + 1>>)>>)
    /\ UNCHANGED <<unit, scopes, status, evaluated, source>>

IfElse ==
    /\ At("ifElse") /\ Affords(1)
    /\ LET ids      == Head(todo).ids
           endIndex == Len(function.instructions)
       IN /\ function' = StartElse(EmitInstr(function, JumpEnd), ids[1])
          /\ Continue(<<Frame("stmt"), Resume("ifEnd", "", "void", Append(ids, endIndex))>>)
    /\ Note("else", NoName)
    /\ UNCHANGED <<unit, scopes, status, evaluated, budget>>

IfWithoutElse ==
    /\ At("ifElse")
    /\ LET ids      == Head(todo).ids
           endIndex == Len(function.instructions)
       IN function' = EndIf(EmitInstr(function, JumpEnd), ids[1], ids[2], endIndex)
    /\ Continue(<<>>)
    /\ Note("end", NoName)
    /\ UNCHANGED <<unit, scopes, status, evaluated, budget>>

IfEnd ==
    /\ At("ifEnd")
    /\ LET ids == Head(todo).ids
       IN function' = EndIf(function, ids[1], ids[2], ids[3])
    /\ Continue(<<>>)
    /\ UNCHANGED <<unit, scopes, status, evaluated, source>>

ReturnExpression ==
    /\ At("stmt") /\ Affords(1)
    /\ Continue(<<Child("list", "rvalue"), Frame("rvalue"), Frame("return")>>)
    /\ Visit("return", NoName)
    /\ UNCHANGED <<function, unit, scopes, status, evaluated>>

FinishReturn ==
    /\ At("return")
    /\ function' = EmitInstr(function,
         Instruction("RET", toLLVMType(evaluated), <<Value("INSTR", LastInstr(function))>>))
    /\ Continue(<<>>)
    /\ UNCHANGED <<unit, scopes, status, evaluated, source>>

ReturnVoid ==
    /\ At("stmt") /\ "voidReturn" \in Fragment
    /\ function' = EmitInstr(function, Instruction("RET", "void", <<>>))
    /\ Continue(<<>>)
    /\ Visit("returnVoid", NoName)
    /\ UNCHANGED <<unit, scopes, status, evaluated>>

-----------------------------------------------------------------------------
Init ==
    /\ function = NoFunction /\ global = <<>>
    /\ module = [functions |-> <<>>, globals |-> <<>>]
    /\ identifiers = <<>> /\ initialising = NoName
    /\ todo = <<>> /\ status = "visiting"
    /\ table = NewTable /\ evaluated = "void"
    /\ program = <<>> /\ budget = MaxNodes

External ==
    \/ GlobalDeclaration
    \/ \E n \in VarNames, t \in VarTypes : GlobalIdentifier(n, t)
    \/ \E n \in PtrNames : GlobalPointer(n)
    \/ \E n \in VarNames : GlobalInitialised(n)
    \/ EndGlobal
    \/ \E g \in FuncNames, pointer \in BOOLEAN : FunctionDefinition(g, pointer)
    \/ EndFunction
    \/ EndUnit

Declarations ==
    \/ \E n \in VarNames, t \in VarTypes :
          ParameterIdentifier(n, t) \/ LocalIdentifier(n, t) \/ LocalInitialised(n, t)
    \/ \E n \in PtrNames :
          ParameterPointer(n) \/ LocalPointer(n) \/ PointerInitialised(n)
    \/ ParameterAbstract
    \/ \E g \in FuncNames : LocalPrototype(g)
    \/ InitializerExpression
    \/ \E two \in BOOLEAN : InitializerList(two)
    \/ InitializerStore
    \/ InitializerThrows
    \/ EndList

Expressions ==
    \/ EvaluateAsRValue \/ EvaluateAsRValueThrows
    \/ \E two \in BOOLEAN : ListExpression(two)
    \/ Parentheses
    \/ \E c \in Literals : PrimaryExpression(c)
    \/ \E n \in Names : IdentifierExpression(n) \/ IdentifierThrows(n)
    \/ \E t \in {"int", "double"} : UnhandledExpression(t)
    \/ UntypedOperand
    \/ \E op \in Operators \cap BinaryOperator : BinaryExpression(op)
    \/ BinaryLhs \/ FinishBinary
    \/ \E op \in Operators \cap AssignmentOperator : AssignmentExpression(op)
    \/ AssignmentLhs \/ FinishAssignment

Statements ==
    \/ NextStatement
    \/ CompoundStatement \/ EndCompound
    \/ ExpressionStatement \/ EmptyStatement \/ UnhandledStatement
    \/ IfStatement \/ IfThen \/ IfElse \/ IfWithoutElse \/ IfEnd
    \/ ReturnExpression \/ FinishReturn \/ ReturnVoid

\* The walk has ended: the process goes on with the emitters, or is gone.
Ended == status # "visiting" /\ UNCHANGED vars

Next == External \/ Declarations \/ Expressions \/ Statements \/ Ended
Spec == Init /\ [][Next]_vars
=============================================================================
