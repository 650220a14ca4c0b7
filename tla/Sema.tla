------------------------------- MODULE Sema -------------------------------
(***************************************************************************)
(* SemaVisitor: the walk over the AST that declares names, resolves them   *)
(* and types expressions.  It rejects a program by throwing.               *)
(*                                                                         *)
(* As in IRGen, `todo` is the visitor's call stack, a frame is a child to  *)
(* visit or a suspended visit(), and the AST is chosen while it is walked, *)
(* within the grammar of parser.y.  Beside the visitor's own state the     *)
(* module keeps what C says of the same program, from the program alone:   *)
(* the frame of a declarator carries the type that C gives it, `cScopes`   *)
(* is C's own scopes and `cType` C's type of the latest declarator.        *)
(*                                                                         *)
(* Every node without a handler in SemaVisitor is walked by                *)
(* RecursiveVisitor.                                                       *)
(***************************************************************************)
EXTENDS SymbolTable, SequencesExt, FiniteSets

CONSTANTS
    Names,          \* the identifiers of programs
    SpecifierLists, \* lists of type specifiers, as written
    Constructs,     \* the nodes programs may have (see Construct)
    MaxNodes        \* bound on the nodes of a program

NoName == "no name"

BasicKind == {"void", "char", "short", "int", "long", "float", "double"}
Specifier == BasicKind \cup {"signed", "unsigned"}

Construct ==
    {"fileScope", "prototype", "functionPointer", "implicitInt", "kAndR",
     "several", "noDeclarator", "typedef", "struct", "enum", "bitfield",
     "pointer", "array", "unsized", "parameter", "abstract", "initializer", "braces",
     "identifier", "int", "double", "string", "parenthesis", "comma", "call", "noArguments",
     "index", "member", "postfix", "prefix", "unary", "sizeof", "sizeofType",
     "cast", "arithmetic", "shift", "comparison", "bitwise", "logical",
     "conditional", "assignment",
     "block", "expression", "empty", "if", "else", "while", "doWhile", "for",
     "label", "case", "default", "switch", "return", "returnValue", "jump"}

ASSUME NamesAssumption == NoName \notin Names
ASSUME SpecifiersAssumption == SpecifierLists \subseteq Seq(Specifier)
ASSUME BoundAssumption == MaxNodes \in Nat /\ Constructs \subseteq Construct

VARIABLES
    table,    \* _table: the scopes, outermost first
    curType,  \* _curType
    mailbox,  \* _lastConstVal, <<>> for nullopt
    result,   \* what visiting the last expression wrote into its node
    todo,     \* the call stack
    status,   \* "visiting", "accepted", "rejected" or "crashed"
    cScopes,  \* C's scopes
    cType,    \* C's type for what the latest declarator declared
    budget    \* how many more nodes the program may have

vars == <<table, curType, mailbox, result, todo, status, cScopes, cType, budget>>

-----------------------------------------------------------------------------
(* Types.  The size of an array is left out. *)

Basic(kind, unsigned) ==
    [data |-> "basic", kind |-> kind, unsigned |-> unsigned, isConst |-> FALSE]
Pointer(type) == [data |-> "pointer", of |-> type, isConst |-> FALSE]
Array(type) == [data |-> "array", of |-> type, isConst |-> FALSE]
Func(type, params) ==
    [data |-> "func", of |-> type, params |-> params, isConst |-> FALSE]
NoType == [data |-> "null"]            \* an empty shared_ptr
StructType == [data |-> "struct", isConst |-> FALSE]
VoidType == Basic("void", FALSE)       \* Type{}
IntType == Basic("int", FALSE)
DoubleType == Basic("double", FALSE)

\* visitVal(TypeSpecifier)
SpecifyType(specifier, type) ==
    LET basic == IF type.data = "basic" THEN type
                 ELSE [VoidType EXCEPT !.isConst = type.isConst]
    IN CASE specifier = "signed" -> [basic EXCEPT !.unsigned = FALSE]
         [] specifier = "unsigned" -> [basic EXCEPT !.unsigned = TRUE]
         [] OTHER -> [basic EXCEPT !.kind = specifier]

\* The parser lists the specifiers last one first.
Specify(list, type) == FoldRight(SpecifyType, list, type)

\* What C makes of the list: the order does not matter.
CType(list) ==
    LET S == ToSet(list)
        Is(kind) == kind \in S
    IN Basic(IF Is("double") THEN "double"
             ELSE IF S \cap {"void", "char", "short", "long", "float"} # {}
             THEN CHOOSE k \in S : k \in {"void", "char", "short", "long", "float"}
             ELSE "int", Is("unsigned"))

Rank == [void |-> -1, char |-> 1, short |-> 2, int |-> 3, long |-> 4,
         float |-> 5, double |-> 6]
PromotedType(lhs, rhs) == IF Rank[lhs.kind] >= Rank[rhs.kind] THEN lhs ELSE rhs

-----------------------------------------------------------------------------
(* Constants and what an expression evaluates to *)

\* A literal is known by its place in the program (see Symbol), not its value.
Constant(isInt) == <<[isInt |-> isInt, id |-> budget]>>
NoConstant == <<>>

\* getEvaluatedType(), isLvalue()
Result(type, lvalue) == [type |-> type, lvalue |-> lvalue]
Rvalue(type) == Result(type, FALSE)
Untyped == Rvalue(NoType)

-----------------------------------------------------------------------------
(* The call stack *)

\* at: the child to visit or the place to resume; arg: a name, a level, an
\* operator or a count; saved: the locals of a suspended visit.
Resume(at, arg, saved) == [at |-> at, arg |-> arg, saved |-> saved]
Frame(at) == Resume(at, NoName, NoType)
\* A declarator of n; type: C's type for what it declares, from the outside.
Declarator(n, role, type) == Resume("declarator", n, [role |-> role, type |-> type])
Level == [postfix |-> 1, unary |-> 2, cast |-> 3, arithmetic |-> 4, shift |-> 5,
          comparison |-> 6, bitwise |-> 7, logical |-> 8, conditional |-> 9,
          assignment |-> 10]
\* An expression of one of the grammar's rules up to this one.
Expr(rule) == Resume("expr", Level[rule], NoType)

\* Frames that stand for at least one node still to be chosen.
Owing == {"expr", "list", "constant", "initializer", "stmt", "parameter", "member",
          "rightSide", "callee"}
Owed(stack) == Cardinality({i \in DOMAIN stack : stack[i].at \in Owing})

At(place) == status = "visiting" /\ todo # <<>> /\ Head(todo).at = place
Rest == IF todo = <<>> THEN <<>> ELSE Tail(todo)
\* Replace the head; cost: the nodes chosen by doing so.
Visit(frames, cost) ==
    /\ budget - cost >= Owed(frames \o Rest)
    /\ todo' = frames \o Rest
    /\ budget' = budget - cost
Continue(frames) == Visit(frames, 0)
state == <<table, curType, mailbox, result, cScopes, cType>>
\* ... and nothing else happens.
Proceed(frames) == Continue(frames) /\ UNCHANGED <<state, status>>
Enter(frames) == Visit(frames, 1) /\ UNCHANGED <<state, status>>
Uses(construct) == construct \in Constructs
Stop(how) ==
    /\ status' = how
    /\ UNCHANGED <<state, todo, budget>>
Reject == Stop("rejected")  \* an exception
Crash == Stop("crashed")    \* a null pointer is dereferenced, or assert(false)
Outside == status = "visiting" /\ todo = <<>>

-----------------------------------------------------------------------------
(* Names *)

Symbol(kind, type) == [id |-> budget, kind |-> kind, type |-> type]
InC(n) == HasOrd(cScopes, n)
IsTypeName(n) == InC(n) /\ GetOrd(cScopes, n).kind = "typedef"
\* The lexer takes n for an identifier, and C allows to declare it here.
Declarable(n) == n \notin DOMAIN cScopes[Len(cScopes)] /\ ~IsTypeName(n)

-----------------------------------------------------------------------------
(* Specifiers.  A qualifier is lost: the parser's rules for it build no    *)
(* node, and no visitor asks for the list it would be in.                  *)

\* `struct {...}`, which needs a name for a member, `struct tag`, `enum`.
TagForms ==
    (IF Uses("struct") THEN {"tag"} ELSE {})
    \cup (IF Uses("struct") /\ \E n \in Names : ~IsTypeName(n) THEN {"struct"} ELSE {})
    \cup (IF Uses("enum") THEN {"enum"} ELSE {})
Specification ==
    [form : {"list"}, list : SpecifierLists, name : {NoName}]
    \cup [form : {"typeName"}, list : {<<>>}, name : {n \in Names : IsTypeName(n)}]
    \cup [form : TagForms, list : {<<>>}, name : {NoName}]

\* C's type for the specifiers.
Meant(spec) ==
    CASE spec.form = "list" -> CType(spec.list)
      [] spec.form = "typeName" -> GetOrd(cScopes, spec.name).type
      [] spec.form \in {"struct", "tag"} -> StructType
      [] spec.form = "enum" -> IntType

\* _curType = Type{}, then the type specifiers; a type name has no effect.
Specified(spec) == Specify(spec.list, VoidType)
SpecifierFrames(spec) ==
    CASE spec.form = "struct" -> <<Frame("member")>>
      [] spec.form = "enum" -> <<Frame("enumerators")>>
      [] OTHER -> <<>>

\* visit(StructDeclaration): a member is declared like a variable.
Member(n, list, bits) ==
    /\ At("member")
    /\ ~IsTypeName(n)
    /\ curType' = Specify(list, curType)
    /\ Visit(<<Declarator(n, "member", CType(list))>>
             \o (IF bits THEN <<Frame("constant")>> ELSE <<>>)
             \o <<Frame("moreMembers")>>, 1)
    /\ UNCHANGED <<table, mailbox, result, cScopes, cType, status>>

MoreMembers(more) ==
    /\ At("moreMembers")
    /\ Proceed(IF more THEN <<Frame("member")>> ELSE <<>>)

\* visit(EnumSpecifier) visits the values; the names are declared nowhere.
Enumerators(valued) ==
    /\ At("enumerators")
    /\ Proceed(IF valued THEN <<Frame("constant")>> ELSE <<>>)

\* visit(TypeName) of a cast or sizeof: _curType is not reset.
TypeName(list) ==
    /\ At("typeName")
    /\ curType' = Specify(list, curType)
    /\ Continue(<<Declarator(NoName, "typeName", CType(list))>>)
    /\ UNCHANGED <<table, mailbox, result, cScopes, cType, status>>

-----------------------------------------------------------------------------
(* Declarations *)

\* The frames for declarator, or declarator = initializer.
InitDeclarator(n, role, type, initialised) ==
    <<Declarator(n, role, type)>> \o
    (IF initialised THEN <<Frame("initializer"), Resume("initDeclarator", n, NoType)>>
     ELSE <<>>)
Role == {"variable"} \cup ({"typedef"} \cap Constructs)
Initialised(role) == {FALSE, Uses("initializer") /\ role = "variable"}

\* visit(Declaration); after: what the list it is in goes on with.
VisitDeclaration(n, role, spec, after) ==
    /\ Declarable(n)
    /\ curType' = Specified(spec)
    /\ \E initialised \in Initialised(role) :
         Visit(SpecifierFrames(spec)
               \o InitDeclarator(n, role, Meant(spec), initialised)
               \o (IF Uses("several") THEN <<Resume("moreDeclarators", role, Meant(spec))>>
                   ELSE <<>>) \o after, 1)
    /\ UNCHANGED <<table, mailbox, result, cScopes, cType, status>>

FileDeclaration(n, role, spec) ==
    Outside /\ Uses("fileScope") /\ VisitDeclaration(n, role, spec, <<>>)
BlockDeclaration(n, role, spec) ==
    At("declarations") /\ VisitDeclaration(n, role, spec, <<Frame("declarations")>>)

\* `int;`, or a name that is already a type: getDeclarators() is null.
NoDeclarators ==
    (Outside \/ At("declarations")) /\ Uses("noDeclarator") /\ Crash

EndDeclarations ==
    /\ At("declarations")
    /\ Proceed(<<>>)

\* The next declarator finds _curType as the previous one left it.
NextDeclarator(n) ==
    /\ At("moreDeclarators")
    /\ Declarable(n)
    /\ \E initialised \in Initialised(Head(todo).arg) :
         Enter(InitDeclarator(n, Head(todo).arg, Head(todo).saved, initialised)
               \o <<Head(todo)>>)
EndDeclarators ==
    /\ At("moreDeclarators")
    /\ Proceed(<<>>)

\* visit(InitDeclarator) looks the name up again to annotate the node.
InitDeclaratorEnd ==
    /\ At("initDeclarator")
    /\ IF HasOrd(table, Head(todo).arg)
       THEN Proceed(<<>>)
       ELSE Reject

\* visit(Initializer): an expression, or a list of initializers in braces.
Initializer ==
    /\ At("initializer")
    /\ \/ Proceed(<<Expr("assignment")>>)
       \/ Uses("braces") /\ Enter(<<Frame("initializer"), Frame("moreInitializers")>>)
MoreInitializers(more) ==
    /\ At("moreInitializers")
    /\ Proceed(IF more THEN <<Frame("initializer"), Frame("moreInitializers")>> ELSE <<>>)

-----------------------------------------------------------------------------
(* Declarators.  The visitor goes from the outermost inwards with _curType *)
(* the type so far.                                                        *)

Inside == Head(todo).saved.type
WithRole(role) == At("declarator") /\ Head(todo).saved.role = role
Named == Head(todo).arg # NoName

CKind(role) == IF role = "typedef" THEN "typedef" ELSE "variable"
\* C's type for what a declarator declares, inside of which it is type: a
\* parameter that is an array or a function is a pointer.
Declared(role, type) ==
    IF role # "parameter" THEN type
    ELSE CASE type.data = "array" -> Pointer(type.of)
           [] type.data = "func" -> Pointer(type)
           [] OTHER -> type
\* Members have a name space of their own.
DeclareInC(n, role, symbol) ==
    IF role = "member" THEN cScopes ELSE AddToScope(cScopes, n, symbol)

IdentifierDeclarator ==
    /\ At("declarator") /\ Named /\ Head(todo).saved.role # "definition"
    /\ table' = AddToScope(table, Head(todo).arg, Symbol("variable", curType))
    /\ cType' = Declared(Head(todo).saved.role, Inside)
    /\ cScopes' = DeclareInC(Head(todo).arg, Head(todo).saved.role,
                             Symbol(CKind(Head(todo).saved.role), cType'))
    /\ Continue(<<>>)
    /\ UNCHANGED <<curType, mailbox, result, status>>

\* No declarator, or the missing child of an abstract one.  In C, `(void)`
\* declares no parameter.
NoIdentifier ==
    /\ At("declarator") /\ ~Named
    /\ cType' = IF Inside = VoidType THEN NoType ELSE Declared(Head(todo).saved.role, Inside)
    /\ Continue(<<>>)
    /\ UNCHANGED <<table, curType, mailbox, result, cScopes, status>>

PointerDeclarator ==
    /\ At("declarator") /\ Uses("pointer")
    /\ curType' = Pointer(curType)
    /\ Visit(<<Declarator(Head(todo).arg, Head(todo).saved.role, Pointer(Inside)),
               Resume("pointerDeclarator", NoName, curType)>>, 1)
    /\ UNCHANGED <<table, mailbox, result, cScopes, cType, status>>
\* Mutant: _curType stays the pointer.
PointerDeclaratorEndKeeps ==
    /\ At("pointerDeclarator")
    /\ Proceed(<<>>)
PointerDeclaratorEnd ==
    /\ At("pointerDeclarator")
    /\ curType' = Head(todo).saved
    /\ Continue(<<>>)
    /\ UNCHANGED <<table, mailbox, result, cScopes, cType, status>>

\* The base is visited before _curType becomes the array.
ArrayDeclarator ==
    /\ At("declarator") /\ Uses("array") /\ ~WithRole("definition")
    /\ Enter(<<Declarator(Head(todo).arg, Head(todo).saved.role, Array(Inside)),
               Frame("constant"), Frame("arrayDeclarator")>>)
\* Here the mailbox still holds getConstVal() of the size.
ArrayDeclaratorEnd ==
    /\ At("arrayDeclarator")
    /\ IF mailbox[1].isInt
       THEN /\ curType' = Array(curType)
            /\ Continue(<<>>)
            /\ UNCHANGED <<table, mailbox, result, cScopes, cType, status>>
       ELSE Reject
\* `int a[]`: getExpr() is null.
UnsizedArray == At("declarator") /\ Uses("unsized") /\ ~WithRole("definition") /\ Crash

\* visit(FunctionDeclarator).  pointer: the base is a pointer declarator
\* around the name; the base is not visited.  C opens a prototype scope, but
\* that of a definition is the body's.
FunctionDeclarator(pointer, params) ==
    /\ At("declarator")
    /\ \/ WithRole("definition") /\ ~pointer
       \/ ~WithRole("definition") /\ Uses(IF pointer THEN "functionPointer" ELSE "prototype")
    /\ params => Uses("parameter") /\ \E n \in Names : ~IsTypeName(n)
    /\ LET call == [of |-> curType, params |-> <<>>, pointer |-> pointer,
                    role |-> Head(todo).saved.role, meant |-> Inside, meantParams |-> <<>>]
       IN Continue(<<Resume(IF params THEN "parameter" ELSE "functionDeclarator",
                            Head(todo).arg, call)>>)
    /\ cScopes' = IF WithRole("definition") THEN cScopes ELSE PushScope(cScopes)
    /\ UNCHANGED <<table, curType, mailbox, result, cType, status>>
KAndRDeclarator == At("declarator") /\ Uses("kAndR") /\ Reject

\* visit(ParameterDeclaration); n is NoName if the parameter has no name.
ParameterDeclaration(n, spec) ==
    /\ At("parameter")
    /\ IF n = NoName THEN Uses("abstract") ELSE Declarable(n)
    /\ curType' = Specified(spec)
    /\ Visit(SpecifierFrames(spec)
             \o <<Declarator(n, "parameter", Meant(spec)),
                  [Head(todo) EXCEPT !.at = "parameterEnd"]>>, 1)
    /\ UNCHANGED <<table, mailbox, result, cScopes, cType, status>>

\* params.push_back(_curType), which is the type of the specifiers again if
\* the parameter is a pointer; and another parameter or the end.
ParameterDeclarationEnd(more) ==
    /\ At("parameterEnd")
    /\ more => Uses("abstract") \/ \E n \in Names : Declarable(n)
    /\ Proceed(<<[Head(todo) EXCEPT
                     !.at = IF more THEN "parameter" ELSE "functionDeclarator",
                     !.saved.params = Append(@, curType),
                     !.saved.meantParams = IF cType = NoType THEN @ ELSE Append(@, cType)]>>)

\* Mutant: the symbol has the type that the function returns.
FunctionSymbolOfReturn(call) == Symbol("function", call.of)
FunctionSymbol(call) == Symbol("function", Func(call.of, call.params))
\* The end of visit(FunctionDeclarator): addToParentScope(), whose .at()
\* throws when there is only the global scope.  Without a name to add,
\* getIdentifier() fails first.
FunctionDeclaratorEnd ==
    /\ At("functionDeclarator")
    /\ LET n == Head(todo).arg
           call == Head(todo).saved
           func == Func(call.meant, call.meantParams)
           meant == Declared(call.role, IF call.pointer THEN Pointer(func) ELSE func)
           kind == IF call.role = "typedef" THEN "typedef"
                   ELSE IF meant = func THEN "function" ELSE "variable"
       IN IF n = NoName /\ ~call.pointer THEN Crash
          ELSE IF n = NoName \/ Len(table) < 2 THEN Reject
          ELSE /\ table' = AddToParentScope(table, n, FunctionSymbol(call))
               /\ cScopes' =
                    IF call.role = "definition"
                    THEN AddToParentScope(cScopes, n, Symbol("function", meant))
                    ELSE IF call.role = "member" THEN PopScope(cScopes)
                    ELSE AddToScope(PopScope(cScopes), n, Symbol(kind, meant))
               /\ cType' = meant
               /\ Continue(<<>>)
               /\ UNCHANGED <<curType, mailbox, result, status>>

-----------------------------------------------------------------------------
(* Functions and blocks *)

\* visit(FunctionDefinition) up to its declarator.
FunctionDefinition(n, spec) ==
    /\ Outside
    /\ Declarable(n)
    /\ curType' = Specified(spec)
    /\ table' = PushScope(table)
    /\ cScopes' = PushScope(cScopes)
    /\ Visit(SpecifierFrames(spec)
             \o <<Declarator(n, "definition", Meant(spec)), Frame("declarations"),
                  Frame("statements"), Resume("functionDefinition", n, NoType)>>, 1)
    /\ UNCHANGED <<mailbox, result, cType, status>>
\* `f() {}`: getSpecifiers() is null.
ImplicitInt == Outside /\ Uses("implicitInt") /\ Crash

\* The end of visit(FunctionDefinition); std::get throws for a variable.
FunctionDefinitionEnd ==
    /\ At("functionDefinition")
    /\ LET outer == PopScope(table)
           n == Head(todo).arg
       IN IF HasOrd(outer, n) /\ GetOrd(outer, n).kind = "function"
          THEN /\ table' = outer
               /\ cScopes' = PopScope(cScopes)
               /\ Continue(<<>>)
               /\ UNCHANGED <<curType, mailbox, result, cType, status>>
          ELSE Reject

\* visit(CompoundStatement)
CompoundStatement ==
    /\ At("stmt") /\ Uses("block")
    /\ table' = PushScope(table)
    /\ cScopes' = PushScope(cScopes)
    /\ Visit(<<Frame("declarations"), Frame("statements"), Frame("compound")>>, 1)
    /\ UNCHANGED <<curType, mailbox, result, cType, status>>
\* Mutant: the scope of the block stays open.
CompoundStatementEndOpen ==
    /\ At("compound")
    /\ cScopes' = PopScope(cScopes)
    /\ Continue(<<>>)
    /\ UNCHANGED <<table, curType, mailbox, result, cType, status>>
CompoundStatementEnd ==
    /\ At("compound")
    /\ table' = PopScope(table)
    /\ cScopes' = PopScope(cScopes)
    /\ Continue(<<>>)
    /\ UNCHANGED <<curType, mailbox, result, cType, status>>

Statements(more) ==
    /\ At("statements")
    /\ Proceed(IF more THEN <<Frame("stmt"), Frame("statements")>> ELSE <<>>)

\* The children of the other statements, in the order RecursiveVisitor visits
\* them.
StatementChildren ==
    [expression |-> <<Frame("list")>>, empty |-> <<>>,
     if |-> <<Frame("list"), Frame("stmt")>>,
     else |-> <<Frame("list"), Frame("stmt"), Frame("stmt")>>,
     label |-> <<Frame("stmt")>>, case |-> <<Frame("constant"), Frame("stmt")>>,
     default |-> <<Frame("stmt")>>, switch |-> <<Frame("list"), Frame("stmt")>>,
     return |-> <<>>, returnValue |-> <<Frame("list")>>, jump |-> <<>>]
Statement(kind) ==
    /\ At("stmt") /\ Uses(kind)
    /\ Enter(StatementChildren[kind])

\* visit(IterationStatement): getCondExpr() returns the initialisation, which
\* `while` does not have and `for` visits twice (the second time changes
\* nothing).  No condition is visited.
LoopChildren == [while |-> <<Frame("stmt")>>, doWhile |-> <<Frame("stmt")>>,
                 for |-> <<Frame("stmt"), Frame("list"), Frame("list")>>]
IterationStatement(kind) ==
    /\ At("stmt") /\ Uses(kind)
    /\ Enter(LoopChildren[kind])

-----------------------------------------------------------------------------
(* Expressions *)

AtLevel(rule) == At("expr") /\ Head(todo).arg >= Level[rule]
Yield(value) ==
    /\ result' = value
    /\ Continue(<<>>)
    /\ UNCHANGED <<table, curType, mailbox, cScopes, cType, status>>

\* visit(IdentifierExpression)
IdentifierExpression(n) ==
    /\ AtLevel("postfix") /\ Uses("identifier")
    /\ ~IsTypeName(n)
    /\ IF HasOrd(table, n)
       THEN /\ result' = Result(GetOrd(table, n).type, TRUE)
            /\ Visit(<<>>, 1)
            /\ UNCHANGED <<table, curType, mailbox, cScopes, cType, status>>
       ELSE Reject

\* visit(PrimaryExpression)
PrimaryExpression(isInt) ==
    /\ AtLevel("postfix") /\ Uses(IF isInt THEN "int" ELSE "double")
    /\ mailbox' = Constant(isInt)
    /\ result' = Rvalue(IF isInt THEN IntType ELSE DoubleType)
    /\ Visit(<<>>, 1)
    /\ UNCHANGED <<table, curType, cScopes, cType, status>>
StringLiteral == AtLevel("postfix") /\ Uses("string") /\ Crash

\* visit(ListExpression): parentheses and commas, and every full expression.
Parenthesis ==
    /\ AtLevel("postfix") /\ Uses("parenthesis")
    /\ Enter(<<Frame("list")>>)
ListExpression ==
    /\ At("list")
    /\ Proceed(<<Expr("assignment"), Frame("listRest")>>)
NextInList ==
    /\ At("listRest") /\ Uses("comma")
    /\ Proceed(<<Expr("assignment"), Frame("listRest")>>)
ListExpressionEnd ==
    /\ At("listRest")
    /\ IF result.type = NoType THEN Reject
       ELSE Yield(Rvalue(result.type))

\* visitBinarySides(): the left side, the right side, then the node's type.
BinaryOperator == {"arithmetic", "shift", "comparison", "bitwise", "logical", "assignment"}
LeftRule(op) == IF op = "assignment" THEN "unary" ELSE op
RightLevel(op) == IF op = "assignment" THEN Level[op] ELSE Level[op] - 1

BinaryExpression(op) ==
    /\ AtLevel(op) /\ Uses(op)
    /\ Enter(<<Expr(LeftRule(op)), Resume("rightSide", op, NoType)>>)
BinaryRightSide ==
    /\ At("rightSide")
    /\ Proceed(<<Resume("expr", RightLevel(Head(todo).arg), NoType),
                  Resume(Head(todo).arg, NoName, result)>>)

IsBasic(type) == type.data = "basic"
\* AddMultExpression, BitwiseExpression: getPromotedType() of both sides.
PromotedExpression(op) ==
    /\ At(op)
    /\ LET lhs == Head(todo).saved.type
       IN IF lhs = NoType \/ result.type = NoType THEN Crash
          ELSE IF ~IsBasic(lhs) \/ ~IsBasic(result.type) THEN Reject
          ELSE Yield(Rvalue(PromotedType(lhs, result.type)))
\* ShiftExpression has the type of its left side.
ShiftExpression ==
    /\ At("shift")
    /\ Yield(Rvalue(Head(todo).saved.type))
\* EqualityExpression, RelationalExpression, LogicalExpression
IntExpression(op) ==
    /\ At(op)
    /\ Yield(Rvalue(IntType))
\* visit(AssignmentExpression)
AssignmentExpression ==
    /\ At("assignment")
    /\ LET lhs == Head(todo).saved
       IN IF ~lhs.lvalue \/ lhs.type.isConst THEN Reject
          ELSE Yield(Rvalue(lhs.type))

\* visit(IncDecExpression)
IncDecExpression(prefix) ==
    /\ AtLevel(IF prefix THEN "unary" ELSE "postfix")
    /\ Uses(IF prefix THEN "prefix" ELSE "postfix")
    /\ Enter(<<Expr(IF prefix THEN "unary" ELSE "postfix"), Frame("incDec")>>)
\* Mutant: the node is left without a type.
IncDecExpressionEndUntyped ==
    /\ At("incDec")
    /\ Yield(Untyped)
IncDecExpressionEnd ==
    /\ At("incDec")
    /\ Yield(Rvalue(result.type))

\* Expressions without a handler: RecursiveVisitor visits the children and
\* the node keeps no type.
UntypedChildren ==
    [index |-> <<Frame("list"), Expr("postfix")>>, member |-> <<Expr("postfix")>>,
     unary |-> <<Expr("cast")>>, sizeof |-> <<Expr("unary")>>,
     sizeofType |-> <<Frame("typeName")>>,
     cast |-> <<Expr("cast"), Frame("typeName")>>,
     conditional |-> <<Expr("logical"), Frame("list"), Expr("conditional")>>]
UntypedRule == [index |-> "postfix", member |-> "postfix", unary |-> "unary",
                sizeof |-> "unary", sizeofType |-> "unary", cast |-> "cast",
                conditional |-> "conditional"]
UntypedExpression(kind) ==
    /\ AtLevel(UntypedRule[kind]) /\ Uses(kind)
    /\ Enter(UntypedChildren[kind] \o <<Frame("untyped")>>)
UntypedExpressionEnd ==
    /\ At("untyped")
    /\ Yield(Untyped)

\* visit(FunctionCallExpression)
FunctionCallExpression ==
    /\ AtLevel("postfix") /\ Uses("call")
    /\ Enter(<<Expr("postfix"), Frame("callee")>>)
Callee ==
    /\ At("callee")
    /\ IF result.type = NoType THEN Crash
       ELSE IF result.type.data # "func" THEN Reject
       ELSE \/ Proceed(<<Expr("assignment"), Resume("arguments", 1, result.type)>>)
            \/ /\ Uses("noArguments") \/ result.type.params = <<>>
               /\ Proceed(<<Resume("call", 0, result.type)>>)
NextArgument ==
    /\ At("arguments")
    /\ Proceed(<<Expr("assignment"), [Head(todo) EXCEPT !.arg = @ + 1]>>)
LastArgument ==
    /\ At("arguments")
    /\ Proceed(<<[Head(todo) EXCEPT !.at = "call"]>>)
\* The message about the wrong number asks getArgs(), null if there are none.
FunctionCallExpressionEnd ==
    /\ At("call")
    /\ LET passed == Head(todo).arg
           type == Head(todo).saved
       IN IF passed = Len(type.params)
          THEN Yield(Rvalue(type.of))
          ELSE IF passed = 0 THEN Crash ELSE Reject

\* visit(ConstantExpression): the constant that any expression inside left in
\* the mailbox last is taken for the value of the whole.
\* Mutant: the mailbox is not emptied.
ConstantExpressionStale ==
    /\ At("constant")
    /\ Proceed(<<Expr("conditional"), Resume("constantExpression", budget, NoType)>>)
ConstantExpression ==
    /\ At("constant")
    /\ mailbox' = NoConstant
    /\ Continue(<<Expr("conditional"), Resume("constantExpression", budget, NoType)>>)
    /\ UNCHANGED <<table, curType, result, cScopes, cType, status>>
ConstantExpressionEnd ==
    /\ At("constantExpression")
    /\ IF mailbox = NoConstant THEN Reject
       ELSE Yield(Rvalue(result.type))

-----------------------------------------------------------------------------
EndUnit ==
    /\ Outside
    /\ status' = "accepted"
    /\ UNCHANGED <<table, curType, mailbox, result, todo, cScopes, cType, budget>>

Finished == status # "visiting" /\ UNCHANGED vars

Init ==
    /\ table = NewTable /\ cScopes = NewTable
    /\ curType = VoidType /\ mailbox = NoConstant /\ result = Untyped
    /\ cType = VoidType /\ todo = <<>> /\ status = "visiting"
    /\ budget = MaxNodes

NextInDeclaration ==
    \/ \E n \in Names, role \in Role, spec \in Specification :
          FileDeclaration(n, role, spec) \/ BlockDeclaration(n, role, spec)
    \/ \E n \in Names \cup {NoName}, spec \in Specification : ParameterDeclaration(n, spec)
    \/ \E n \in Names, list \in SpecifierLists, bits \in {FALSE, Uses("bitfield")} :
          Member(n, list, bits)
    \/ \E n \in Names : NextDeclarator(n)
    \/ \E list \in SpecifierLists : TypeName(list)
    \/ \E more \in BOOLEAN :
          MoreMembers(more) \/ MoreInitializers(more) \/ ParameterDeclarationEnd(more)
    \/ \E valued \in BOOLEAN : Enumerators(valued)
    \/ NoDeclarators \/ EndDeclarations \/ EndDeclarators
    \/ Initializer \/ InitDeclaratorEnd

NextInDeclarator ==
    \/ IdentifierDeclarator \/ NoIdentifier
    \/ PointerDeclarator \/ PointerDeclaratorEnd
    \/ ArrayDeclarator \/ ArrayDeclaratorEnd \/ UnsizedArray
    \/ \E pointer, params \in BOOLEAN : FunctionDeclarator(pointer, params)
    \/ KAndRDeclarator \/ FunctionDeclaratorEnd

NextInStatement ==
    \/ \E n \in Names, spec \in Specification : FunctionDefinition(n, spec)
    \/ ImplicitInt \/ FunctionDefinitionEnd
    \/ CompoundStatement \/ CompoundStatementEnd
    \/ \E more \in BOOLEAN : Statements(more)
    \/ \E kind \in DOMAIN StatementChildren : Statement(kind)
    \/ \E kind \in DOMAIN LoopChildren : IterationStatement(kind)

NextInExpression ==
    \/ \E n \in Names : IdentifierExpression(n)
    \/ \E isInt \in BOOLEAN : PrimaryExpression(isInt)
    \/ StringLiteral
    \/ Parenthesis \/ ListExpression \/ NextInList \/ ListExpressionEnd
    \/ \E op \in BinaryOperator : BinaryExpression(op)
    \/ BinaryRightSide
    \/ \E op \in {"arithmetic", "bitwise"} : PromotedExpression(op)
    \/ \E op \in {"comparison", "logical"} : IntExpression(op)
    \/ ShiftExpression \/ AssignmentExpression
    \/ \E prefix \in BOOLEAN : IncDecExpression(prefix)
    \/ IncDecExpressionEnd
    \/ \E kind \in DOMAIN UntypedChildren : UntypedExpression(kind)
    \/ UntypedExpressionEnd
    \/ FunctionCallExpression \/ Callee \/ NextArgument \/ LastArgument
    \/ FunctionCallExpressionEnd
    \/ ConstantExpression \/ ConstantExpressionEnd

Next ==
    NextInDeclaration \/ NextInDeclarator \/ NextInStatement \/ NextInExpression
    \/ EndUnit \/ Finished

Spec == Init /\ [][Next]_vars
=============================================================================
