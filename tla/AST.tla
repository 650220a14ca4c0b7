---------------------------------- MODULE AST ----------------------------------
(***************************************************************************)
(* The trees that parser.y builds and SemaVisitor lets through, as a       *)
(* grammar: for each class of nodes its members, and for each member the   *)
(* classes that may be in it.  Names, literals, operators and types are    *)
(* left out; what every tree has at some place is its *usual* content, and *)
(* a tree is measured by how often it departs from that.                   *)
(***************************************************************************)
EXTENDS Integers, Sequences, FiniteSets

\* Two tables in one.
Join(f, g) == [x \in DOMAIN f \cup DOMAIN g |-> IF x \in DOMAIN f THEN f[x] ELSE g[x]]

\* A member: what sort of node it holds, whether it may be null, and whether
\* it holds a NodeList of that sort, with how many elements at least.
Member(sort, optional, list, least) ==
    [sort |-> sort, optional |-> optional, list |-> list, least |-> least]
One(sort) == Member(sort, FALSE, FALSE, 0)
Optional(sort) == Member(sort, TRUE, FALSE, 0)
List(sort) == Member(sort, FALSE, TRUE, 1)
OptionalList(sort) == Member(sort, TRUE, TRUE, 1)
AnyList(sort) == Member(sort, FALSE, TRUE, 0)

BinaryKind ==
    {"AddMultExpression", "BitwiseExpression", "EqualityExpression", "LogicalExpression",
     "RelationalExpression", "ShiftExpression"}
NoMembers == [label \in {} |-> One("nothing")]

\* Declarations, and the classes for specifiers.  (The lists of a
\* DeclarationSpecifiers are there even when they are empty; the one of the
\* qualifiers always is.  A K&R definition is rejected.)
DeclarationMembers ==
    [Declaration |-> [Specifiers |-> One("specifiers"), Declarators |-> List("initDeclarator")],
     FunctionDefinition |->
        [Specifiers |-> One("specifiers"), Declarator |-> One("function"),
         Declarations |-> OptionalList("nothing"), Statement |-> One("body")],
     ParameterDeclaration |->
        [Specifiers |-> One("specifiers"), Declarator |-> Optional("declarator")],
     StructDeclaration |->
        [Qualifiers |-> List("typeSpecifier"), Declarators |-> List("member")],
     DeclarationSpecifiers |->
        [StorageClassSpecifier |-> AnyList("value"), TypeSpecifier |-> AnyList("typeSpecifier"),
         TypeQualifiers |-> AnyList("nothing")],
     EnumSpecifier |-> [Declarators |-> OptionalList("enumerator")],
     StructSpecifier |-> [Declarations |-> OptionalList("structDeclaration")],
     TypeName |-> [Specifiers |-> List("typeSpecifier"), Declarator |-> Optional("nothing")],
     ValueNode |-> NoMembers]

\* A function declarator is that of a definition, and its base is not visited
\* by SemaVisitor ("unresolved").
DeclaratorMembers ==
    [ArrayDeclarator |-> [DeclaratorBase |-> One("declarator"), Expression |-> One("constant")],
     EnumValueDeclarator |-> [ConstExpr |-> Optional("constant")],
     FunctionDeclarator |->
        [Base |-> One("unresolved"), Identifiers |-> OptionalList("nothing"),
         Params |-> OptionalList("parameter")],
     IdentifierDeclarator |-> NoMembers,
     InitDeclarator |-> [Declarator |-> One("declarator"), Initializer |-> One("initializer")],
     PointerDeclarator |->
        [TypeQualifiers |-> Member("nothing", TRUE, TRUE, 0), Pointer |-> One("declarator")],
     StructMemberDeclarator |->
        [Declarator |-> One("declarator"), Expr |-> Optional("constant")]]

\* An operator around an expression asks for its type: "typed".
OperatorMembers == [kind \in BinaryKind |-> [LHS |-> One("typed"), RHS |-> One("typed")]]
ExpressionMembers ==
    [CastExpression |-> [CastType |-> One("typeName"), Expr |-> One("expression")],
     ConditionalExpression |->
        [Condition |-> One("expression"), If |-> One("expression"), Else |-> One("expression")],
     ConstantExpression |-> [Expr |-> One("literal")],
     IdentifierExpression |-> NoMembers,
     IncDecExpression |-> [Expr |-> One("typed")],
     ListExpression |-> [List |-> List("typed")],
     PrimaryExpression |-> NoMembers,
     AssignmentExpression |-> [LHS |-> One("variable"), RHS |-> One("typed")],
     ArrayAccessExpression |-> [Array |-> One("expression"), Index |-> One("expression")],
     FunctionCallExpression |->
        [Function |-> One("variable"), Args |-> OptionalList("expression")],
     MemberAccessExpression |-> [Parent |-> One("expression")],
     SizeofExpression |-> [Expr |-> One("operand")],
     UnaryOperatorExpression |-> [Expr |-> One("expression")],
     \* Initializer holds one of the two.
     Initializer |-> [Expression |-> One("expression")],
     BracedInitializer |-> [InitializerList |-> List("initializer")]]

StatementMembers ==
    [CompoundStatement |->
        [StatementList |-> OptionalList("statement"),
         DeclarationList |-> OptionalList("declaration")],
     ExpressionStatement |-> [Expr |-> Optional("comma")],
     GotoStatement |-> NoMembers,
     IfStatement |->
        [Cond |-> One("comma"), If |-> One("statement"), Else |-> Optional("statement")],
     IterationStatement |->
        [Statement |-> One("statement"), CondExpr |-> One("expressionStatement")],
     \* An IterationStatement made by For().
     ForStatement |->
        [Statement |-> One("statement"), InitExpr |-> One("expressionStatement"),
         CondExpr |-> One("expressionStatement"), UpdateExpr |-> Optional("comma")],
     LabelledStatement |-> [Statement |-> One("statement")],
     LoopControlStatement |-> NoMembers,
     ReturnStatement |-> [Expr |-> Optional("comma")],
     SwitchCaseStatement |-> [Cond |-> Optional("constant"), Statement |-> One("statement")],
     SwitchStatement |-> [SwitchOn |-> One("comma"), Statement |-> One("statement")]]

Members ==
    Join(Join(DeclarationMembers, DeclaratorMembers),
         Join(Join(OperatorMembers, ExpressionMembers),
              Join(StatementMembers, [NodeList |-> [element |-> One("nothing")]])))
NodeKind == DOMAIN Members

TypedKind ==
    BinaryKind \cup {"PrimaryExpression", "IdentifierExpression", "IncDecExpression",
                     "ListExpression", "AssignmentExpression", "FunctionCallExpression"}
ExpressionKind ==
    TypedKind \cup {"CastExpression", "ConditionalExpression", "ArrayAccessExpression",
                    "MemberAccessExpression", "SizeofExpression", "UnaryOperatorExpression"}

\* The kinds of nodes of a sort, the usual one first.
Sorts ==
    [external |-> <<"FunctionDefinition", {"Declaration"}>>,
     declaration |-> <<"Declaration", {}>>,
     specifiers |-> <<"DeclarationSpecifiers", {}>>,
     value |-> <<"ValueNode", {}>>,
     typeSpecifier |-> <<"ValueNode", {"StructSpecifier", "EnumSpecifier"}>>,
     structDeclaration |-> <<"StructDeclaration", {}>>,
     typeName |-> <<"TypeName", {}>>,
     function |-> <<"FunctionDeclarator", {}>>,
     parameter |-> <<"ParameterDeclaration", {}>>,
     unresolved |-> <<"IdentifierDeclarator", {}>>,
     declarator |-> <<"IdentifierDeclarator", {"PointerDeclarator", "ArrayDeclarator"}>>,
     initDeclarator |-> <<"IdentifierDeclarator",
                          {"PointerDeclarator", "ArrayDeclarator", "InitDeclarator"}>>,
     member |-> <<"StructMemberDeclarator", {}>>,
     enumerator |-> <<"EnumValueDeclarator", {}>>,
     initializer |-> <<"Initializer", {"BracedInitializer"}>>,
     body |-> <<"CompoundStatement", {}>>,
     statement |-> <<"ExpressionStatement",
                     DOMAIN StatementMembers \ {"ExpressionStatement"}>>,
     expressionStatement |-> <<"ExpressionStatement", {}>>,
     comma |-> <<"ListExpression", {}>>,
     typed |-> <<"PrimaryExpression", TypedKind \ {"PrimaryExpression"}>>,
     expression |-> <<"PrimaryExpression", ExpressionKind \ {"PrimaryExpression"}>>,
     operand |-> <<"TypeName", ExpressionKind>>,
     variable |-> <<"IdentifierExpression", {}>>,
     literal |-> <<"PrimaryExpression", {}>>,
     constant |-> <<"ConstantExpression", {}>>]

\* A node, the node it belongs to and as which member.
NoNode == 0
Node(kind, sort, parent, label) ==
    [kind |-> kind, sort |-> sort, parent |-> parent, label |-> label]
Root == Node("NodeList", "external", NoNode, "")

\* A member still to be filled.  (more: another element for a list.)
Slot(parent, label, member, more) ==
    [parent |-> parent, label |-> label, member |-> member, more |-> more]

SeqOf(S) == CHOOSE s \in [1 .. Cardinality(S) -> S] : \A x \in S : \E i \in DOMAIN s : s[i] = x
MemberLabels == [kind \in NodeKind |-> SeqOf(DOMAIN Members[kind])]
MemberSlots(parent, kind) ==
    [i \in DOMAIN MemberLabels[kind] |->
        LET label == MemberLabels[kind][i] IN Slot(parent, label, Members[kind][label], FALSE)]
ElementSlots(parent, sort, least) ==
    (IF least > 0 THEN <<Slot(parent, "element", One(sort), FALSE)>> ELSE <<>>)
    \o (IF sort \in DOMAIN Sorts THEN <<Slot(parent, "element", One(sort), TRUE)>> ELSE <<>>)
================================================================================
