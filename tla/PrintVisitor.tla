------------------------------ MODULE PrintVisitor ------------------------------
(***************************************************************************)
(* PrintVisitor: the tree as a flow chart.  A box has a number; `_id` is   *)
(* the last one given out, shared by all visits, and a visit keeps its own *)
(* number in `cur`.  The parser's part is here too: it grows the tree that *)
(* is printed, member by member.                                           *)
(***************************************************************************)
EXTENDS AST

CONSTANT MaxChoices  \* bound on what a tree has beyond the usual

ASSUME ChoicesAssumption == MaxChoices \in Nat

VARIABLES
    ast,     \* the nodes of the tree
    open,    \* the members still to be filled
    choices, \* how often the tree may still depart from the usual
    boxes,   \* _out: the lines that give a number its shape
    arrows,  \* _out: the edges
    lastID,  \* _id
    visits   \* the visits under way, the innermost last: cur, and the lines left to print

treeVars == <<ast, open, choices>>
graphVars == <<boxes, arrows, lastID, visits>>
printVars == <<treeVars, graphVars>>

-----------------------------------------------------------------------------
(* The tree *)

TreeInit ==
    /\ ast = <<Root>> /\ open = ElementSlots(1, "external", 1)
    /\ choices = MaxChoices

Growing == open # <<>>
Spend(cost) == choices >= cost /\ choices' = choices - cost
\* Fill the first open member with a node.
Fill(kind, sort, slots) ==
    /\ ast' = Append(ast, Node(kind, sort, open[1].parent, open[1].label))
    /\ open' = slots \o Tail(open)

GrowNode(kind) ==
    /\ Growing /\ ~open[1].more
    /\ LET member == open[1].member
       IN /\ ~member.list /\ member.sort \in DOMAIN Sorts
          /\ kind \in {Sorts[member.sort][1]} \cup Sorts[member.sort][2]
          /\ Spend(IF member.optional \/ kind # Sorts[member.sort][1] THEN 1 ELSE 0)
          /\ Fill(kind, member.sort, MemberSlots(Len(ast) + 1, kind))
    /\ UNCHANGED graphVars

GrowList ==
    /\ Growing /\ ~open[1].more
    /\ LET member == open[1].member
       IN /\ member.list /\ (member.sort \in DOMAIN Sorts \/ member.least = 0)
          /\ Spend(IF member.optional THEN 1 ELSE 0)
          /\ Fill("NodeList", member.sort,
                  ElementSlots(Len(ast) + 1, member.sort, member.least))
    /\ UNCHANGED graphVars

\* A null member, or no further element.
LeaveOut ==
    /\ Growing /\ (open[1].more \/ open[1].member.optional)
    /\ open' = Tail(open)
    /\ UNCHANGED <<ast, choices, graphVars>>

\* pushBack()
GrowElement(kind) ==
    /\ Growing /\ open[1].more
    /\ LET sort == open[1].member.sort
       IN /\ kind \in {Sorts[sort][1]} \cup Sorts[sort][2]
          /\ Spend(1)
          /\ ast' = Append(ast, Node(kind, sort, open[1].parent, "element"))
          /\ open' = MemberSlots(Len(ast) + 1, kind) \o open
    /\ UNCHANGED graphVars

Grow ==
    \/ \E kind \in NodeKind : GrowNode(kind) \/ GrowElement(kind)
    \/ GrowList \/ LeaveOut

-----------------------------------------------------------------------------
(* What each visit() prints, in order: members, and the names of what it   *)
(* prints without a visit ("Identifier", "Value", and "symbol", an edge    *)
(* without a label).                                                       *)

PrintedOfDeclarations ==
    [Declaration |-> <<"Specifiers", "Declarators">>,
     FunctionDefinition |->
        <<"Specifiers", "Declarator", "Declarations", "Statement", "symbol">>,
     ParameterDeclaration |-> <<"Specifiers", "Declarator", "symbol">>,
     StructDeclaration |-> <<"Qualifiers", "Declarators">>,
     DeclarationSpecifiers |-> <<"StorageClassSpecifier", "TypeSpecifier">>]
PrintedOfSpecifiers ==
    [EnumSpecifier |-> <<"Declarators">>,
     StructSpecifier |-> <<"Identifier", "Declarations">>,
     TypeName |-> <<"Specifiers", "Declarator">>]
PrintedOfDeclarators ==
    [ArrayDeclarator |-> <<"DeclaratorBase", "Expression">>,
     EnumValueDeclarator |-> <<"Identifier", "ConstExpr">>,
     FunctionDeclarator |-> <<"Base", "Identifiers", "Params">>,
     IdentifierDeclarator |-> <<"Identifier", "symbol">>,
     InitDeclarator |-> <<"Declarator", "Initializer", "symbol">>,
     PointerDeclarator |-> <<"TypeQualifiers", "Pointer">>,
     StructMemberDeclarator |-> <<"Declarator", "Expr">>]
PrintedOfExpressions ==
    [CastExpression |-> <<"CastType", "Expr">>,
     ConditionalExpression |-> <<"Condition", "If", "Else">>,
     ConstantExpression |-> <<"Expr">>,
     IdentifierExpression |-> <<"Identifier", "symbol">>,
     IncDecExpression |-> <<"Expr">>,
     ListExpression |-> <<"List">>,
     PrimaryExpression |-> <<"Value">>]
PrintedOfOperators == [kind \in BinaryKind \cup {"AssignmentExpression"} |-> <<"LHS", "RHS">>]
PrintedOfPostfix ==
    [ArrayAccessExpression |-> <<"Array", "Index">>,
     FunctionCallExpression |-> <<"Function", "Args">>,
     MemberAccessExpression |-> <<"Parent", "Identifier">>,
     SizeofExpression |-> <<"Expr">>,
     UnaryOperatorExpression |-> <<"Expr">>,
     Initializer |-> <<"Expression">>,
     BracedInitializer |-> <<"InitializerList">>]
PrintedOfStatements ==
    [CompoundStatement |-> <<"StatementList", "DeclarationList">>,
     ExpressionStatement |-> <<"Expr">>,
     GotoStatement |-> <<"Identifier">>,
     IfStatement |-> <<"Cond", "If", "Else">>,
     IterationStatement |-> <<"Statement", "InitExpr", "CondExpr", "UpdateExpr">>,
     ForStatement |-> <<"Statement", "InitExpr", "CondExpr", "UpdateExpr">>,
     LabelledStatement |-> <<"Identifier", "Statement">>,
     LoopControlStatement |-> <<>>,
     ReturnStatement |-> <<"Expr">>,
     SwitchCaseStatement |-> <<"Cond", "Statement">>,
     SwitchStatement |-> <<"SwitchOn", "Statement">>]
Printed ==
    Join(Join(Join(PrintedOfDeclarations, PrintedOfSpecifiers),
              Join(PrintedOfDeclarators, PrintedOfExpressions)),
         Join(Join(PrintedOfOperators, PrintedOfPostfix),
              Join(PrintedOfStatements, [NodeList |-> <<"element">>, ValueNode |-> <<>>])))

IterationKind == {"IterationStatement", "ForStatement"}
\* The member that a getter returns: getCondExpr() returns _initExpr.
Getter(kind, label) ==
    IF kind \in IterationKind /\ label = "CondExpr" THEN "InitExpr" ELSE label

\* The nodes that are a member: none if it is null, all elements of a list.
Held(n, label) == {i \in DOMAIN ast : ast[i].parent = n /\ ast[i].label = label}

\* A function's name is not resolved where it is defined.
HasSymbol(n) == ast[n].sort # "unresolved"

\* What visit() of node n prints at a place: edges to nodes, NoNode for a box
\* that is printed with its edge.
Line(place, label, node) == [place |-> place, label |-> label, node |-> node]
LinesAt(n, place) ==
    LET label == Printed[ast[n].kind][place]
    IN CASE label \in {"Identifier", "Value"} -> {Line(place, label, NoNode)}
         [] label = "symbol" -> IF HasSymbol(n) THEN {Line(place, "", NoNode)} ELSE {}
         [] OTHER -> {Line(place, label, i) : i \in Held(n, Getter(ast[n].kind, label))}
LinesOf(n) == UNION {LinesAt(n, place) : place \in DOMAIN Printed[ast[n].kind]}
\* Place by place, and the elements of a list as they were pushed.
Before(line, other) ==
    line.place < other.place \/ (line.place = other.place /\ line.node < other.node)

-----------------------------------------------------------------------------
(* The walk *)

GraphInit == boxes = <<>> /\ arrows = <<>> /\ lastID = 0 /\ visits = <<>>

Box(id, node) == [id |-> id, node |-> node]
Arrow(from, to, label) == [from |-> from, to |-> to, label |-> label]
Visit(id, node) == [cur |-> id, left |-> LinesOf(node)]

NotPrinted == boxes = <<>>
Printing == visits # <<>>
Innermost == visits[Len(visits)]
Outer == SubSeq(visits, 1, Len(visits) - 1)
Without(line) == Append(Outer, [Innermost EXCEPT !.left = @ \ {line}])
\* The line that is printed next.
IsNext(line) == \A other \in Innermost.left : other = line \/ Before(line, other)

\* root->accept(printer)
PrintRoot ==
    /\ NotPrinted
    /\ boxes' = <<Box(lastID, 1)>>
    /\ visits' = <<Visit(lastID, 1)>>
    /\ UNCHANGED <<arrows, lastID, treeVars>>

\* Mutant: the edge starts at the last number.
visitChildFromLast(line) ==
    /\ IsNext(line) /\ line.node # NoNode
    /\ lastID' = lastID + 1
    /\ arrows' = Append(arrows, Arrow(lastID, lastID + 1, line.label))
    /\ boxes' = Append(boxes, Box(lastID + 1, line.node))
    /\ visits' = Append(Without(line), Visit(lastID + 1, line.node))
    /\ UNCHANGED treeVars
\* visitChild(), or the loop over a NodeList: the edge, then the visit, which
\* begins with the child's own box.
visitChild(line) ==
    /\ IsNext(line) /\ line.node # NoNode
    /\ lastID' = lastID + 1
    /\ arrows' = Append(arrows, Arrow(Innermost.cur, lastID + 1, line.label))
    /\ boxes' = Append(boxes, Box(lastID + 1, line.node))
    /\ visits' = Append(Without(line), Visit(lastID + 1, line.node))
    /\ UNCHANGED treeVars

\* Mutant: the number is taken before it is counted up.
printLeafLateID(line) ==
    /\ IsNext(line) /\ line.node = NoNode
    /\ lastID' = lastID + 1
    /\ arrows' = Append(arrows, Arrow(Innermost.cur, lastID, line.label))
    /\ boxes' = Append(boxes, Box(lastID, NoNode))
    /\ visits' = Without(line)
    /\ UNCHANGED treeVars
\* An edge and its box in one line: a name, a value, a symbol.
printLeaf(line) ==
    /\ IsNext(line) /\ line.node = NoNode
    /\ lastID' = lastID + 1
    /\ arrows' = Append(arrows, Arrow(Innermost.cur, lastID + 1, line.label))
    /\ boxes' = Append(boxes, Box(lastID + 1, NoNode))
    /\ visits' = Without(line)
    /\ UNCHANGED treeVars

EndVisit ==
    /\ Printing /\ Innermost.left = {}
    /\ visits' = Outer
    /\ UNCHANGED <<boxes, arrows, lastID, treeVars>>

PrintStep ==
    \/ Printing /\ \E line \in Innermost.left : visitChild(line) \/ printLeaf(line)
    \/ EndVisit
WholeGraph == ~NotPrinted /\ ~Printing

-----------------------------------------------------------------------------
(* What the graph shows *)

BoxesOf(node) == {b \in DOMAIN boxes : boxes[b].node = node}
NodeOfBox(id) == boxes[CHOOSE b \in DOMAIN boxes : boxes[b].id = id].node

\* One counter numbers the boxes of all the nested visits: whatever the order
\* of edges and boxes, the graph is a tree grown from box 0.  Every other
\* number is at the end of exactly one edge, from a box drawn before it, and
\* no number is given to two boxes.
GraphIsTree ==
    /\ \A id \in 1 .. lastID : \E a \in DOMAIN arrows :
        /\ arrows[a].to = id /\ arrows[a].from \in 0 .. id - 1
        /\ \A other \in DOMAIN arrows : arrows[other].to = id => other = a
    /\ \A b, other \in DOMAIN boxes : boxes[b].id = boxes[other].id => b = other
    /\ \A b \in DOMAIN boxes : boxes[b].id \in 0 .. lastID
    /\ WholeGraph => \A id \in 0 .. lastID : \E b \in DOMAIN boxes : boxes[b].id = id

\* A node and those it belongs to.
WithAncestors(n) ==
    LET up[i \in 0 .. Len(ast)] == IF i = NoNode THEN {} ELSE {i} \cup up[ast[i].parent]
    IN up[n]
\* How often a node is drawn: a loop's condition never, its first expression
\* twice (getCondExpr() returns it), an (empty) list of qualifiers never.
TimesDrawn(n) ==
    LET labels == {ast[m].label : m \in WithAncestors(n)}
        unseen == ast[n].label = "TypeQualifiers"
                  /\ ast[ast[n].parent].kind = "DeclarationSpecifiers"
    IN IF "CondExpr" \in labels \/ unseen THEN 0
       ELSE IF "InitExpr" \in labels THEN 2 ELSE 1
\* The finished graph is the tree that was parsed: every node is drawn, under
\* the node it belongs to and as the member that it is, except for what
\* TimesDrawn says.
DrawsTheTree ==
    WholeGraph =>
        /\ \A n \in DOMAIN ast : Cardinality(BoxesOf(n)) = TimesDrawn(n)
        /\ \A a \in DOMAIN arrows :
            LET child == NodeOfBox(arrows[a].to)
            IN child # NoNode =>
                /\ NodeOfBox(arrows[a].from) = ast[child].parent
                /\ \/ arrows[a].label = ast[child].label
                   \/ arrows[a].label = "CondExpr" /\ ast[child].label = "InitExpr"
=============================================================================
