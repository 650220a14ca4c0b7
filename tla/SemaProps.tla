----------------------------- MODULE SemaProps -----------------------------
(* What SemaVisitor promises, against C's own rules. *)
EXTENDS Sema

-----------------------------------------------------------------------------
(* The table is used as a stack *)

ClosesScope == {"compound", "functionDefinition"}

\* What a declarator may leave in _curType.
ObjectType == {"basic", "pointer", "array"}

\* The state is of the right shape.  In particular a symbol of a variable has
\* the type of an object and that of a function a FuncType, which is what
\* FunctionCallExpression looks for.
TypeOK ==
    /\ DOMAIN table = 1 .. Len(table) /\ DOMAIN cScopes = 1 .. Len(cScopes)
    /\ \A i \in DOMAIN table : DOMAIN table[i] \subseteq Names
    /\ \A i \in DOMAIN table : \A n \in DOMAIN table[i] :
          \/ table[i][n].kind = "variable" /\ table[i][n].type.data \in ObjectType
          \/ table[i][n].kind = "function" /\ table[i][n].type.data = "func"
    /\ curType.data \in ObjectType
    /\ mailbox # NoConstant => mailbox[1].isInt \in BOOLEAN /\ mailbox[1].id \in 1 .. MaxNodes
    /\ result.type.data \in ObjectType \cup {"func", "null"}
    /\ \A i \in DOMAIN todo : DOMAIN todo[i] = {"at", "arg", "saved"}
    /\ status \in {"visiting", "accepted", "rejected", "crashed"}
    /\ budget \in 0 .. MaxNodes

\* The visits under way that opened a scope, and no others, have one open:
\* pushScope() and popScope() pair up whatever the tree is (SemaVisitor.cpp
\* 147, 167 and 426, 428), so back() and popScope() never see an empty table.
ScopesBalanced ==
    Len(table) = 1 + Cardinality({i \in DOMAIN todo : todo[i].at \in ClosesScope})

-----------------------------------------------------------------------------
(* Names and types *)

\* The type that SemaVisitor gives to a parameter which has the type meant in C:
\* the same, or where that is a pointer the type of the specifiers, which is what
\* it points to unless that is a pointer, too.
ParameterFor(type, meant) ==
    \/ type = meant
    \/ /\ meant.data = "pointer" /\ IsBasic(type)
       /\ IsBasic(meant.of) => type = meant.of
ParameterTypes(types, meant) ==
    /\ Len(types) = Len(meant)
    /\ \A i \in DOMAIN meant : ParameterFor(types[i], meant[i])
\* SemaVisitor's type for what has this type in C.
TypeFor(type, meant) ==
    \/ type = meant
    \/ /\ type.data = "func" /\ meant.data = "func" /\ type.of = meant.of
       /\ ParameterTypes(type.params, meant.params)

\* A name that C knows is resolved to the declaration that C resolves it to,
\* with the type that declaration gives it: _curType (SemaVisitor.h) is right
\* whenever a declarator is reached, and every symbol is in the right scope.
\* The parameters of a function that are pointers are an exception: `int
\* f(int *p)` is recorded as int(int), since PointerDeclarator has restored
\* _curType (SemaVisitor.cpp:260) when FunctionDeclarator reads it (224).
ResolvesAsDeclared ==
    status = "visiting" =>
        \A n \in Names : InC(n) /\ ~IsTypeName(n) =>
            /\ HasOrd(table, n)
            /\ LET symbol == GetOrd(table, n)
                   entity == GetOrd(cScopes, n)
               IN /\ symbol.id = entity.id
                  /\ symbol.kind = entity.kind
                  /\ TypeFor(symbol.type, entity.type)

\* No name is known outside of the scope of its declaration.
NothingLeaks ==
    status = "visiting" => \A n \in Names : HasOrd(table, n) => InC(n)

\* A name keeps the symbol it was declared with for as long as the scope is
\* open: nodes annotated before and after agree (std::map::insert).
FirstDeclarationWins ==
    [][\A i \in DOMAIN table \cap DOMAIN table' : \A n \in DOMAIN table[i] :
         n \in DOMAIN table'[i] /\ table'[i][n] = table[i][n]]_vars

-----------------------------------------------------------------------------
(* What is accepted *)

\* Within a run's constructs no null pointer is dereferenced: every
\* expression an operator asks for its type has been given one.
NeverCrashes == status # "crashed"

\* The value of a constant is that of a literal inside of it, never of one
\* visited earlier: whoever fills _lastConstVal, ConstantExpression reads only
\* what was put there since it emptied it.
ConstantsAreOwn ==
    At("constantExpression") /\ mailbox # NoConstant => mailbox[1].id <= Head(todo).arg

\* Programs that only declare functions are accepted.
PrototypesAreAccepted == status # "rejected"
=============================================================================
