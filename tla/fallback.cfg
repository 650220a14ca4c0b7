\* What the parser and SemaVisitor accept, with or without a handler; blocks are in
\* handled and compile.
SPECIFICATION Spec
CONSTANTS
    x = x
    y = y
    p = p
    FuncNames = {"f"}
    VarNames = {x}
    PtrNames = {p}
    VarTypes = {"int"}
    Literals = {1}
    Operators = {"&", "==", "=", "/="}
    Fragment = {"global", "globalList", "globalInit", "prototype", "pointer", "abstract", "braces",
                "list", "nestedAssign", "bareIdentifier", "voidReturn",
                "empty", "unhandledExpr", "unhandledStmt"}
    MaxNodes = 7
INVARIANTS
    IndInv
    PlacedInOrder
