\* Every construct IRGenVisitor has a handler for.
SPECIFICATION Spec
CONSTANTS
    x = x
    y = y
    p = p
    FuncNames = {"f"}
    VarNames = {x}
    PtrNames = {}
    VarTypes = {"int"}
    Literals = {1}
    Operators = {"+", "!=", "=", "+="}
    Fragment = {"global", "globalList", "block", "shadow", "list", "braces", "bareIdentifier", "voidReturn"}
    MaxNodes = 8
INVARIANTS
    LLVMEmissionSucceeds
    OperandsInArena
    NoWrappedIndex
    PlacedInOrder
    ValuesUsedInTheirBlock
    BranchesGoForward
    UnpatchedAreOwned
    IfBlocksMatch
    StoresToAddresses
    ArithmeticOnValues
    NeverFails
PROPERTY
    AppendOnly
