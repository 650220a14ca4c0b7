\* scoped_var.c: a declaration in a nested block.
SPECIFICATION Spec
CONSTANTS
    x = x
    y = y
    Arguments = {0, 1}
    FuncNames = {"f"}
    VarNames = {x}
    PtrNames = {}
    VarTypes = {"int"}
    Literals = {1}
    Operators = {"="}
    Fragment = {"block", "shadow"}
    MaxNodes = 8
INVARIANT CompiledMeansSource
