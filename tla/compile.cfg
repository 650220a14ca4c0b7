\* The IR against C: two functions, globals, nested blocks, control flow.
SPECIFICATION Spec
CONSTANTS
    x = x
    y = y
    Arguments = {0, 1, 2}
    FuncNames = {"f", "g"}
    VarNames = {x, y}
    PtrNames = {}
    VarTypes = {"int"}
    Literals = {1}
    Operators = {"-", "=", "=="}
    Fragment = {"block", "list", "global"}
    MaxNodes = 8
SYMMETRY Symmetry
INVARIANTS
    CompiledMeansSource
    ResolvesLexically
    ParametersFirst
    TextDefinesItsNames
