\* Control flow: the core against the IR and against C, and back to its caller; a
\* second call finds the globals of the first.
SPECIFICATION FairCompilerSpec
CONSTANTS
    x = x
    y = y
    FuncNames = {"f"}
    VarNames = {x}
    PtrNames = {}
    VarTypes = {"int"}
    Literals = {1}
    Operators = {"="}
    Fragment = {"global"}
    MaxNodes = 10
    WordBits = 8
    StackTop = 240
    CallerRA = 99
    CallerFP = 77
    GlobalIDs = {0, 1}
    Arguments = {0, 2}
    MaxCalls = 2
INVARIANTS
    ReturnsToCaller
    ComputesSource
PROPERTIES
    Implements
    StoresStayInFrame
    CallsReturn
CHECK_DEADLOCK FALSE
