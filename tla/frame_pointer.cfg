\* RISCVEmitter.cpp:175, "restore old frame pointer".
SPECIFICATION CompilerSpec
CONSTANTS
    x = x
    y = y
    FuncNames = {"f"}
    VarNames = {x}
    PtrNames = {}
    VarTypes = {"int"}
    Literals = {1}
    Operators = {"="}
    Fragment = {}
    MaxNodes = 5
    WordBits = 8
    StackTop = 240
    CallerRA = 99
    CallerFP = 77
    GlobalIDs = {0, 1}
    Arguments = {0, 2}
    MaxCalls = 1
INVARIANT
    FramePointerRestored
CHECK_DEADLOCK FALSE
