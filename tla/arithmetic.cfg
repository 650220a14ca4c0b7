\* Every operator, on words of either sign; and the `return;` the emitter stops at.
SPECIFICATION CompilerSpec
CONSTANTS
    x = x
    y = y
    FuncNames = {"f"}
    VarNames = {x}
    PtrNames = {}
    VarTypes = {"int"}
    Literals = {2, 255}
    Operators = {"=", "+", "-", "*", "/", "%", "&", "|", "^", "==", "!="}
    Fragment = {"voidReturn", "global"}
    MaxNodes = 7
    WordBits = 8
    StackTop = 240
    CallerRA = 99
    CallerFP = 77
    GlobalIDs = {0, 1}
    Arguments = {0, 7, 128, 255}
    MaxCalls = 1
INVARIANT
    EmissionSucceeds
PROPERTY
    Implements
CHECK_DEADLOCK FALSE
