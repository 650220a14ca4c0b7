\* A function declared at file scope.
SPECIFICATION Spec
CONSTANTS
    Names = {"f", "x"}
    SpecifierLists <- IntOnly
    Constructs = {"fileScope", "prototype"}
    MaxNodes = 3
INVARIANTS
    PrototypesAreAccepted
