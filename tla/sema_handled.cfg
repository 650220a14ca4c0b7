\* What SemaVisitor handles: declarations in nested scopes, typed expressions.
SPECIFICATION Spec
CONSTANTS
    Names = {"f", "x"}
    SpecifierLists <- IntAndLong
    Constructs = {"fileScope", "several", "pointer", "parameter", "initializer", "identifier",
                  "int", "call", "arithmetic", "assignment", "postfix", "block", "empty",
                  "returnValue"}
    MaxNodes = 6
INVARIANTS
    ResolvesAsDeclared
    NothingLeaks
    NeverCrashes
