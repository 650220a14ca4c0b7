\* All of the language the parser accepts.
SPECIFICATION Spec
CONSTANTS
    Names = {"x"}
    SpecifierLists <- IntOnly
    Constructs = {"fileScope", "prototype", "functionPointer", "implicitInt", "kAndR",
                  "several", "noDeclarator", "typedef", "struct", "enum", "bitfield",
                  "pointer", "array", "unsized", "parameter", "abstract", "initializer",
                  "braces", "identifier", "int", "double", "string", "parenthesis", "comma",
                  "call", "noArguments", "index", "member", "postfix", "prefix", "unary",
                  "sizeof", "sizeofType", "cast", "arithmetic", "shift", "comparison",
                  "bitwise", "logical", "conditional", "assignment", "block", "expression",
                  "empty", "if", "else", "while", "doWhile", "for", "label", "case", "default",
                  "switch", "return", "returnValue", "jump"}
    MaxNodes = 4
INVARIANTS
    TypeOK
    ScopesBalanced
    ConstantsAreOwn
PROPERTY
    FirstDeclarationWins
