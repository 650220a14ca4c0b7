SPECIFICATION Spec
CHECK_DEADLOCK FALSE
CONSTANTS
    Name = {x, y, z}
    NoName = NoName
    MaxDepth = 3
INVARIANTS
    ClassifiedAsInC
    ParsedAsWritten
    ScopesMatchBlocks
