SPECIFICATION Spec
CONSTANTS
    MaxChoices = 3
    MaxArgs = 3
    NoPath = NoPath
    Path = {p1, p2}
SYMMETRY PathSymmetry
INVARIANTS
    GraphIsTree
    DrawsTheTree
    SuccessMeansOutput
    OneFileAtATime
    GraphBeforeFiles
