CONSTANTS
    a = a   b = b   c = c   dot = dot   dotdot = dotdot
    UserNames <- MCUserNames2
    Dot = dot
    DotDot = dotdot
    MaxIno = 4
    MaxBlocks = 1
    MaxLookup = 2
    MaxLinks = 5
    TotalInodes = 8
    TotalBlocks = 4
    NULL = NULL
SPECIFICATION Spec
SYMMETRY NameSymmetry2
INVARIANT BoundNamesAreVisible
