CONSTANTS
    a = a   b = b   c = c   dot = dot   dotdot = dotdot
    UserNames <- MCUserNames2
    Dot = dot
    DotDot = dotdot
    MaxIno = 3
    MaxBlocks = 0
    MaxLookup = 1
    MaxLinks = 4
    TotalInodes = 8
    TotalBlocks = 4
    NULL = NULL
SPECIFICATION Spec
SYMMETRY NameSymmetry2
INVARIANT DeletedInodesAreTheFreeSlots
 
CHECK_DEADLOCK FALSE
PROPERTY InodeTableRefined
