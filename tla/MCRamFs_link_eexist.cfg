\* Rename and link with the kernel's count up to 2: link under a name that
\* lookup reports absent but that is still bound to an inode with no links.
CONSTANTS
    a = a   b = b   c = c   dot = dot   dotdot = dotdot
    UserNames <- MCUserNames2
    Dot = dot
    DotDot = dotdot
    MaxIno = 3
    MaxBlocks = 0
    MaxLookup = 2
    MaxLinks = 4
    TotalInodes = 8
    TotalBlocks = 4
    NULL = NULL
SPECIFICATION Spec
SYMMETRY NameSymmetry2
INVARIANT KernelRefsPinInodes
