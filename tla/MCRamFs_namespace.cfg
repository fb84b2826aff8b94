\* Every handler but rename, with the kernel evicting unlinked inodes: the
\* safety properties that hold for them and the liveness of inode reclaim.
\* No SYMMETRY: it is unsound for the leads-to property.
CONSTANTS
    a = a   b = b   c = c   dot = dot   dotdot = dotdot
    UserNames <- MCUserNames2
    Dot = dot
    DotDot = dotdot
    MaxIno = 4
    MaxBlocks = 1
    MaxLookup = 2
    MaxLinks = 5
    TotalInodes = 8
    TotalBlocks = 1
    NULL = NULL
SPECIFICATION FairNamespaceSpec
INVARIANT TypeOK
INVARIANT LinkCountsMatchEntries
INVARIANT NoDanglingEntry
INVARIANT DeletedInodesAreTheFreeSlots
INVARIANT KernelRefsPinInodes
PROPERTY UnnamedEventuallyFreed
