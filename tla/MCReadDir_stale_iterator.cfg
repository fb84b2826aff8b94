\* An unlink of the name the stored iterator points at, between two readdir calls.
CONSTANTS
    NumNames <- MCNumNames
    FixedNames <- MCFixedNames
    EntrySize <- MCEntrySize
    BufSize = 2
    EntriesPerResponse = 2
SPECIFICATION Spec
INVARIANT IteratorNeverDangles
