\* An overflowing entry steps the iterator back onto an entry already sent (line 451).
CONSTANTS
    NumNames <- MCNumNames
    FixedNames <- MCFixedNames
    EntrySize <- MCEntrySize
    BufSize = 2
    EntriesPerResponse = 3
SPECIFICATION Spec
INVARIANT StableEntriesDeliveredExactlyOnce
