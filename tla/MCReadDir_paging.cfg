\* Entries never overflow the buffer: the entry limit is reached first.
CONSTANTS
    NumNames <- MCNumNames
    FixedNames <- MCFixedNames
    EntrySize <- MCEntrySize
    BufSize = 2
    EntriesPerResponse = 2
SPECIFICATION FairSpec
INVARIANT TypeOK
INVARIANT StableEntriesDeliveredExactlyOnce
PROPERTY ReadDirSequenceEnds
PROPERTY ReadDirImplementsContract
