\* Every handler the kernel may call about an inode, and forget.
CONSTANTS
    InitialTypes <- MCInitialTypes
    NULL = NULL
SPECIFICATION Spec
INVARIANT EveryRequestAnsweredOnce
\* After destroy the session is over and the process exits.
CHECK_DEADLOCK FALSE
