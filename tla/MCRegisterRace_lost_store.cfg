\* One thread registers while another serves forgets; the table starts with
\* the special inode and the root, so a third push_back reallocates.
CONSTANTS
    t1 = t1   t2 = t2   t3 = t3
    Registrars <- MCOneRegistrar
    Forgetters <- MCForgetter
    MaxIno = 4
    NULL = NULL
SPECIFICATION Spec
INVARIANT QueueMatchesFreeSlotsAtRest
