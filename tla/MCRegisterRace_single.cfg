\* One thread registers while another serves forgets: a freshly registered
\* slot is never one the kernel still uses.
CONSTANTS
    t1 = t1   t2 = t2   t3 = t3
    Registrars <- MCOneRegistrar
    Forgetters <- MCForgetter
    MaxIno = 4
    NULL = NULL
SPECIFICATION Spec
INVARIANT TypeOK
INVARIANT RegisterHandsOutFreeSlot
