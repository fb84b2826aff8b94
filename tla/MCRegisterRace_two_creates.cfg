\* Two threads register at once, a third serves forgets.
CONSTANTS
    t1 = t1   t2 = t2   t3 = t3
    Registrars <- MCTwoRegistrars
    Forgetters <- MCForgetter
    MaxIno = 4
    NULL = NULL
SPECIFICATION Spec
INVARIANT RegisterHandsOutFreeSlot
