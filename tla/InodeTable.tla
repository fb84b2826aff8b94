------------------------------ MODULE InodeTable ------------------------------
(***************************************************************************)
(* What the inode table of FuseRamFs promises the kernel about inode       *)
(* numbers, with no directories, link counts or slots: a number is given   *)
(* out only when no inode has it; the kernel holds a number from an entry  *)
(* reply until it forgets it; and a number stops being in use only at the  *)
(* forget that returns the kernel's hold.  The special inode and the root  *)
(* are in use from mount on.                                               *)
(***************************************************************************)
CONSTANTS
    Numbers,   \* the inode numbers
    Reserved   \* numbers in use from mount on (the special inode and the root)

VARIABLES
    used,  \* numbers an inode has
    held   \* numbers the kernel holds a lookup count for

Init == used = Reserved /\ held = {}

\* A create-type request gives a new inode an unused number and replies an entry.
Allocate(i) ==
    /\ i \notin used
    /\ used' = used \cup {i}
    /\ held' = held \cup {i}

\* Lookup or link replies an entry for a number in use.
Hold(i) ==
    /\ i \in used
    /\ held' = held \cup {i}
    /\ UNCHANGED used

\* Forget returns the kernel's hold; the inode may go with it.
Forget(i) ==
    /\ i \in held
    /\ held' = held \ {i}
    /\ used' \in {used, used \ {i}}

Next == \E i \in Numbers : Allocate(i) \/ Hold(i) \/ Forget(i)

Spec == Init /\ [][Next]_<<used, held>>
=============================================================================
