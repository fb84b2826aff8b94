---------------------------- MODULE RegisterRace ----------------------------
(***************************************************************************)
(* FuseRamFs::RegisterInode (src/src/fuse_cpp_ramfs.cpp, lines 1271-1289)  *)
(* and the deleting branch of FuseForget (lines 800-834) as the steps they *)
(* take on the shared Inodes vector and DeletedInodes queue, run by the    *)
(* FUSE worker threads (spec section 5: callbacks may run concurrently).   *)
(* Nothing in the file locks these containers.                             *)
(*                                                                         *)
(* Each container call (empty, push_back, size, front, pop, store) is one  *)
(* step, except a push_back that outgrows the vector's capacity: it copies *)
(* the slots into new storage and then installs that storage, so a store   *)
(* another thread makes into the old storage in between is lost.  Other    *)
(* concurrent calls are taken as atomic, the most favourable outcome of    *)
(* the data race.  A front() or pop() on an empty queue is undefined: the  *)
(* thread stops there.                                                     *)
(* A slot holds the thread whose inode it is, "fs" for the special and     *)
(* root inodes, or NULL.                                                   *)
(***************************************************************************)
EXTENDS Integers, Sequences, FiniteSets, Functions

CONSTANTS
    Registrars,  \* threads serving creating requests (mknod, mkdir, create, ...)
    Forgetters,  \* threads serving forget requests
    MaxIno,      \* the table does not grow past this slot number (model bound)
    NULL         \* a deleted slot (nullptr)

Threads == Registrars \cup Forgetters
ASSUME Registrars \cap Forgetters = {} /\ MaxIno >= 2

VARIABLES
    Inodes,         \* FuseRamFs::Inodes: slot -> owner or NULL
    DeletedInodes,  \* FuseRamFs::DeletedInodes
    pc,             \* per thread: the next step it takes
    ino,            \* per thread: its local fuse_ino_t
    handed,         \* numbers RegisterInode returned that the kernel has not forgotten
    moved           \* per thread: the slots a reallocating push_back copied

vars == <<Inodes, DeletedInodes, pc, ino, handed, moved>>

Slots == DOMAIN Inodes
FreeSlots == {j \in Slots : Inodes[j] = NULL}

\* The table after mount (FuseInit registers the special inode 0 and the
\* root 1), possibly with a freed slot 2 already queued.
Init ==
    /\ \/ Inodes = [j \in 0..1 |-> "fs"] /\ DeletedInodes = <<>>
       \/ Inodes = [j \in 0..2 |-> IF j = 2 THEN NULL ELSE "fs"] /\ DeletedInodes = <<2>>
    /\ pc = [t \in Threads |-> "idle"]
    /\ ino = [t \in Threads |-> 0]
    /\ handed = {}
    /\ moved = [t \in Threads |-> <<>>]

Goto(t, from, to) == pc[t] = from /\ pc' = [pc EXCEPT ![t] = to]

(***************************************************************************)
(* RegisterInode, one step per container call.                             *)
(***************************************************************************)
\* A creating handler has built its inode and calls RegisterInode; the table
\* is not grown past MaxIno (model bound).
BeginRegister(t) ==
    /\ Goto(t, "idle", "empty")
    /\ DeletedInodes # <<>> \/ Cardinality(Slots) <= MaxIno
    /\ UNCHANGED <<Inodes, DeletedInodes, ino, handed, moved>>

\* if (DeletedInodes.empty())
RegisterEmpty(t) ==
    /\ pc[t] = "empty"
    /\ pc' = [pc EXCEPT ![t] = IF DeletedInodes = <<>> THEN "push_back" ELSE "front"]
    /\ UNCHANGED <<Inodes, DeletedInodes, ino, handed, moved>>

\* libstdc++ doubles the capacity from 1: a vector of n slots is full when
\* n is 0 or a power of two.
Full(n) == n = 0 \/ \E k \in 0..n : 2^k = n

\* The slots with inode_p appended.
Appended(slots, t) ==
    [j \in DOMAIN slots \cup {Cardinality(DOMAIN slots)} |->
        IF j \in DOMAIN slots THEN slots[j] ELSE t]

\* Inodes.push_back(inode_p): in place, or by copying into new storage.
RegisterPushBack(t) ==
    /\ pc[t] = "push_back"
    /\ IF Full(Cardinality(Slots))
         THEN /\ pc' = [pc EXCEPT ![t] = "install"]
              /\ moved' = [moved EXCEPT ![t] = Inodes]
              /\ UNCHANGED Inodes
         ELSE /\ pc' = [pc EXCEPT ![t] = "size"]
              /\ Inodes' = Appended(Inodes, t)
              /\ UNCHANGED moved
    /\ UNCHANGED <<DeletedInodes, ino, handed>>

\* The reallocating push_back installs the new storage with inode_p at the end.
RegisterInstall(t) ==
    /\ Goto(t, "install", "size")
    /\ Inodes' = Appended(moved[t], t)
    /\ moved' = [moved EXCEPT ![t] = <<>>]
    /\ UNCHANGED <<DeletedInodes, ino, handed>>

\* Seeded fault: the new slot's number is taken as size(), not size() - 1.
RegisterSizeNoMinus(t) ==
    /\ Goto(t, "size", "return")
    /\ ino' = [ino EXCEPT ![t] = Cardinality(Slots)]
    /\ UNCHANGED <<Inodes, DeletedInodes, handed, moved>>

\* ino = Inodes.size() - 1 (UpdateUsedInodes is left out: a global counter).
RegisterSize(t) ==
    /\ Goto(t, "size", "return")
    /\ ino' = [ino EXCEPT ![t] = Cardinality(Slots) - 1]
    /\ UNCHANGED <<Inodes, DeletedInodes, handed, moved>>

\* ino = DeletedInodes.front()
RegisterFront(t) ==
    /\ pc[t] = "front"
    /\ IF DeletedInodes = <<>>
         THEN pc' = [pc EXCEPT ![t] = "undefined"] /\ UNCHANGED ino
         ELSE pc' = [pc EXCEPT ![t] = "pop"] /\ ino' = [ino EXCEPT ![t] = Head(DeletedInodes)]
    /\ UNCHANGED <<Inodes, DeletedInodes, handed, moved>>

\* Seeded fault: the number is read from the queue but not popped.
RegisterPopNothing(t) ==
    /\ Goto(t, "pop", "store")
    /\ UNCHANGED <<Inodes, DeletedInodes, ino, handed, moved>>

\* DeletedInodes.pop()
RegisterPop(t) ==
    /\ pc[t] = "pop"
    /\ IF DeletedInodes = <<>>
         THEN pc' = [pc EXCEPT ![t] = "undefined"] /\ UNCHANGED DeletedInodes
         ELSE pc' = [pc EXCEPT ![t] = "store"] /\ DeletedInodes' = Tail(DeletedInodes)
    /\ UNCHANGED <<Inodes, ino, handed, moved>>

\* Inodes[ino] = inode_p
RegisterStore(t) ==
    /\ Goto(t, "store", "return")
    /\ Inodes' = [Inodes EXCEPT ![ino[t]] = t]
    /\ UNCHANGED <<DeletedInodes, ino, handed, moved>>

\* Initialize, UpdateUsedBlocks(0), return ino: the entry reply hands it out.
RegisterReturn(t) ==
    /\ Goto(t, "return", "idle")
    /\ handed' = handed \cup {ino[t]}
    /\ UNCHANGED <<Inodes, DeletedInodes, ino, moved>>

(***************************************************************************)
(* FuseForget of an unlinked inode whose lookup count reaches zero.        *)
(***************************************************************************)
\* The kernel forgets a number it was handed; inode_p = Inodes[ino].
BeginForget(t, i) ==
    /\ Goto(t, "idle", "clear")
    /\ i \in handed
    /\ Inodes[i] # NULL
    /\ ino' = [ino EXCEPT ![t] = i]
    /\ handed' = handed \ {i}
    /\ UNCHANGED <<Inodes, DeletedInodes, moved>>

\* delete inode_p; Inodes[ino] = nullptr
ForgetClear(t) ==
    /\ Goto(t, "clear", "push")
    /\ Inodes' = [Inodes EXCEPT ![ino[t]] = NULL]
    /\ UNCHANGED <<DeletedInodes, ino, handed, moved>>

\* Seeded fault: the freed number is queued twice.
ForgetPushTwice(t) ==
    /\ Goto(t, "push", "idle")
    /\ DeletedInodes' = DeletedInodes \o <<ino[t], ino[t]>>
    /\ UNCHANGED <<Inodes, ino, handed, moved>>

\* DeletedInodes.push(ino)
ForgetPush(t) ==
    /\ Goto(t, "push", "idle")
    /\ DeletedInodes' = Append(DeletedInodes, ino[t])
    /\ UNCHANGED <<Inodes, ino, handed, moved>>

Next ==
    \/ \E t \in Registrars :
          \/ BeginRegister(t) \/ RegisterEmpty(t) \/ RegisterPushBack(t) \/ RegisterInstall(t)
          \/ RegisterSize(t) \/ RegisterFront(t) \/ RegisterPop(t)
          \/ RegisterStore(t) \/ RegisterReturn(t)
    \/ \E t \in Forgetters :
          \/ \E i \in 2..MaxIno : BeginForget(t, i)
          \/ ForgetClear(t) \/ ForgetPush(t)

Spec == Init /\ [][Next]_vars

-----------------------------------------------------------------------------
TypeOK ==
    /\ Slots = 0..(Cardinality(Slots) - 1)
    /\ \A j \in Slots : Inodes[j] \in Threads \cup {"fs", NULL}
    /\ DeletedInodes \in Seq(Slots)
    /\ pc \in [Threads -> {"idle", "empty", "push_back", "size", "front", "pop",
                           "store", "return", "clear", "push", "undefined", "install"}]
    /\ \A t \in Threads : pc[t] \in {"return", "clear", "push"} => ino[t] \in Slots
    /\ handed \subseteq Slots
    /\ \A t \in Threads : DOMAIN moved[t] = 0..(Cardinality(DOMAIN moved[t]) - 1)

(***************************************************************************)
(* The number RegisterInode returns is a slot that holds the inode it      *)
(* registered and that no inode the kernel still uses was given: two       *)
(* concurrent creates never end up with one inode number.                  *)
(***************************************************************************)
RegisterHandsOutFreeSlot ==
    \A t \in Registrars :
        pc[t] = "return" => Inodes[ino[t]] = t /\ ino[t] \notin handed

(***************************************************************************)
(* Whenever no thread is inside RegisterInode or FuseForget, DeletedInodes *)
(* holds each deleted slot exactly once and nothing else.                  *)
(***************************************************************************)
QueueMatchesFreeSlotsAtRest ==
    (\A t \in Threads : pc[t] = "idle") =>
        /\ Range(DeletedInodes) = FreeSlots
        /\ IsInjective(DeletedInodes)
=============================================================================
