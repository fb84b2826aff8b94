------------------------------- MODULE ReadDir -------------------------------
(***************************************************************************)
(* The readdir cursor protocol of FuseRamFs::FuseReadDir                   *)
(* (src/src/fuse_cpp_ramfs.cpp, lines 351-464) over one directory, with    *)
(* the other handlers inserting and erasing names of that directory        *)
(* between the kernel's readdir calls.                                     *)
(*                                                                         *)
(* The directory's children are a std::map ordered by name; names are the  *)
(* numbers 1..NumNames in that order.  The cursor is the heap              *)
(* map::const_iterator whose address FuseReadDir hands the kernel as the   *)
(* offset of every entry; the kernel passes it back on its next call.  A   *)
(* reply holds at most EntriesPerResponse entries and at most BufSize      *)
(* bytes (min(kReadDirBufSize, size)); an entry of name n takes            *)
(* EntrySize[n] bytes (fuse_add_direntry).  The child inode of an entry is *)
(* always allocated here, so the nullptr `continue` of lines 428-429 (which *)
(* does not advance the iterator) is left out: dangling entries are        *)
(* RamFs's NoDanglingEntry.                                                *)
(***************************************************************************)
EXTENDS Integers, Sequences, FiniteSets, FiniteSetsExt

CONSTANTS
    NumNames,           \* the names a directory may hold, 1..NumNames in map order
    FixedNames,         \* "." and "..": present for the directory's whole life
    EntrySize,          \* bytes fuse_add_direntry takes for each name
    BufSize,            \* min(kReadDirBufSize, size) of a request
    EntriesPerResponse  \* kReadDirEntriesPerResponse

Names == 1..NumNames

ASSUME FixedNames \subseteq Names /\ FixedNames # {}
ASSUME EntrySize \in [Names -> Nat \ {0}] /\ EntriesPerResponse \in Nat \ {0}
\* The first entry of a reply always fits: a page holds the longest name.
ASSUME \A n \in Names : EntrySize[n] <= BufSize

VARIABLES
    children,   \* dir->Children(): the names present
    cursor,     \* *childIterator: a name, End, or Dangling; NoCursor before the first call
    phase,      \* the kernel's enumeration: "idle", "reading", or "done" (empty reply seen)
    delivered,  \* per name, how often it reached the kernel in this enumeration (capped)
    stable      \* the names present ever since the enumeration began

vars == <<children, cursor, phase, delivered, stable>>

NoCursor == 0                \* off == 0: no iterator has been newed yet
End == NumNames + 1          \* dir->Children().end()
Dangling == -1               \* an iterator to an erased map node
MaxCount == 2                \* delivery counts are capped here (model bound)

\* Seeded fault: the cursor steps to the next name by index, present or not.
SuccByIndex(c, n) == IF n = NumNames THEN End ELSE n + 1

\* ++it and --it over the names present.
Succ(c, n) == LET later == {m \in c : m > n} IN IF later = {} THEN End ELSE Min(later)
Pred(c, n) == Max({m \in c : m < n})

(***************************************************************************)
(* The loop of lines 424-458.  It adds entries while fewer than            *)
(* EntriesPerResponse were added and the iterator is not at end; an entry  *)
(* that would overflow the buffer is not added and the iterator is stepped *)
(* back (--it, line 451).  It yields the iterator's new position and the   *)
(* names sent.                                                             *)
(***************************************************************************)
RECURSIVE FillSkipping(_, _, _, _)
\* Seeded fault: the iterator is advanced twice after an entry is added.
FillSkipping(c, it, sent, bytes) ==
    IF Len(sent) = EntriesPerResponse \/ it = End THEN [it |-> it, sent |-> sent]
    ELSE IF bytes + EntrySize[it] > BufSize THEN [it |-> Pred(c, it), sent |-> sent]
    ELSE FillSkipping(c, Succ(c, Succ(c, it)), Append(sent, it), bytes + EntrySize[it])

RECURSIVE Fill(_, _, _, _)
Fill(c, it, sent, bytes) ==
    IF Len(sent) = EntriesPerResponse \/ it = End THEN [it |-> it, sent |-> sent]
    ELSE IF bytes + EntrySize[it] > BufSize THEN [it |-> Pred(c, it), sent |-> sent]
    ELSE Fill(c, Succ(c, it), Append(sent, it), bytes + EntrySize[it])

Init ==
    /\ children \in {FixedNames \cup S : S \in SUBSET (Names \ FixedNames)}
    /\ cursor = NoCursor
    /\ phase = "idle"
    /\ delivered = [n \in Names |-> 0]
    /\ stable = {}

(***************************************************************************)
(* FuseOpenDir (lines 277-304) changes nothing; the kernel then starts an  *)
(* enumeration with offset 0.                                              *)
(***************************************************************************)
FuseOpenDir ==
    /\ phase # "reading"
    /\ phase' = "reading"
    /\ cursor' = NoCursor
    /\ delivered' = [n \in Names |-> 0]
    /\ stable' = children
    /\ UNCHANGED children

\* Seeded fault: the offset is ignored and a new iterator is made on every call.
StartFromBegin(off) == Min(children)

\* Lines 366, 419-422: offset 0 news an iterator at begin(), else the kernel's one is used.
Start(off) == IF off = NoCursor THEN Min(children) ELSE off

(***************************************************************************)
(* FuseReadDir (lines 351-464).  At end() it replies with an empty buffer  *)
(* (lines 380-387), which the kernel takes as the end of the directory;    *)
(* otherwise it fills a reply from the iterator.  Every entry carries the  *)
(* iterator's address as its offset (line 448), so the kernel's next call *)
(* resumes wherever the iterator was left.  The kernel takes the whole     *)
(* reply: its getdents buffer (32 KiB in glibc) exceeds the page it asks.  *)
(***************************************************************************)
FuseReadDir ==
    /\ phase = "reading"
    /\ cursor # Dangling
    /\ IF cursor = End
         THEN /\ phase' = "done"
              /\ UNCHANGED <<cursor, delivered>>
         ELSE LET r == Fill(children, Start(cursor), <<>>, 0)
                  got == {r.sent[j] : j \in 1..Len(r.sent)}
              IN /\ cursor' = r.it
                 /\ delivered' = [n \in Names |->
                                    IF n \in got THEN Min({delivered[n] + 1, MaxCount})
                                    ELSE delivered[n]]
                 /\ UNCHANGED phase
    /\ UNCHANGED <<children, stable>>

(***************************************************************************)
(* FuseReadDir on an iterator whose map node was erased: comparing and     *)
(* dereferencing it (lines 380, 426) is undefined behaviour.  What the     *)
(* kernel then receives is not modelled: the model ends the enumeration    *)
(* there, a choice of the model, as IteratorNeverDangles already fails.    *)
(***************************************************************************)
FuseReadDirStale ==
    /\ phase = "reading"
    /\ cursor = Dangling
    /\ phase' = "idle"
    /\ UNCHANGED <<children, cursor, delivered, stable>>

\* FuseReleaseDir (lines 313-338) before the end: the iterator is leaked.
FuseReleaseDir ==
    /\ phase = "reading"
    /\ phase' = "idle"
    /\ UNCHANGED <<children, cursor, delivered, stable>>

(***************************************************************************)
(* Other handlers on this directory.  AddChild (mknod, mkdir, link,        *)
(* symlink, create) inserts a name the kernel found absent; RemoveChild    *)
(* (unlink, rmdir) erases one, which invalidates an iterator to its node.  *)
(***************************************************************************)
AddEntry(n) ==
    /\ n \notin children
    /\ children' = children \cup {n}
    /\ UNCHANGED <<cursor, phase, delivered, stable>>

RemoveEntry(n) ==
    /\ n \in children \ FixedNames
    /\ children' = children \ {n}
    /\ cursor' = IF cursor = n THEN Dangling ELSE cursor
    /\ stable' = stable \ {n}
    /\ UNCHANGED <<phase, delivered>>

Next ==
    \/ FuseOpenDir
    \/ FuseReadDir
    \/ FuseReadDirStale
    \/ FuseReleaseDir
    \/ \E n \in Names \ FixedNames : AddEntry(n) \/ RemoveEntry(n)

Spec == Init /\ [][Next]_vars

\* A process that reads a directory calls getdents until it sees the end.
FairSpec == Spec /\ WF_vars(FuseReadDir \/ FuseReadDirStale)

-----------------------------------------------------------------------------
TypeOK ==
    /\ FixedNames \subseteq children /\ children \subseteq Names
    /\ cursor \in children \cup {NoCursor, End, Dangling}
    /\ phase \in {"idle", "reading", "done"}
    /\ delivered \in [Names -> 0..MaxCount]
    /\ stable \subseteq Names

(***************************************************************************)
(* spec 4.6 and property 6: every entry present for a whole enumeration    *)
(* reaches the kernel exactly once: never twice while FuseReadDir pages    *)
(* through the directory with its stored iterator, and, when the empty     *)
(* reply ends the enumeration, at least once.                              *)
(***************************************************************************)
StableEntriesDeliveredExactlyOnce ==
    /\ \A n \in stable : delivered[n] <= 1
    /\ phase = "done" => \A n \in stable : delivered[n] = 1

(***************************************************************************)
(* FuseReadDir must never be handed back an iterator to an erased node:    *)
(* an unlink between two readdir calls must not leave the kernel's offset  *)
(* pointing into freed memory.                                             *)
(***************************************************************************)
IteratorNeverDangles == phase = "reading" => cursor # Dangling

(***************************************************************************)
(* A directory enumeration that the reader keeps pulling ends: the stored  *)
(* iterator makes progress across calls while names come and go.          *)
(***************************************************************************)
ReadDirSequenceEnds == phase = "reading" ~> phase # "reading"

(***************************************************************************)
(* The enumeration contract of spec 4.6 (ReadDirContract), with the        *)
(* cursor hidden: the names FuseReadDir sends are present in the map when  *)
(* it sends them, none of them is sent twice in one enumeration whatever   *)
(* other handlers insert and erase between the calls, and the empty reply  *)
(* at end() comes only after every name present all along was sent.       *)
(***************************************************************************)
Contract == INSTANCE ReadDirContract
    WITH Names <- Names, entries <- children, sent <- delivered,
         state <- phase, stable <- stable

ReadDirImplementsContract == Contract!Spec
=============================================================================
