-------------------------------- MODULE RamFs --------------------------------
(***************************************************************************)
(* The inode table and the namespace handlers of FuseRamFs                 *)
(* (src/src/fuse_cpp_ramfs.cpp), with the kernel side of the FUSE lookup   *)
(* count protocol.                                                         *)
(*                                                                         *)
(* FuseRamFs keeps a vector of Inode pointers (Inodes), a FIFO of freed    *)
(* slot numbers (DeletedInodes) and a statvfs block whose f_ffree and      *)
(* f_bfree count free inodes and blocks.  Every inode carries a hard-link  *)
(* count (nlink) and a lookup count (nlookup); a directory carries a map   *)
(* from names to inode numbers.  The kernel, the only client, holds its    *)
(* own count of entry replies per inode number (kref) and gives them back  *)
(* with forget.                                                            *)
(*                                                                         *)
(* Data is abstracted: a file body is its size in blocks, a symlink target *)
(* and all attributes other than the two counts are left out.  The Inode,  *)
(* Directory and File classes are not under src/; their methods used here  *)
(* (AddChild, UpdateChild, RemoveChild, Add/RemoveHardLink, ReplyEntry,    *)
(* Forget, WriteAndReply, the counter updates) are modelled from spec.md.  *)
(***************************************************************************)
EXTENDS Integers, Sequences, FiniteSets, Functions, FiniteSetsExt

CONSTANTS
    MaxIno,       \* highest inode number the table may reach (model bound)
    UserNames,    \* the names a request may carry
    Dot, DotDot,  \* the names "." and ".."
    MaxBlocks,    \* largest file size, in blocks, a write may produce (model bound)
    MaxLookup,    \* cap on the kernel's lookup count of one inode (model bound)
    MaxLinks,     \* cap on the link count link or mkdir may raise an inode to (model bound)
    TotalInodes,  \* kTotalInodes, the f_files of the statvfs block
    TotalBlocks,  \* kTotalBlocks, the f_blocks of the statvfs block
    NULL          \* a slot whose inode was deleted (nullptr)

ASSUME MaxIno \in Nat /\ MaxIno >= 2
ASSUME MaxBlocks \in Nat /\ MaxLookup \in Nat \ {0}
ASSUME TotalInodes \in Nat /\ TotalBlocks \in Nat
ASSUME {Dot, DotDot} \cap UserNames = {} /\ Dot # DotDot

VARIABLES
    Inodes,        \* FuseRamFs::Inodes: slot number -> inode record or NULL
    DeletedInodes, \* FuseRamFs::DeletedInodes: FIFO of freed slot numbers
    ffree,         \* m_stbuf.f_ffree
    bfree,         \* m_stbuf.f_bfree
    kref           \* kernel side: entry replies received minus forgotten, per number

vars == <<Inodes, DeletedInodes, ffree, bfree, kref>>

Ino == 0..MaxIno
NoBlockIno == 0          \* the SpecialInode registered first by FuseInit
Root == 1                \* FUSE_ROOT_ID
INO_NOTFOUND == -1       \* what ChildInodeNumberWithName returns for a missing name
Names == UserNames \cup {Dot, DotDot}
Types == {"special", "dir", "file", "symlink"}

InodeRec == [type: Types, nlink: Nat, nlookup: Nat, blocks: 0..MaxBlocks,
             children: [Names -> Ino \cup {INO_NOTFOUND}]]

\* A freshly constructed and Initialize()d inode: no children, no blocks, nlookup 0.
NewInode(type, nlink) ==
    [type |-> type, nlink |-> nlink, nlookup |-> 0, blocks |-> 0,
     children |-> [m \in Names |-> INO_NOTFOUND]]

NumInodes == Cardinality(DOMAIN Inodes)          \* Inodes.size()
Allocated(i) == i \in DOMAIN Inodes /\ Inodes[i] # NULL
HasNoLinks(i) == Inodes[i].nlink = 0
\* The check every handler starts with: in range, not deleted, has links.
Live(i) == Allocated(i) /\ ~HasNoLinks(i)
\* dynamic_cast<Directory *>(Inodes[i]) != NULL
IsDir(i) == Allocated(i) /\ Inodes[i].type = "dir"
ChildInodeNumberWithName(d, m) == Inodes[d].children[m]
\* What FuseLookup answers: the name is bound to an inode that is live.
Visible(d, m) ==
    /\ IsDir(d)
    /\ ChildInodeNumberWithName(d, m) # INO_NOTFOUND
    /\ Live(ChildInodeNumberWithName(d, m))

-----------------------------------------------------------------------------
(***************************************************************************)
(* The kernel.  It sends a request only for node ids it holds (a positive  *)
(* lookup count, or the root which it holds from mount), and the VFS       *)
(* checks a name with a lookup before it asks for it to be created or      *)
(* removed.  Its dentry tree is what lookups have shown it.                *)
(***************************************************************************)
KHolds(i) == (i \in Ino /\ kref[i] > 0) \/ i = Root
\* A directory the kernel may operate in: held, and not removed as far as it knows.
KDir(d) == KHolds(d) /\ IsDir(d) /\ ~HasNoLinks(d)
\* A name the kernel has looked up (and so holds the inode it names).
KPresent(d, m) == Visible(d, m) /\ kref[ChildInodeNumberWithName(d, m)] > 0
\* The kernel's dentry tree, and its check that rename does not move a
\* directory under itself.
SubdirsShown(S) ==
    {c \in Ino : \E p \in S, m \in UserNames :
                    Visible(p, m) /\ ChildInodeNumberWithName(p, m) = c /\ IsDir(c)}
RECURSIVE ShownBelow(_, _)
ShownBelow(S, n) == IF n = 0 THEN S ELSE ShownBelow(S \cup SubdirsShown(S), n - 1)
IsAncestor(a, d) == d \in ShownBelow({a}, MaxIno)

-----------------------------------------------------------------------------
(***************************************************************************)
(* Inode and Directory methods (classes not under src/, from spec.md).     *)
(***************************************************************************)
\* Directory::AddChild inserts the name; an existing binding is kept (map insert).
AddChild(node, m, i) ==
    IF node.children[m] = INO_NOTFOUND THEN [node EXCEPT !.children[m] = i] ELSE node
\* Directory::UpdateChild rebinds the name or inserts it.
UpdateChild(node, m, i) == [node EXCEPT !.children[m] = i]
\* Directory::RemoveChild erases the name.
RemoveChild(node, m) == [node EXCEPT !.children[m] = INO_NOTFOUND]
AddHardLink(node) == [node EXCEPT !.nlink = @ + 1]
RemoveHardLink(node) == [node EXCEPT !.nlink = @ - 1]
\* Inode::ReplyEntry (and ReplyCreate): the entry reply raises nlookup; the
\* kernel, on receiving it, raises its own count.
ReplyEntry(node) == [node EXCEPT !.nlookup = @ + 1]
KernelGetsEntry(i) == kref' = [kref EXCEPT ![i] = @ + 1]
CanReplyEntry(i) == kref[i] < MaxLookup

-----------------------------------------------------------------------------
(***************************************************************************)
(* RegisterInode (lines 1271-1288): reuse the head of DeletedInodes or     *)
(* push a new slot; only a pushed slot is charged to f_ffree.              *)
(***************************************************************************)
\* Seeded fault: the appended slot's number is read after push_back as size().
NextInoAfterPush == IF DeletedInodes = <<>> THEN NumInodes + 1 ELSE Head(DeletedInodes)
NextIno == IF DeletedInodes = <<>> THEN NumInodes ELSE Head(DeletedInodes)
\* Model bound: the table does not grow past MaxIno.
CanRegister == DeletedInodes # <<>> \/ NumInodes <= MaxIno

RegisterInode(node) ==
    [j \in DOMAIN Inodes \cup {NextIno} |-> IF j = NextIno THEN node ELSE Inodes[j]]

\* Seeded fault: a reused slot is taken from the queue but left at its head.
RegisterCountersNoPop(node) ==
    /\ DeletedInodes' = DeletedInodes
    /\ ffree' = IF DeletedInodes = <<>> THEN ffree - 1 ELSE ffree
    /\ bfree' = bfree - node.blocks

RegisterCounters(node) ==
    /\ DeletedInodes' = IF DeletedInodes = <<>> THEN <<>> ELSE Tail(DeletedInodes)
    /\ ffree' = IF DeletedInodes = <<>> THEN ffree - 1 ELSE ffree
    /\ bfree' = bfree - node.blocks

-----------------------------------------------------------------------------
(***************************************************************************)
(* FuseInit (lines 129-159): the special inode at 0, the root at 1 with    *)
(* nlink 3 and "." and ".." bound to itself.                               *)
(***************************************************************************)
Init ==
    LET root == [NewInode("dir", 3) EXCEPT !.children[Dot] = Root,
                                           !.children[DotDot] = Root]
    IN /\ Inodes = [i \in {NoBlockIno, Root} |->
                      IF i = NoBlockIno THEN NewInode("special", 0) ELSE root]
       /\ DeletedInodes = <<>>
       /\ ffree = TotalInodes - 2
       /\ bfree = TotalBlocks
       /\ kref = [i \in Ino |-> 0]

\* FuseLookup (lines 184-214).  The parent is only type-checked.
FuseLookup(parent, name) ==
    LET ino == ChildInodeNumberWithName(parent, name) IN
    /\ KDir(parent)
    /\ ino # INO_NOTFOUND
    /\ Live(ino)
    /\ CanReplyEntry(ino)
    /\ Inodes' = [Inodes EXCEPT ![ino] = ReplyEntry(@)]
    /\ KernelGetsEntry(ino)
    /\ UNCHANGED <<DeletedInodes, ffree, bfree>>

\* A node made by mknod (S_ISREG branch), create or symlink: register it with
\* nlink 1, AddChild the name, reply with an entry.  The name is not checked.
\* A new node holds no data blocks: a symlink's size is its target's length,
\* but SymLink keeps the target in a string (UsedBlocks is not under src/).
MakeLeaf(parent, name, type) ==
    LET ino  == NextIno
        node == NewInode(type, 1)
        tbl  == RegisterInode(node)
    IN /\ KDir(parent)
       /\ ~Visible(parent, name)
       /\ CanRegister
       /\ Inodes' = [tbl EXCEPT ![parent] = AddChild(@, name, ino),
                                ![ino] = ReplyEntry(@)]
       /\ RegisterCounters(node)
       /\ KernelGetsEntry(ino)

\* FuseMknod (lines 560-626).  The kernel never asks for S_IFDIR through mknod
\* (vfs_mknod refuses it), and the other non-regular types reply ENOENT with
\* nothing changed, so the S_ISREG branch is the only one that changes state.
FuseMknod(parent, name) == MakeLeaf(parent, name, "file")

\* FuseCreate (lines 1223-1255).
FuseCreate(parent, name) == MakeLeaf(parent, name, "file")

\* FuseSymlink (lines 1029-1065).
FuseSymlink(parent, name) == MakeLeaf(parent, name, "symlink")

\* Seeded fault: mkdir does not add the parent's link for the new "..".
FuseMkdirNoParentLink(parent, name) ==
    LET ino  == NextIno
        node == [NewInode("dir", 2) EXCEPT !.children[Dot] = ino,
                                           !.children[DotDot] = parent]
        tbl  == RegisterInode(node)
    IN /\ KDir(parent)
       /\ ~Visible(parent, name)
       /\ ChildInodeNumberWithName(parent, name) = INO_NOTFOUND
       /\ CanRegister
       /\ Inodes[parent].nlink < MaxLinks
       /\ Inodes' = [tbl EXCEPT ![parent] = AddChild(@, name, ino),
                                ![ino] = ReplyEntry(@)]
       /\ RegisterCounters(node)
       /\ KernelGetsEntry(ino)

\* FuseMkdir (lines 630-673): EEXIST when the name is bound at all, even to an
\* inode that lookup would not show; the parent's liveness is not checked.
FuseMkdir(parent, name) ==
    LET ino  == NextIno
        node == [NewInode("dir", 2) EXCEPT !.children[Dot] = ino,
                                           !.children[DotDot] = parent]
        tbl  == RegisterInode(node)
    IN /\ KDir(parent)
       /\ ~Visible(parent, name)
       /\ ChildInodeNumberWithName(parent, name) = INO_NOTFOUND
       /\ CanRegister
       /\ Inodes[parent].nlink < MaxLinks
       /\ Inodes' = [tbl EXCEPT ![parent] = AddChild(AddHardLink(@), name, ino),
                                ![ino] = ReplyEntry(@)]
       /\ RegisterCounters(node)
       /\ KernelGetsEntry(ino)

\* Seeded fault: unlink frees the inode as soon as its link count reaches zero.
FuseUnlinkFreeAtZero(parent, name) ==
    LET ino == ChildInodeNumberWithName(parent, name) IN
    /\ KDir(parent)
    /\ KPresent(parent, name)
    /\ ~IsDir(ino)
    /\ IF Inodes[ino].nlink = 1
       THEN /\ Inodes' = [Inodes EXCEPT ![parent] = RemoveChild(@, name), ![ino] = NULL]
            /\ DeletedInodes' = Append(DeletedInodes, ino)
       ELSE /\ Inodes' = [Inodes EXCEPT ![parent] = RemoveChild(@, name),
                                        ![ino] = RemoveHardLink(@)]
            /\ UNCHANGED DeletedInodes
    /\ UNCHANGED <<ffree, bfree, kref>>

\* FuseUnlink (lines 675-722): erase the name, drop one link of the target.
\* The VFS sends unlink only for a name it looked up that is not a directory.
FuseUnlink(parent, name) ==
    LET ino == ChildInodeNumberWithName(parent, name) IN
    /\ KDir(parent)
    /\ KPresent(parent, name)
    /\ ~IsDir(ino)
    /\ Inodes' = [Inodes EXCEPT ![parent] = RemoveChild(@, name),
                                ![ino] = RemoveHardLink(@)]
    /\ UNCHANGED <<DeletedInodes, ffree, bfree, kref>>

NumChildren(d) == Cardinality({m \in Names : Inodes[d].children[m] # INO_NOTFOUND})

\* Seeded fault: rmdir drops a single link of the removed directory.
FuseRmdirOnce(parent, name) ==
    LET ino == ChildInodeNumberWithName(parent, name) IN
    /\ KDir(parent)
    /\ KPresent(parent, name)
    /\ IsDir(ino)
    /\ ino # parent
    /\ NumChildren(ino) <= 2
    /\ Inodes' = [Inodes EXCEPT ![parent] = RemoveHardLink(RemoveChild(@, name)),
                                ![ino] = RemoveHardLink(@)]
    /\ UNCHANGED <<DeletedInodes, ffree, bfree, kref>>

\* FuseRmdir (lines 724-798): refuse "." (EINVAL) and a directory with more
\* than two entries (ENOTEMPTY); erase the name, drop the parent's link for
\* "..", and drive the removed directory's link count to zero.
FuseRmdir(parent, name) ==
    LET ino == ChildInodeNumberWithName(parent, name) IN
    /\ KDir(parent)
    /\ KPresent(parent, name)
    /\ IsDir(ino)
    /\ ino # parent
    /\ NumChildren(ino) <= 2
    /\ Inodes' = [Inodes EXCEPT ![parent] = RemoveHardLink(RemoveChild(@, name)),
                                ![ino].nlink = 0]
    /\ UNCHANGED <<DeletedInodes, ffree, bfree, kref>>

\* FuseRename (lines 899-973).  When newname is bound in newparent the code
\* drops a link of Inodes[parent] (not of the inode bound to newname), then
\* binds newname to the source and rebinds the old name to inode 0.
\* The VFS sends rename for a looked-up source; a target it has looked up must
\* be another inode of the same kind, and a directory is never moved under
\* itself.  Renaming an inode onto itself is answered by the VFS.
FuseRename(parent, name, newparent, newname) ==
    LET ino      == ChildInodeNumberWithName(parent, name)
        existing == ChildInodeNumberWithName(newparent, newname)
        t1 == IF existing # INO_NOTFOUND
              THEN [Inodes EXCEPT ![parent] = RemoveHardLink(@)]
              ELSE Inodes
        t2 == [t1 EXCEPT ![newparent] = UpdateChild(@, newname, ino)]
    IN /\ KDir(parent)
       /\ KPresent(parent, name)
       /\ KDir(newparent)
       /\ Visible(newparent, newname) =>
             /\ kref[existing] > 0
             /\ existing # ino
             /\ IsDir(existing) = IsDir(ino)
       /\ IsDir(ino) => newparent # ino /\ ~IsAncestor(ino, newparent)
       /\ Inodes' = [t2 EXCEPT ![parent] = UpdateChild(@, name, NoBlockIno)]
       /\ UNCHANGED <<DeletedInodes, ffree, bfree, kref>>

\* FuseLink (lines 975-1027).  When newname is bound to an inode number above
\* 0 the code replies EEXIST and carries on: AddChild (which keeps the old
\* binding), a link added to the target, and ReplyEntry, whose entry goes to
\* a request already answered: the kernel got EEXIST and its count stays.
\* The VFS links only a held, live non-directory under a name lookup did not
\* find.
FuseLink(ino, newparent, newname) ==
    LET existing == ChildInodeNumberWithName(newparent, newname)
    IN /\ KDir(newparent)
       /\ Live(ino)
       /\ kref[ino] > 0
       /\ ~IsDir(ino)
       /\ ~Visible(newparent, newname)
       /\ CanReplyEntry(ino)
       /\ Inodes[ino].nlink < MaxLinks
       /\ Inodes' = [Inodes EXCEPT ![newparent] = AddChild(@, newname, ino),
                                   ![ino] = ReplyEntry(AddHardLink(@))]
       /\ IF existing # INO_NOTFOUND /\ existing > 0
            THEN UNCHANGED kref
            ELSE KernelGetsEntry(ino)
       /\ UNCHANGED <<DeletedInodes, ffree, bfree>>

\* Seeded fault: forget deletes the inode once nlookup is zero, links or not.
FuseForgetIgnoreLinks(ino) ==
    LET nlookup == kref[ino]
        node    == [Inodes[ino] EXCEPT !.nlookup = @ - nlookup]
    IN /\ kref[ino] > 0
       /\ ino # Root
       /\ kref' = [kref EXCEPT ![ino] = 0]
       /\ IF node.nlookup = 0
          THEN /\ Inodes' = [Inodes EXCEPT ![ino] = NULL]
               /\ ffree' = ffree + node.blocks
               /\ DeletedInodes' = Append(DeletedInodes, ino)
          ELSE /\ Inodes' = [Inodes EXCEPT ![ino] = node]
               /\ UNCHANGED <<ffree, DeletedInodes>>
       /\ UNCHANGED bfree

\* FuseForget (lines 800-834).  The kernel gives back its whole count when it
\* evicts the inode (never the root's before unmount).  When both counts are
\* zero the inode is deleted, its slot NULLed and queued for reuse, and
\* UpdateUsedInodes(-blocks_freed) is called: f_ffree grows by the number of
\* blocks the inode used, and f_bfree is left as it was.
FuseForget(ino) ==
    LET nlookup == kref[ino]
        node    == [Inodes[ino] EXCEPT !.nlookup = @ - nlookup]
    IN /\ kref[ino] > 0
       /\ ino # Root
       /\ kref' = [kref EXCEPT ![ino] = 0]
       /\ IF node.nlookup = 0 /\ node.nlink = 0
          THEN /\ Inodes' = [Inodes EXCEPT ![ino] = NULL]
               /\ ffree' = ffree + node.blocks
               /\ DeletedInodes' = Append(DeletedInodes, ino)
          ELSE /\ Inodes' = [Inodes EXCEPT ![ino] = node]
               /\ UNCHANGED <<ffree, DeletedInodes>>
       /\ UNCHANGED bfree

\* FuseWrite (lines 836-859) and File::WriteAndReply: the file grows to cover
\* the write; the new blocks are charged to f_bfree, ENOSPC when they do not fit.
\* The ENOSPC check is the spec's (section 5): File is not under src/.
\* The kernel writes only to a regular file it holds open.
FuseWrite(ino, size) ==
    LET grow == size - Inodes[ino].blocks IN
    /\ KHolds(ino)
    /\ Live(ino)
    /\ Inodes[ino].type = "file"
    /\ grow > 0
    /\ grow <= bfree
    /\ Inodes' = [Inodes EXCEPT ![ino].blocks = size]
    /\ bfree' = bfree - grow
    /\ UNCHANGED <<DeletedInodes, ffree, kref>>

\* FuseSetAttr (lines 252-268) with FUSE_SET_ATTR_SIZE (Inode::ReplySetAttr,
\* not under src/; spec 4.4): shrinking truncates the blocks and credits them,
\* growing adds zero-filled blocks, refused with ENOSPC like a write when they
\* do not fit.
FuseSetAttrSize(ino, size) ==
    /\ KHolds(ino)
    /\ Live(ino)
    /\ Inodes[ino].type = "file"
    /\ size # Inodes[ino].blocks
    /\ size - Inodes[ino].blocks <= bfree
    /\ Inodes' = [Inodes EXCEPT ![ino].blocks = size]
    /\ bfree' = bfree + (Inodes[ino].blocks - size)
    /\ UNCHANGED <<DeletedInodes, ffree, kref>>

-----------------------------------------------------------------------------
NamespaceNext ==
    \/ \E p \in Ino, m \in UserNames :
          \/ FuseLookup(p, m)
          \/ FuseMknod(p, m)
          \/ FuseCreate(p, m)
          \/ FuseSymlink(p, m)
          \/ FuseMkdir(p, m)
          \/ FuseUnlink(p, m)
          \/ FuseRmdir(p, m)
    \/ \E i \in Ino, p \in Ino, m \in UserNames : FuseLink(i, p, m)
    \/ \E i \in Ino : FuseForget(i)
    \/ \E i \in Ino, k \in 0..MaxBlocks :
          \/ FuseWrite(i, k)
          \/ FuseSetAttrSize(i, k)

RenameStep ==
    \E p, np \in Ino, m, nm \in UserNames : FuseRename(p, m, np, nm)

Next == NamespaceNext \/ RenameStep

Spec == Init /\ [][Next]_vars

\* Every operation but rename, which the runs without it check separately.
NamespaceSpec == Init /\ [][NamespaceNext]_vars

\* The kernel evicts an inode whose link count it has seen drop to zero once
\* the last file handle is closed, and sends forget for it.
KernelEvictsUnlinked ==
    \A i \in Ino : WF_vars(FuseForget(i) /\ Allocated(i) /\ HasNoLinks(i))

FairNamespaceSpec == NamespaceSpec /\ KernelEvictsUnlinked

-----------------------------------------------------------------------------
(***************************************************************************)
(* Properties.                                                             *)
(***************************************************************************)
TypeOK ==
    /\ DOMAIN Inodes = 0..(NumInodes - 1)
    /\ NumInodes <= MaxIno + 1
    /\ \A i \in DOMAIN Inodes : Inodes[i] \in InodeRec \cup {NULL}
    /\ DeletedInodes \in Seq(Ino)
    /\ ffree \in Int /\ bfree \in Int
    /\ kref \in [Ino -> 0..MaxLookup]

\* The user-name entries, over all directories, that bind inode i.
Refs(i) ==
    Cardinality({e \in Ino \X UserNames :
                   IsDir(e[1]) /\ ChildInodeNumberWithName(e[1], e[2]) = i})
\* The entries of directory d that bind a directory.
Subdirs(d) ==
    Cardinality({m \in UserNames :
                   LET c == ChildInodeNumberWithName(d, m)
                   IN c # INO_NOTFOUND /\ IsDir(c)})
\* FuseInit gives the root 3 links; mkdir gives a new directory 2.
BaseLinks(d) == IF d = Root THEN 3 ELSE 2

\* Spec invariants 2 and 3, kept by mkdir/rmdir/link/unlink together: a
\* non-directory's nlink is the number of names bound to it; a live directory
\* other than the root has exactly one name, its nlink is its base plus one per
\* subdirectory, and a removed directory has no name at all.
LinkCountsMatchEntries ==
    \A i \in DOMAIN Inodes :
        (Allocated(i) /\ i # NoBlockIno) =>
            IF IsDir(i)
            THEN /\ Refs(i) = (IF i = Root \/ HasNoLinks(i) THEN 0 ELSE 1)
                 /\ ~HasNoLinks(i) => Inodes[i].nlink = BaseLinks(i) + Subdirs(i)
            ELSE Inodes[i].nlink = Refs(i)

\* No entry of a live directory names a deleted slot.  FuseReadDir (lines
\* 424-429) skips such an entry with `continue` without advancing its
\* iterator, and FuseUnlink/FuseRmdir dereference Inodes[ino] unchecked.
NoDanglingEntry ==
    \A d \in DOMAIN Inodes :
        (IsDir(d) /\ ~HasNoLinks(d)) =>
            \A m \in Names :
                ChildInodeNumberWithName(d, m) # INO_NOTFOUND =>
                    Allocated(ChildInodeNumberWithName(d, m))

\* A name bound in a live directory is one FuseLookup finds.  FuseMkdir
\* answers EEXIST for any bound name and AddChild (mknod, create, symlink,
\* link) keeps an existing binding, so a bound name lookup cannot see makes
\* the kernel's create of that name fail or vanish.  Spec 4.5: rename removes
\* the source name from the parent.
BoundNamesAreVisible ==
    \A d \in DOMAIN Inodes :
        (IsDir(d) /\ ~HasNoLinks(d)) =>
            \A m \in UserNames :
                ChildInodeNumberWithName(d, m) # INO_NOTFOUND => Visible(d, m)

\* Spec invariant 5, kept by FuseForget and RegisterInode together: the
\* DeletedInodes queue holds each NULL slot of the table exactly once, so a
\* slot is never handed to two inodes and never lost.
DeletedInodesAreTheFreeSlots ==
    /\ IsInjective(DeletedInodes)
    /\ Range(DeletedInodes) = {i \in DOMAIN Inodes : Inodes[i] = NULL}

\* Spec property 5: an inode number the kernel holds stays bound to the inode
\* it was given for until the kernel forgets it (no early delete, no reuse of
\* the slot), and the server's nlookup equals the kernel's count.
KernelRefsPinInodes ==
    /\ \A i \in Ino : kref[i] > 0 => Allocated(i)
    /\ \A i \in DOMAIN Inodes : Allocated(i) => Inodes[i].nlookup = kref[i]

\* Spec section 4.4: no inode leaks.  An inode that no directory names any
\* more (after unlink, rmdir) is eventually deleted and its slot freed, once
\* the kernel forgets it: its nlink must have reached zero with its last name.
UnnamedEventuallyFreed ==
    \A i \in Ino \ {NoBlockIno, Root} :
        (Allocated(i) /\ Refs(i) = 0) ~> ~Allocated(i)

(***************************************************************************)
(* RamFs implements the inode-number contract of InodeTable: the numbers   *)
(* in use are the allocated slots and the kernel holds the numbers it has  *)
(* a positive count for.  Every handler is a step of InodeTable or leaves  *)
(* both sets alone: RegisterInode gives out only unused numbers, entry     *)
(* replies hold, and only the forget that returns the kernel's count frees *)
(* a number, never unlink, rmdir or rename.                                *)
(***************************************************************************)
Table == INSTANCE InodeTable WITH
            Numbers <- Ino,
            Reserved <- {NoBlockIno, Root},
            used <- {i \in Ino : Allocated(i)},
            held <- {i \in Ino : kref[i] > 0}

InodeTableRefined == Table!Spec
=============================================================================
