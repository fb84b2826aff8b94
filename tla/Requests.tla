------------------------------ MODULE Requests ------------------------------
(***************************************************************************)
(* The request/reply contract of the FUSE low-level API, for the handlers  *)
(* of FuseRamFs (src/src/fuse_cpp_ramfs.cpp) that answer the kernel about  *)
(* an inode without changing the namespace: getattr, setattr, access,      *)
(* readlink, statfs, the four xattr handlers, open, release, opendir,      *)
(* releasedir, readdir, fsync, fsyncdir, flush, read and write; forget    *)
(* and destroy.  FuseGetLock is registered but never called: libfuse asks  *)
(* the kernel for POSIX locks only when getlk and setlk are both           *)
(* registered, so the kernel answers F_GETLK itself.                       *)
(*                                                                         *)
(* libfuse hands a request to the handler the constructor registered for  *)
(* it in FuseOps and answers ENOSYS itself for an operation nobody         *)
(* registered.  A request ends with exactly one reply (fuse_reply_none for *)
(* forget): with none the caller sleeps in the kernel for ever, and a      *)
(* second one goes to a request libfuse has already freed.  A handler runs *)
(* to completion in one step of the session loop; the model records the    *)
(* replies it made.                                                        *)
(*                                                                         *)
(* The table is abstracted to each slot's type and whether it still has    *)
(* links.  The namespace handlers RamFs models appear here only as the     *)
(* kernel gaining a lookup count (lookup), another process taking the last *)
(* name away (unlink, rmdir) and forget.  An Inode method a handler        *)
(* delegates to (ReplyAttr, ReadAndReply, ...; not under src/) replies     *)
(* once, as spec section 5 asks of it.                                     *)
(***************************************************************************)
EXTENDS Integers, Sequences, FiniteSets

CONSTANTS
    InitialTypes,  \* slot -> type, the table once the namespace has been built
    NULL           \* a deleted slot (nullptr)

Types == {"special", "dir", "file", "symlink"}
ASSUME InitialTypes \in [0..(Cardinality(DOMAIN InitialTypes) - 1) -> Types]
ASSUME InitialTypes[0] = "special" /\ InitialTypes[1] = "dir"

VARIABLES
    Inodes,  \* FuseRamFs::Inodes: slot -> [type, linked] or NULL
    held,    \* numbers the kernel holds a lookup count for
    opened,  \* numbers the kernel holds an open file or directory handle on
    last     \* the last request: operation, inode number, the replies it got

vars == <<Inodes, held, opened, last>>

Root == 1

\* The operations the constructor registers in FuseOps (lines 68-100).
FuseOps == {"init", "destroy", "lookup", "forget", "getattr", "setattr",
            "readlink", "mknod", "mkdir", "unlink", "rmdir", "symlink",
            "rename", "link", "open", "read", "write", "flush", "release",
            "fsync", "opendir", "readdir", "releasedir", "fsyncdir", "statfs",
            "setxattr", "getxattr", "listxattr", "removexattr", "access",
            "create", "getlk"}

\* libfuse runs the registered handler, or replies ENOSYS when there is none.
Dispatch(op, i, replies) ==
    last' = [op |-> op, ino |-> i,
             replies |-> IF op \in FuseOps THEN replies ELSE <<"ENOSYS">>]

InRange(i) == i \in DOMAIN Inodes                          \* ino < Inodes.size()
Deleted(i) == Inodes[i] = NULL \/ ~Inodes[i].linked        \* nullptr or HasNoLinks()
IsType(i, t) == Inodes[i] # NULL /\ Inodes[i].type = t     \* dynamic_cast succeeds

\* The opening checks of most handlers, each followed by a return.
Resolve(i, rest) == IF ~InRange(i) \/ Deleted(i) THEN <<"ENOENT">> ELSE rest

\* FuseGetAttr and FuseSetAttr: no return after the range check, so the
\* handler goes on to read Inodes[ino] past the end of the vector.
ResolveNoReturn(i, rest) ==
    IF ~InRange(i) THEN <<"ENOENT", "undefined">> ELSE Resolve(i, rest)

Init ==
    /\ Inodes = [j \in DOMAIN InitialTypes |-> [type |-> InitialTypes[j], linked |-> TRUE]]
    /\ held = {Root}
    /\ opened = {}
    /\ last = [op |-> "init", ino |-> Root, replies |-> <<>>]

(***************************************************************************)
(* The kernel sends a request about an inode only while it holds a lookup  *)
(* count for it, and the file requests only on a handle it opened.         *)
(***************************************************************************)
\* FuseGetAttr (lines 224-240): ReplyAttr.
FuseGetAttr(i) ==
    /\ i \in held
    /\ Dispatch("getattr", i, ResolveNoReturn(i, <<"attr">>))
    /\ UNCHANGED <<Inodes, held, opened>>

\* FuseSetAttr (lines 252-268): ReplySetAttr.
FuseSetAttr(i) ==
    /\ i \in held
    /\ Dispatch("setattr", i, ResolveNoReturn(i, <<"attr">>))
    /\ UNCHANGED <<Inodes, held, opened>>

\* FuseAccess (lines 1203-1221): ReplyAccess.
FuseAccess(i) ==
    /\ i \in held
    /\ Dispatch("access", i, Resolve(i, <<"access">>))
    /\ UNCHANGED <<Inodes, held, opened>>

\* FuseReadLink (lines 1067-1099); the kernel asks only of a symlink.
FuseReadLink(i) ==
    /\ i \in held /\ IsType(i, "symlink")
    /\ Dispatch("readlink", i,
                Resolve(i, IF IsType(i, "symlink") THEN <<"readlink">> ELSE <<"EINVAL">>))
    /\ UNCHANGED <<Inodes, held, opened>>

\* FuseStatfs (lines 1101-1115) ignores the inode.
FuseStatfs(i) ==
    /\ i \in held
    /\ Dispatch("statfs", i, <<"statfs">>)
    /\ UNCHANGED <<Inodes, held, opened>>

\* FuseSetXAttr, FuseGetXAttr, FuseListXAttr, FuseRemoveXAttr (lines
\* 1117-1201): the same checks, then the Inode's ...XAttrAndReply.
FuseXAttr(op, i) ==
    /\ i \in held
    /\ Dispatch(op, i, Resolve(i, <<"xattr">>))
    /\ UNCHANGED <<Inodes, held, opened>>

\* FuseOpen (lines 467-498); the kernel opens a non-directory with open.
FuseOpen(i) ==
    LET r == Resolve(i, IF IsType(i, "dir") THEN <<"EISDIR">> ELSE <<"open">>) IN
    /\ i \in held /\ i \notin opened /\ IsType(i, "file")
    /\ Dispatch("open", i, r)
    /\ opened' = IF r = <<"open">> THEN opened \cup {i} ELSE opened
    /\ UNCHANGED <<Inodes, held>>

\* FuseRelease (lines 500-527); the kernel drops the handle whatever it hears.
FuseRelease(i) ==
    /\ i \in opened /\ IsType(i, "file")
    /\ Dispatch("release", i, Resolve(i, IF IsType(i, "dir") THEN <<"EISDIR">> ELSE <<"ok">>))
    /\ opened' = opened \ {i}
    /\ UNCHANGED <<Inodes, held>>

\* FuseOpenDir (lines 277-304).
FuseOpenDir(i) ==
    LET r == Resolve(i, IF IsType(i, "file") THEN <<"ENOTDIR">> ELSE <<"open">>) IN
    /\ i \in held /\ i \notin opened /\ IsType(i, "dir")
    /\ Dispatch("opendir", i, r)
    /\ opened' = IF r = <<"open">> THEN opened \cup {i} ELSE opened
    /\ UNCHANGED <<Inodes, held>>

\* FuseReleaseDir (lines 313-338).
FuseReleaseDir(i) ==
    /\ i \in opened /\ IsType(i, "dir")
    /\ Dispatch("releasedir", i,
                Resolve(i, IF IsType(i, "file") THEN <<"ENOTDIR">> ELSE <<"ok">>))
    /\ opened' = opened \ {i}
    /\ UNCHANGED <<Inodes, held>>

(***************************************************************************)
(* FuseReadDir (lines 351-464), its replies only; ReadDir models the       *)
(* cursor.  Past the checks it replies an empty buffer when the iterator   *)
(* is at end() (lines 380-387).  Otherwise it mallocs the reply buffer;    *)
(* when that fails it replies ENOMEM and does not return (lines 411-415). *)
(* The loop goes on with the NULL buffer: fuse_add_direntry only measures  *)
(* an entry when buf is NULL, but writes a later one through buf + bytes,  *)
(* and fuse_reply_buf (line 462) answers the freed request a second time.  *)
(***************************************************************************)
FuseReadDir(i) ==
    /\ i \in opened /\ IsType(i, "dir")
    /\ \E atEnd, allocated \in BOOLEAN :
          Dispatch("readdir", i,
                   Resolve(i, IF ~IsType(i, "dir") THEN <<"ENOTDIR">>
                              ELSE IF atEnd \/ allocated THEN <<"buf">>
                              ELSE <<"ENOMEM", "buf">>))
    /\ UNCHANGED <<Inodes, held, opened>>

\* FuseFsync (lines 529-538): the range check only.
FuseFsync(i) ==
    /\ i \in opened /\ IsType(i, "file")
    /\ Dispatch("fsync", i, IF InRange(i) THEN <<"ok">> ELSE <<"ENOENT">>)
    /\ UNCHANGED <<Inodes, held, opened>>

\* FuseFsyncDir (lines 540-558): a nullptr slot fails the dynamic_cast.
FuseFsyncDir(i) ==
    /\ i \in opened /\ IsType(i, "dir")
    /\ Dispatch("fsyncdir", i, IF ~InRange(i) THEN <<"ENOENT">>
                               ELSE IF IsType(i, "dir") THEN <<"ok">> ELSE <<"ENOTDIR">>)
    /\ UNCHANGED <<Inodes, held, opened>>

\* FuseFlush (lines 861-875): the range check only.
FuseFlush(i) ==
    /\ i \in opened /\ IsType(i, "file")
    /\ Dispatch("flush", i, IF InRange(i) THEN <<"ok">> ELSE <<"ENOENT">>)
    /\ UNCHANGED <<Inodes, held, opened>>

\* FuseRead (lines 877-897): ReadAndReply.
FuseRead(i) ==
    /\ i \in opened /\ IsType(i, "file")
    /\ Dispatch("read", i, Resolve(i, <<"data">>))
    /\ UNCHANGED <<Inodes, held, opened>>

\* FuseWrite (lines 836-859): the kernel always passes a buffer; WriteAndReply
\* answers the count or ENOSPC (RamFs models what it does to the file).
FuseWrite(i) ==
    /\ i \in opened /\ IsType(i, "file")
    /\ Dispatch("write", i, Resolve(i, <<"written">>))
    /\ UNCHANGED <<Inodes, held, opened>>

(***************************************************************************)
(* The namespace as far as these handlers see it.                          *)
(***************************************************************************)
\* FuseLookup (lines 184-214) finds a linked child and replies an entry.
FuseLookup(i) ==
    /\ i \notin held /\ Inodes[i] # NULL /\ Inodes[i].linked /\ i # 0
    /\ Dispatch("lookup", i, Resolve(i, <<"entry">>))
    /\ held' = held \cup {i}
    /\ UNCHANGED <<Inodes, opened>>

\* FuseUnlink (lines 675-722) of a non-directory's only name, or FuseRmdir
\* (lines 724-798) of an empty directory, by another process.
FuseRemove(i) ==
    /\ i \notin {0, Root} /\ Inodes[i] # NULL /\ Inodes[i].linked
    /\ Dispatch(IF Inodes[i].type = "dir" THEN "rmdir" ELSE "unlink", i, <<"ok">>)
    /\ Inodes' = [Inodes EXCEPT ![i].linked = FALSE]
    /\ UNCHANGED <<held, opened>>

\* FuseForget (lines 800-834): the kernel forgets an inode it has no handle
\* on; Inode::Forget replies none.  A nullptr slot returns with no reply.
FuseForget(i) ==
    /\ i \in held \ {Root} /\ i \notin opened
    /\ Dispatch("forget", i, IF Inodes[i] = NULL THEN <<>> ELSE <<"none">>)
    /\ held' = held \ {i}
    /\ Inodes' = IF Inodes[i] # NULL /\ ~Inodes[i].linked
                 THEN [Inodes EXCEPT ![i] = NULL] ELSE Inodes
    /\ UNCHANGED opened

(***************************************************************************)
(* FuseDestroy (lines 167-174): at unmount libfuse leaves its loop and     *)
(* calls destroy, which has no request to answer.  It deletes every inode  *)
(* (the slots keep the freed pointers; no handler runs after it).          *)
(***************************************************************************)
FuseDestroy ==
    /\ last.op # "destroy"
    /\ last' = [op |-> "destroy", ino |-> Root, replies |-> <<>>]
    /\ Inodes' = [j \in DOMAIN Inodes |-> NULL]
    /\ UNCHANGED <<held, opened>>

\* No request is dispatched once destroy has run.
Next ==
    \/ FuseDestroy
    \/ last.op # "destroy" /\ \E i \in DOMAIN Inodes :
           \/ FuseGetAttr(i) \/ FuseSetAttr(i) \/ FuseAccess(i) \/ FuseReadLink(i)
           \/ FuseStatfs(i)
           \/ \E op \in {"setxattr", "getxattr", "listxattr", "removexattr"} : FuseXAttr(op, i)
           \/ FuseOpen(i) \/ FuseRelease(i) \/ FuseOpenDir(i) \/ FuseReleaseDir(i)
           \/ FuseReadDir(i) \/ FuseFsync(i) \/ FuseFsyncDir(i) \/ FuseFlush(i)
           \/ FuseRead(i) \/ FuseWrite(i)
           \/ FuseLookup(i) \/ FuseRemove(i) \/ FuseForget(i)

Spec == Init /\ [][Next]_vars

-----------------------------------------------------------------------------
(***************************************************************************)
(* Spec section 5: every callback is ended by exactly one reply.  No       *)
(* handler may return without answering (the caller would wait for ever)  *)
(* or answer twice (the second reply goes to a freed request).  init and  *)
(* destroy come with no request.                                           *)
(***************************************************************************)
EveryRequestAnsweredOnce == last.op \notin {"init", "destroy"} => Len(last.replies) = 1
=============================================================================
