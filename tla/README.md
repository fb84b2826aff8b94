# TLA+ models of fuse-cpp-ramfs

These modules model the FUSE request handlers of `src/src/fuse_cpp_ramfs.cpp`. That is
the in-memory filesystem's inode table, its namespace operations, and the two
reference counts that decide when an inode is freed. The kernel is modelled as the
handlers' only client. The classes `Inode`, `Directory`, `File`, `SymLink` and
`SpecialInode` are not under `src/`. Their methods are modelled from `spec.md`, and
`PROJECT.json` marks those definitions `spec_modelled`.

## 1. Inventory

### Components and their state

| Component | State (in the code) | Operations |
|---|---|---|
| Inode table | `Inodes` (vector of `Inode*`, `nullptr` for a deleted slot), `DeletedInodes` (FIFO of freed numbers) | `RegisterInode`, deletion in `FuseForget`, `FuseInit`, `FuseDestroy` |
| Statistics | `m_stbuf` (`f_ffree`, `f_bfree` change; the other fields are constants) | `UpdateUsedInodes`, `UpdateUsedBlocks`, `FuseStatfs` |
| Per-inode counts | `nlink` (in the attributes), `nlookup` | `Add/RemoveHardLink`, `ReplyEntry`/`ReplyCreate` (nlookup+1), `Forget` (nlookup-n) |
| Directories | ordered map name -> inode number (with `.` and `..` for mkdir'd ones) | `FuseLookup`, `FuseMknod`, `FuseMkdir`, `FuseCreate`, `FuseSymlink`, `FuseLink`, `FuseUnlink`, `FuseRmdir`, `FuseRename` |
| readdir cursor | a heap `map::const_iterator*` passed to the kernel as the directory offset | `FuseReadDir` |
| File bodies | blocks, size | `FuseWrite`, `FuseRead`, `FuseSetAttr` (size) |
| Extended attributes | per-inode map | `FuseSetXAttr`, `FuseGetXAttr`, `FuseListXAttr`, `FuseRemoveXAttr` |
| Other handlers | none of their own | getattr, setattr, access, open/release, opendir/releasedir, flush, fsync, fsyncdir, readlink, statfs (getlk is registered but never called) |

### How the parts interact

The FUSE transport calls one static handler per kernel request. Every handler
resolves its inode numbers against the shared `Inodes` vector, which holds no lock.
Creating handlers call `RegisterInode`, which pops `DeletedInodes` or appends. Only
`FuseForget` deletes inodes: it pushes the freed number back and updates the counters.
The kernel is the other side of the lookup-count protocol. Each entry reply raises
the kernel's count for that number, and the kernel returns the whole count with
forget when it evicts the inode. The VFS looks a name up before it asks to create or
remove it. It never sends `.` or `..`, never hard-links a directory, never moves a
directory under itself, and answers a rename of an inode onto itself on its own.

### What is hard

- **Two reference counts.** An inode may be freed only when `nlink` and `nlookup`
  are both zero. Unlink of an open file must leave it alive until the kernel's forget
  arrives.
- **Rename.** Overwrite semantics, link counts, and the old name all depend on the
  order of three map updates (lines 955-969).
- **Slot reuse.** A freed number must be queued exactly once, and never reused while
  the kernel still holds it.
- **readdir.** A cursor that lives across requests while other requests mutate the
  directory.
- **Concurrency.** spec.md section 5 says callbacks may run on several threads. The
  code has no lock around `Inodes`, `DeletedInodes` or the counters.

### Properties that make each component correct

- Inode table: DeletedInodes is exactly the set of freed slots, with no duplicates.
  A number the kernel holds is never freed or reused. The counters match what is in use.
- Namespace: a non-directory's `nlink` equals its number of names. A directory's
  `nlink` is 2 (3 for the root) plus its subdirectories. Every bound name is visible
  to lookup and names an allocated inode.
- Lifecycle: an inode that no directory names any more is eventually freed, once the kernel forgets it.
- readdir: an entry present throughout an enumeration is delivered exactly once, and
  the enumeration ends.

## 2. Modules and plan

| Order | Module | Models | Status |
|---|---|---|---|
| 1 | `RamFs` | inode table, namespace handlers, forget, write/truncate size, kernel lookup counts | written |
| 1 | `MCRamFs` | constants (model values for names, `NULL`) and name symmetry | written |
| 2 | `ReadDir`, `MCReadDir` | `FuseReadDir`'s iterator cursor across calls, interleaved with unlink/create in the same directory; exactly-once delivery and termination | written |
| 3 | `RegisterRace`, `MCRegisterRace` | `RegisterInode` and `FuseForget` split into their steps on threads sharing `Inodes`/`DeletedInodes`; two inodes on one number | written |
| 4 | `OpenFileIO` | read/write replies on an inode unlinked while open (spec scenario B) | not modelled (section 5) |
| 5 | `XAttr` | the create/replace flags of setxattr and removexattr (spec 4.7) | not modelled (section 5) |
| 7 | `Requests`, `MCRequests` | every inode handler that does not change the namespace, with forget, destroy and unlinks by other processes; the one-reply contract | written |
| 8 | `ReadDirContract` (abstract) | the enumeration contract of spec 4.6. `ReadDir` is shown to refine it (`ReadDirImplementsContract`) | written |
| 6 | `InodeTable` (abstract) | inode numbers as allocate, hold and forget. `RamFs` is shown to refine it via `INSTANCE ... WITH` (`InodeTableRefined`) | written |

## 3. RamFs: how the model follows the code

Variables:

| Variable | Code |
|---|---|
| `Inodes` | `FuseRamFs::Inodes`. It is a function `0..size-1 -> record or NULL`, and a record holds `type`, `nlink`, `nlookup`, `blocks` and `children` |
| `DeletedInodes` | `FuseRamFs::DeletedInodes` |
| `ffree`, `bfree` | `m_stbuf.f_ffree`, `m_stbuf.f_bfree` |
| `kref` | the kernel's per-node lookup count |

Each action is one whole handler. Its guard is the handler's checks and early
returns, together with what the VFS checks before it sends the request
(`KDir`, `KPresent`, `Visible`). Error replies that change nothing are not steps.

- `FuseLookup`: the parent is only type-checked (as in the code). An entry reply
  raises `nlookup` and `kref`.
- `MakeLeaf`, used by `FuseMknod` (S_ISREG branch), `FuseCreate` and `FuseSymlink`:
  register with nlink 1, `AddChild`, entry reply. The name is not checked.
  `AddChild` keeps an existing binding (map insert), the reading spec.md 4.2 gives.
- `FuseMkdir`: EEXIST for any bound name. The new directory has nlink 2 and `.`/`..`,
  and the parent gains a link.
- `FuseUnlink`: erase the name and drop one link.
- `FuseRmdir`: refuse `.` and a directory with more than two entries, erase, drop
  the parent's link, and set the child's nlink to zero.
- `FuseRename`: the three updates in code order. One link is dropped from
  `Inodes[parent]` when newname is bound. newname is bound to the source, and the old
  name is rebound to 0.
- `FuseLink`: `AddChild` (keeps an existing binding), a link added, entry reply.
  When newname is already bound to a number above 0, the code has replied EEXIST
  without returning (line 1016). The entry reply then goes to an answered request,
  so the kernel's count stays while `nlookup` rises.
- `FuseForget`: subtract the kernel's count. When both counts are zero, NULL the
  slot, queue it, and add the block count to `f_ffree` (as line 819 does).
- `FuseWrite` and `FuseSetAttrSize`: file size in blocks, charged to `f_bfree`
  or credited back when a file shrinks. ENOSPC when added blocks do not fit. This
  bound comes from spec 5 and 4.4, because `File` is not under `src/`.

Abstractions:
- Names are model values.
- File data, symlink targets, modes, owners and times are left out.
- A new inode uses 0 blocks (spec 4.1: size 0). For a symlink this is an
  assumption: its size is the target's length, but `SymLink` and `UsedBlocks`
  are not under `src/`, and the model keeps no targets.

Bounds, all named constants:
- `MaxIno`: the table size.
- `MaxLookup`: the kernel's count per inode.
- `MaxLinks`: how far link and mkdir raise a link count. This matters only with
  rename, where both can grow it without bound.
- `MaxBlocks`: file size.

## 3b. ReadDir: the readdir cursor

`ReadDir` models one directory and the kernel enumerating it.

- `children` is the set of names in the directory's `std::map`. Names are the
  numbers `1..NumNames` in map order, and `FixedNames` (`.` and `..`) come first
  and are never erased.
- `cursor` is where the heap iterator points: a name, `End`, or `Dangling`, which
  means its node was erased. It is `NoCursor` while the kernel's offset is still 0.
- The kernel side is `phase` (idle, reading, done), `delivered` (how often each name
  reached the kernel in this enumeration, capped at 2) and `stable` (the names
  present since the enumeration began).

Actions:
- `FuseOpenDir` starts an enumeration with offset 0.
- `FuseReadDir` is the whole handler. At `end()` it sends the empty reply. Otherwise
  it runs the loop of lines 424-460 as the recursive operator `Fill`: stop at
  `EntriesPerResponse` entries or at `end()`; an entry that overflows `BufSize`
  is not sent and the iterator is stepped back (`--it`, line 451). The kernel
  takes the whole reply, because glibc's 32 KiB getdents buffer is larger than the
  page it asks for, and resumes from the returned offset.
- `FuseReadDirStale` is a readdir on a dangling iterator. That is undefined
  behaviour, and the model ends the enumeration there without saying what was sent.
- `FuseReleaseDir` abandons an enumeration. The heap iterator leaks, which the
  model does not count.
- `AddEntry` and `RemoveEntry` stand for the `AddChild` and `RemoveChild` calls of
  the other handlers on this directory. Erasing the name the iterator points at
  makes it `Dangling`.

Fairness: `WF` on the kernel's readdir call. A process that reads a directory
keeps calling getdents until it sees the end, or closes it.

Bounds: 5 names (`.`, `..` and 3 user names), entries of size 1. Two
configurations are used:
- In `paging`, the entry limit (2) is reached before the buffer (2) fills, so no
  entry overflows.
- In `rewind_dup`, the limit is 3 and the buffer holds 2, so the third entry of
  every reply overflows.

The real sizes are `kReadDirBufSize` and `kReadDirEntriesPerResponse`, which are
defined in a header that is not under `src/`. A 4 KiB page holds at least 14
entries, so in practice two entries always fit a reply.

### ReadDirContract: what an enumeration promises

`ReadDirContract` states the required behaviour of spec 4.6 (line 120) with no
cursor, buffer or size:
- a reply hands over names that are in the directory at that moment;
- no name is handed over twice in one enumeration, whatever is inserted or erased
  between the calls;
- the empty reply that ends the enumeration comes only after every name present
  all along has been handed over;
- names inserted or erased meanwhile may or may not be sent.

`ReadDir` instantiates it as `Contract` with this mapping:
- `entries` is `children`;
- `sent` is `delivered`, which is 2 after a resend, and the contract never
  reaches 2;
- `state` is `phase`;
- `stable` is `stable`.

`ReadDirImplementsContract == Contract!Spec` is a property of `readdir_paging`.
It says more than `StableEntriesDeliveredExactlyOnce`. It also covers names that
come and go during the enumeration, so a name erased before the cursor reached it
is never sent. The overflow of `readdir_rewind_dup` breaks it too: the resent
entry is a step the contract does not allow.

## 3c. RegisterRace: RegisterInode on several threads

`RegisterRace` splits `RegisterInode` (lines 1271-1289) and the deleting branch of
`FuseForget` (lines 816-822) into their container calls. Each of these is one step:
- `empty()`, `push_back`, `size() - 1`, `front()`, `pop()`, and the store into `Inodes`;
- in forget, the `nullptr` store and `push`.

Threads are model values. `Registrars` serve creating requests and `Forgetters`
serve forgets. A slot holds the thread whose inode it is, or `NULL`. `handed` is the
set of numbers that were returned and not yet forgotten.

Each container call is one step, except a `push_back` that outgrows the
vector's capacity. libstdc++ doubles the capacity, so that happens at sizes 0, 1,
2, 4, and so on. The model splits it in two:
- `RegisterPushBack` copies the slots into new storage (`moved`);
- `RegisterInstall` installs that storage with the new slot.

A `nullptr` store that forget makes in between goes to the old storage and is
lost. Even with the other calls taken as atomic, the numbers collide. `front()` or `pop()` on an empty queue is
undefined, and the thread stops there (`pc = "undefined"`). The statvfs counters
are left out: they are global counters, and a lost update of them is a hazard of its own.

Bound: `MaxIno = 4`. `Init` is the mounted table, either with no freed slot or
with slot 2 queued, so that both the push and the reuse paths run.

## 3d. InodeTable: the abstract number contract

`InodeTable` says what the table promises the kernel about inode numbers, and
nothing else. It has two variables: `used`, the numbers an inode has, and `held`,
the numbers the kernel holds. It has three actions:
- `Allocate` gives out an unused number and holds it.
- `Hold` is an entry reply for a number in use.
- `Forget` returns the hold, and may free the number with it.

`RamFs` instantiates it as `Table` with this mapping:
- `used` is the allocated slots;
- `held` is the numbers with `kref > 0`;
- `Reserved` is `{0, 1}`.

`InodeTableRefined == Table!Spec` is a property of the `rename` run. So every
handler that run fires is one of those steps or leaves both sets alone. That covers
lookup, mknod, create, symlink, mkdir, unlink, rmdir, rename and forget. Link
cannot fire there, because the kernel's count is capped at 1; `link_eexist` shows
what link does.
In particular, unlink, rmdir and rename never free a number. What the abstraction
does not see is which inode sits in a slot: `DeletedInodesAreTheFreeSlots` and
`KernelRefsPinInodes` cover that.

## 3e. Requests: one reply per request

`Requests` checks the FUSE low-level contract that spec section 5 states: every
callback ends with exactly one reply (`fuse_reply_none` for forget). It has one
action per handler: getattr, setattr, access, readlink, statfs, the four xattr
handlers, open, release, opendir, releasedir, readdir, fsync, fsyncdir, flush,
read and write. Each action's guards and early returns come from its
handler. The reply it records is the sequence of `fuse_reply_*` calls that the
handler's path makes.

The state is:
- `Inodes`: each slot's type and whether it still has links, or `NULL`;
- `held`: the numbers the kernel holds;
- `opened`: the numbers it has a handle on;
- `last`: the last request and its replies.

The namespace handlers appear only as what these handlers can observe:
- lookup gives the kernel a number;
- another process's unlink or rmdir takes the inode's last name;
- forget deletes an unlinked inode.

`Dispatch` models libfuse. It runs the handler registered in `FuseOps`
(lines 68-101) and answers ENOSYS for an operation with no handler. `FuseGetLock`
is registered but never called: libfuse turns on POSIX locks only when both getlk and
setlk are registered. setlk is not registered, so the kernel answers F_GETLK itself.

Requests follow what the kernel sends. It asks only about numbers it holds.
Type-specific requests (readlink, readdir, fsync on a file) come only for inodes
of that type, and read, write, flush and fsync only on an open handle. So
`ResolveNoReturn`, the missing `return` after the range check of getattr and
setattr, is modelled faithfully, but its out-of-range branch is never reached.
Data is abstracted away: a reply is its kind (`attr`, `buf`, `ENOENT`, ...),
and Inode methods not under `src/` reply once, as the spec asks of them.

`MCRequests` starts from the table after `mkdir d`, `create f` and
`symlink l` in the root.

## 4. Runs

| Run | cfg | Expect | What it shows |
|---|---|---|---|
| namespace | `MCRamFs_namespace.cfg` | pass | All handlers but rename. It checks five invariants: `TypeOK`; `LinkCountsMatchEntries` (spec invariants 2 and 3); `NoDanglingEntry`; `DeletedInodesAreTheFreeSlots` (spec invariant 5); `KernelRefsPinInodes` (spec property 5: no held inode freed or reused, and nlookup equals the kernel's count). It also checks the liveness property `UnnamedEventuallyFreed` under `FairNamespaceSpec`. That spec assumes weak fairness on forget of an inode with no links (`KernelEvictsUnlinked`): the kernel evicts an inode whose i_nlink is 0 at its last iput and sends forget, which assumes the process closes its handles. Bounds: 3 user inodes, 2 names, 2 lookups, 1 block. No symmetry, because symmetry is unsound for a leads-to property. |
| rename | `MCRamFs_rename.cfg` | pass | With rename: `DeletedInodesAreTheFreeSlots` and `KernelRefsPinInodes` still hold, and so does `InodeTableRefined` (`RamFs` implements `InodeTable`) for every handler but link. Bounds: 2 user inodes, lookup count 1. `CHECK_DEADLOCK FALSE`: the rename bug at line 960 can take a directory's nlink to 0, the root's included. The model's kernel treats such a directory as removed (`KDir`, true of a directory the kernel rmdir'd itself) and sends it nothing. The code would still serve lookup and mkdir there (lines 191-197, 638-645 do not check the parent's links), so this stop belongs to the model's kernel, past a state the code already got wrong. |
| link_eexist | `MCRamFs_link_eexist.cfg` | violation | `KernelRefsPinInodes`, in 6 steps. The line-960 bug leaves the root's name `a` bound to a directory with nlink 0, which lookup reports as absent. A link of a file onto `a` then takes the EEXIST path (line 1014). It raises `nlookup` and `nlink` with no reply the kernel counts, so the file can never be freed. |
| rename_stale_name | `MCRamFs_rename_stale_name.cfg` | violation | `BoundNamesAreVisible`: the old name stays bound to inode 0 (line 969). |
| rename_dangling | `MCRamFs_rename_dangling.cfg` | violation | `NoDanglingEntry`, in 7 steps: mkdir d, two creates in d, and two renames in d. An overwriting rename drops a link of the parent, not of the overwritten inode (line 960), so d reaches nlink 0, and forget frees d. The root then names a freed slot. Readdir of the root would loop at line 429, which is not modelled. |
| readdir_paging | `MCReadDir_paging.cfg` | pass | No overflow, whole replies taken, names inserted and erased between calls: `StableEntriesDeliveredExactlyOnce`, `ReadDirSequenceEnds`, and `ReadDirImplementsContract` (`ReadDir` refines `ReadDirContract`). |
| readdir_rewind_dup | `MCReadDir_rewind_dup.cfg` | violation | `StableEntriesDeliveredExactlyOnce`: the overflowing entry was never sent, so `--it` (line 451) steps back onto the entry sent last, and the next call sends it again. |
| readdir_stale_iterator | `MCReadDir_stale_iterator.cfg` | violation | `IteratorNeverDangles`: an unlink of the name the stored iterator points at leaves the kernel's offset pointing at a freed node (lines 380, 426). |
| register_single | `MCRegisterRace_single.cfg` | pass | One registering thread and one forgetting thread, interleaved at every container call, reallocation included: `RegisterHandsOutFreeSlot` holds, so the returned slot holds the caller's inode and is not held by the kernel. |
| register_lost_store | `MCRegisterRace_lost_store.cfg` | violation | `QueueMatchesFreeSlotsAtRest`, with the same threads. A create at size 4 reallocates. A forget stores `nullptr` into the old storage (line 818) and queues the slot, and the install loses the store (line 1277). The queued slot still points at the deleted inode. |
| reply_once | `MCRequests_reply_once.cfg` | violation | `EveryRequestAnsweredOnce`, in two requests: opendir of the root, then a readdir whose reply-buffer `malloc` fails. It replies ENOMEM and goes on to `fuse_reply_buf` (lines 411-415, 462). |
| register_two_creates | `MCRegisterRace_two_creates.cfg` | violation | `RegisterHandsOutFreeSlot`: two creates both `push_back`, and both read `size() - 1` (line 1278). One of them returns the slot that holds the other's inode. |

Why the bounds are enough:
- Three user inodes and two names reach every handler branch: a subdirectory with
  a file, a hard link, slot reuse after forget, and a non-empty rmdir.
- Every RamFs violation run finds its counterexample in at most 7 steps. The lost store takes 20 steps of two threads, because the vector must first grow to a size where it reallocates.

Symmetry over the user names is used in the safety runs. No handler compares names,
so this is sound. The namespace run, which also checks liveness, uses none.

Each property of a passing run has a seeded fault in `RamFs` (the operators
introduced by "Seeded fault"). Each fault is a plausible slip in the code, and the
property catches it:

| Seeded fault | Caught by |
|---|---|
| slot number read after `push_back` | `TypeOK` |
| mkdir without the parent link | `LinkCountsMatchEntries` |
| forget deleting linked inodes | `NoDanglingEntry` |
| reuse without pop | `DeletedInodesAreTheFreeSlots` |
| unlink freeing at nlink 0 | `KernelRefsPinInodes`, `InodeTableRefined` |
| rmdir dropping only one link | `UnnamedEventuallyFreed` |
| readdir advancing the iterator twice per entry (`FillSkipping`) | `StableEntriesDeliveredExactlyOnce` |
| readdir ignoring the offset (`StartFromBegin`) | `ReadDirSequenceEnds` |
| number taken as `size()` (`RegisterSizeNoMinus`) | `TypeOK` of `RegisterRace` |
| reuse without `pop` (`RegisterPopNothing`) | `RegisterHandsOutFreeSlot` |
| readdir cursor kept as an index, not an iterator (`SuccByIndex`) | `TypeOK` of `ReadDir` (the cursor names a present entry), `ReadDirImplementsContract` (an erased name is sent) |

## 5. Not modelled, and why

- **The extended attribute store.** `Requests` models the four xattr handlers
  (lines 1117-1201) as far as the code goes: resolve the inode and reply. The
  `Inode` methods they call are not under `src/`. So the flags and the per-inode
  map would be modelled from spec 4.7 alone, and nothing of this code would be
  checked.
- **Read and write on an unlinked open file.** Lines 851 and 887 answer ENOENT for
  an inode with no links, against spec scenario B. This is one guard on one request,
  and a sequential test reaches it. The model has no file data for a read to
  return. It is listed as a hazard.
- **Threads inside the other handlers.** `RegisterRace` covers the table
  containers. A rename racing a lookup, or two renames in one directory, interleave
  map updates of `Directory`, whose class is not under `src/`.
- **Memory.** The leaked readdir iterator (line 382) is a hazard. Heap memory is
  not state of the model. The malloc failure path (line 412) is in `Requests`.
- **Partial replies.** The kernel is assumed to take whole readdir replies. The
  single offset per reply (line 448) would lose entries otherwise, and this is
  listed as a hazard.
- **A pass run for `Requests`.** Every path but two replies once. A passing run
  would have to leave out readdir's allocation failure, and that path would then
  fire in no passing run. So the module has only its violation
  run.
- **Mount and the session loop.** `main`, argument parsing and libfuse's loop
  are not in this repository. `FuseDestroy` is an action of `Requests`: it has no
  request to answer, deletes every inode, and nothing is dispatched after it
  (`reply_once` therefore sets `CHECK_DEADLOCK FALSE`). Forget of the root is not
  sent before unmount, so `RamFs` never frees it.
- **The statvfs counters under threads.** `UpdateUsedInodes` and
  `UpdateUsedBlocks` are read-modify-writes without a lock, in a header not
  under `src/`. They are listed as a hazard. The counters are already wrong
  sequentially: forget credits `f_ffree` with the blocks freed, and never
  credits `f_bfree` (line 819). A three-request test shows this, so no run checks it.
- **POSIX locks.** `FuseGetLock` (line 1266) never replies past its range check,
  but it is never called, because setlk is not registered.
- **The inode-number wrap** (line 1276) needs more creates than `kTotalInodes`,
  far beyond any bound TLC can explore.
- **`src/src/common.h`** holds only `#include`s and the `FUSE_USE_VERSION`
  macro. It has no state or behaviour to model.
- **mknod of S_IFDIR** is refused by the VFS before it reaches the handler.
