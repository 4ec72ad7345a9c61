# A TLA+ model of NoobKernel

NoobKernel is a small RISC-V kernel (C and assembly, Sv39, one hart in the
configuration of this commit). This directory holds a formal model of its core:
the page and slab allocators, the spinlocks and interrupt masking, the
preemptive scheduler with kernel threads, the trap entry and context switch, the
pid counter, the virtio block driver with its device, the buffer cache, open
files with their descriptors, and the virtual file system over its inode and
dentry caches. TLC checks the modules on small instances; TLAPS proves the
invariants of ten of them, and two refinements, for every value of their
constants.

Paths below are relative to the root of the kernel's source tree; line numbers
are those of the modelled commit.

## Using it

    tlc -workers 2 -config buddy_alloc.cfg MCBuddy     one run, see the table of runs
    tlapm Buddy_proofs.tla                             one proof module

A definition that starts with the comment `Mutant:` is a plausible wrong version
of the definition that follows it. No specification uses it. Substituted for
that definition it makes TLC report the property named for it in PROJECT.json,
which is how each property is known to depend on the code it is about.

## Inventory

| component | sources | state | operations |
|---|---|---|---|
| page descriptors, physical memory | `src/mm/pm.c`, `src/mm/early.c` | `pages[]` (order, private), the early bump pointer | `pm_init`, `early_alloc` |
| buddy system | `src/mm/buddy.c` | `buddy_free_list[]`, `buddy_free_pages`, one lock, the page descriptors | `buddy_init`, `buddy_alloc` (merge, split), `buddy_free` |
| slab caches, kmalloc | `src/mm/slab.c`, `src/mm/kalloc.c` | per cache: three slab lists, counters, `expanding`, a lock; per slab: bitmap, free count | `kmem_cache_init/alloc/free/flush`, `kmalloc`, `kfree` |
| page tables, address spaces | `src/mm/pagetable.c`, `src/mm/vma.c` | three-level tables, the vma list | map, unmap, destroy, vma insert and lookup |
| spinlocks, interrupt masking | `src/sync/spinlock.c`, `src/trap/trap.c` | `locked`, `owner`; per hart `intr_depth`, `intr_state`, `sstatus.SIE` | acquire, release, `spinlock_holding`, `intr_off`, `intr_on` |
| scheduler, kernel threads | `src/task/sched.c`, `src/task/kthread.c`, `src/trap/trap.c`, `src/hal/timer.c` | run queue, `cpu->proc`, `need_resched`, `p->state`, `p->ctx` | `sched_yield`, `context_switch_yield`, `kthread_create`, `kthread_exit`, the timer path |
| trap entry, context switch | `src/trap/kernelvec.S`, `src/task/switch.S` | registers, `p->ktf`, `p->ctx` | `kernelvec`, `kernelret`, `context_switch` |
| pids | `src/task/proc.c` | `next_pid` | `alloc_pid` |
| buffer cache | `src/mm/bcache.c` | buffers (valid, dirty, refcnt), LRU, one lock per buffer and one for the cache | `bread`, `bwrite`, `brelse`, flush, sync |
| block layer, virtio block driver | `src/hal/blk.c`, `src/hal/virtio/` | descriptor free list, avail and used rings, request status | `virtio_blk_rw_internal`, the interrupt handler, `virtq_add_buf`, `virtq_get_buf` |
| open files, descriptors | `src/fs/fd_table.c`, `src/fs/file.c` | slots, file reference counts | `fd_alloc`, `fd_install`, `fd_free`, `file_get/put/close` |
| inode cache | `src/fs/inode.c` | hash of live inodes, reference counts, dirty flags | `inode_get/put/write/truncate` |
| dentries, path walk, mounts | `src/fs/dentry.c`, `src/fs/namei.c`, `src/fs/super.c`, `src/fs/vfs.c` | dentry tree and counts, mount points, superblocks | lookup, path walk, mount, the vfs calls |
| containers | `src/misc` and headers | radix tree, hash table, lists, bitmaps | insert, lookup, delete |
| boot, PLIC, SBI | `src/boot`, `src/hal` | device registers | start-up |
| library code | formatting, strings | the lock of `printf` | |

How they interact:

* The buddy system keeps a `struct mem_block` for every free block and gets it
  from `kmalloc`; the cache behind that `kmalloc` gets its slabs from
  `buddy_alloc`. Each calls the other while its own update is half done.
  `spinlock_holding` lets the inner call skip a lock that the hart has.
* A spinlock masks interrupts through `intr_off`/`intr_on`, a pair nested by a
  counter per hart. The handler that may interrupt any unmasked step uses the
  same pair, and at the end of `kerneltrap` calls `sched_yield`.
* `sched_yield` is also called by `kthread_exit`, outside any handler.
* `kernelvec` finds the frame of the current proc through `gp`; a context switch
  changes `gp` between the save and the restore.
* Above the block layer: a path walk takes dentries and inodes, an inode reads
  buffers, a buffer waits for the driver, and the driver polls a ring that its
  interrupt handler consumes as well.

What is hard here: the mutual recursion of the two allocators, steps before a
lock is taken or between two writes that a trap may separate, code written for
"interrupts off" that runs with them on, and reference counts over many error
paths. PROJECT.json lists these places as hazards, with the line each bites at
and the properties that would notice.

Properties that make each part correct: the allocators never hand a page or an
object out twice and lose none, counters agree with lists, and loops end; a lock
excludes, masks and is handed over; a thread is queued once, runs on its own
stack and is not starved; interrupted code goes on unchanged; pids are not given
twice; a descriptor chain belongs to the driver or to the device and never to
both, and a request ends; a buffer shows its reader what is on the disk, in one
place only; reference counts equal the references, what is open or mounted is
not freed, and a path leads to what it names now. For the part still to come: a
page table maps exactly what was mapped.

## Modules

**Blocks** is the geometry of the buddy region (orders, spans, alignment,
`get_buddy_addr`, `size2order`). `Size[o]` is a constant function for `1 << o`
with its doubling law assumed, which the provers can use.

**PageAllocator** is the abstract specification: a set `held` of blocks, an
allocation adds an aligned block of the region that overlaps none of them, a
free removes one.

**Buddy** models `buddy.c`. A free list is the set of its blocks: which entry is
first decides which block is served, never whether one is, and the model serves
any. `order` and `private` are the fields of `struct page`. `buddy_alloc` is a
sequence of steps, one per list access: `phase` says where
`buddy_alloc_nolock` is (three looks at the wanted list, the merge loop, the
split loop). `split_blocks` gets its `mem_block` in one of three ways: from the
cache (`"object"`), after growing the cache by a nested `buddy_alloc_nolock`
(`"grow"`, the suspended split is `outer`), or not at all (`"none"`, the code
panics). `buddy_free` has two steps, the part before `spinlock_acquire` (`staged`)
and the critical section. `list_del` of an entry on no list, undefined in the
code, has its most benign outcome.

**Slab** models a `kmem_cache` with its three lists, bitmaps and counters, in the
case that matters most: the cache that serves `struct mem_block`, into which
`buddy_alloc` comes back while it grows (`expand` is the return of that call;
up to `Nest` objects are taken in between). Callers may flush and may free what they
no longer have, as nothing in the code keeps them from it. Three variables record
this beside the code's state: `out`, how many callers have an object; `stale`, the
objects that were freed, while their bit was set for another caller, by one that had
lost them, until the last caller has freed them; and `drift`, the refused frees and
the objects of flushed slabs.

**Spinlock** models `spinlock.c` with `intr_off` and `intr_on`, any number of
harts, every access to a lock word or to a mask one step, and a trap wherever
SIE is on. Callers release what they took and nest locks in a fixed order; this
is a condition on callers, not something the lock enforces.

**Sched** models one hart's scheduler (a queue is only touched by its hart, and
`CPU_NUM` is 1). `cur` is the code that runs, a saved context is a copy of it:
stack, next step, inside `kerneltrap` or not, SIE, locals. `kerneltrap` with
`sched_yield` is one step because interrupts are off; the same function called
by `kthread_exit` is four steps because they are on.

**Trapframe** follows each register through `kernelvec`, `context_switch` and
`kernelret` by naming values: `<<p, r, n>>` is what proc `p` left in `r` in its
n-th stretch of work. Switches come in any order, so it covers every schedule.

**PidAlloc** models the compare-and-exchange loop of `alloc_pid` with the read
and the exchange as separate steps.

**VirtioBlk** models a block request from `blk_read`/`blk_write` to the device
and back. The device is a process of its own: it takes what `avail->idx` covers,
serves it or fails it, and writes the used ring. `virtio_blk_init` is a sequence
of steps with the failures the code tests for (no device, features refused, no
queue, no memory). A section under `vq->lock` waits for nothing and the device
cannot see its descriptors before `avail->idx` moves, so it is one step;
`virtq_has_buf` looks without the lock and is a step of its own, as are the
handler's look, take and mark. The free list of descriptors is the code's: a
head, a count and the `next` fields that the chains use too. The driver leaves
the interrupt masked for now (`src/hal/virtio/virtio_blk.c:246`); the model lets
it fire at any time or never, so polling must and does work alone.

**BlockStore** is the abstract specification of the buffer cache: a block has one
owner between `bread` and `brelse`, who sees what the disk holds, and what it
wrote with `bwrite` is on the disk when it gives the block back. It promises
nothing about a block after an I/O error on it, since `bread` and `bwrite` ignore
the result of the device.

**Bcache** models `bcache.c` with the cache lock and the buffer locks apart:
`bcache_get` finds or evicts a buffer under the first and waits for the second
after the first is gone; `bcache_sync` waits for buffers under the cache lock,
one step for each buffer of `lru_list`. Its refinement mapping takes the disk as
it is, makes a hart that has a buffer the owner of the buffer's block, and lets
it see the buffer's data. Users take blocks in increasing order and change a
buffer only to `bwrite` it.

**Files** models `file.c` and `fd_table.c` for threads that share a table, with a
second table that `fd_table_dup` makes from the first. What runs under one lock
without waiting is a step; `fd_alloc` and `fd_install` are two, and so are the
test of `inode->i_size` in `file_write` and its store. `written` and `opens`
record history for `SizeCovers`.

**Dcache** has the inode cache, the dentry cache and the hash table under them as
operators on a record of the kernel's state. A dentry is its address, a number,
because keys are computed from addresses; `hash_ptr` is computed as in the code,
exactly for tables of up to 128 buckets, with `xor` on the seven bits that count
there. An inode stands for its number.
`d_refcnt` wraps at `RefMod`. Lists and counters that nothing reads are left out.

**Vfs** models `namei.c`, `vfs.c` and the reference counts of `super.c` on top of
Dcache: one step for a whole call, error paths and every get and put included. A
path is the sequence of its components. The file systems are not part of the
source; `fs_lookup`, `fs_create`, `fs_remove`, `fs_rename`, `fs_mount` and
`fs_kill` are what the code expects of `i_op` and `file_system_type`, over a set
of directory entries.

`MC*` modules add the constants of an instance; `*_proofs` hold theorems.

## Runs

| run | instance | result |
|---|---|---|
| `buddy_alloc` | two blobs of 4 pages, requests of 1, 2 and 3 pages, slab of one page, one thread, all `mem_block` outcomes | seven properties hold |
| `buddy_nested` | one blob, slab of 4 pages | `ListedArePrivate` fails |
| `spinlock_smp` | two harts, two locks | five properties hold |
| `sched` | four threads, two of them created by others, two that may exit | six properties hold |
| `slab_cache` | three slabs of three objects, two nested allocations, two objects shared by mistake | four properties hold |
| `trap_frame` | idle and two threads | `Resumes` holds |
| `pid_alloc` | three callers, three pids | three properties hold |
| `virtio_blk` | two harts, one sector, a device that offers no queue, a short one or a long one, indices modulo 8 | four properties hold |
| `virtio_write` | the same | `WriteReachesDisk` fails |
| `bcache` | two harts, three blocks, two buffers, up to two blocks held | four properties hold |
| `files` | two threads, three files, one inode, tables of one slot that may grow to two | three properties hold |
| `vfs` | seven dentries, two file systems, two names, one open file | three properties hold |

*buddy_alloc* shows that merges, splits and the nested allocation keep memory
exclusive (`NoDoubleUse`) and complete (`NoPageLost`), that the free page count
is right whenever the lock is free (`Accounting`), that the order checks never
fire, that NULL means there is no free aligned run (`NullMeansFragmented`), that
a call ends (`AllocEnds`), and that the whole implements PageAllocator. Two
blobs of order 2 are the smallest region with a merge into a block that must not
be merged further, a split over two levels, and a full region beside a
fragmented one.

*spinlock_smp* has two locks because a nested pair on two harts is where depth,
mask and hand-over interact; a third lock repeats the second. *sched* needs two
queued threads to see order, a third and fourth for creation while others wait;
two exiting threads make a zombie meet an exit in progress. The properties of
*sched* that a thread's exit breaks (below) are stated up to the first exit, and
the others without condition. *slab_cache* has a low mark of 3, a nesting depth
of 2 (the code: `ObjNum` in the thousands for 24-byte objects,
`BUDDY_MAX_ORDER` nested objects; the relation `Nest < ObjNum` is what counts)
and enough slabs for one to be partial, one full and one free. `MaxFree` bounds
`kmem->free`, which double frees would raise forever; `MaxOut` and `MaxStale` bound
the damage: two callers with one object, and two objects in that state at a time, so
that one may be healed while the other is not. Slabs are symmetric. `OneHolder` says
that only a free by a caller that no longer has the object leads to two callers with
one object, that the bit is then set for a caller who can free it, and that all is
well again when they have; `Counters` that `kmem->free` is off by `drift` exactly.
*trap_frame* checks that
interrupted code goes on with its own pc, stack and registers, `t0`-`t2`
excepted. *pid_alloc* wraps its counter many times.

*virtio_blk* shows that no descriptor is lost or shared (`DescriptorsPartitioned`),
that a freed request cannot be reached through the queue, the device or the other
hart's handler (`ReachableIsLive`), that a read returns the sector and never
succeeds past the end (`ReadReturnsSector`), and that a submitted request ends
whoever takes its answer (`RequestEnds`). The lock of the block device admits one
request at a time, so more sectors or harts repeat these; a queue of two
descriptors is too short for a request of three, one of eight is cut to
the driver's size of four, and `IdxMod` 8 makes both indices wrap. Sector numbers wrap at
`SectorMod` 3, so that `sector + count` passes the end.

*bcache* has fewer buffers than blocks, so buffers are evicted, run out (the
code panics) and are asked for while they are being filled. Three blocks in
order are the least for which one hart holds two and another competes. It shows
`OneBufferPerBlock`, `RefsExact`, the refinement of BlockStore, and that the only
deadlock is the one of `OnlySyncDeadlocks`.

*files* has the most references a file can have with two threads and two tables;
`RefMod` 8 is above that, so that a count that wrapped stands out. It shows
`RefsExact`, `DescriptorStable` and `SizeCovers`. Files and threads are
symmetric.

*vfs* covers every sequence of calls until the dentries run out: as no dentry is
found in the cache again, seven make calls of up to four components fail at
every place. One file system has directories `/d` and `/d/a`, the other a file `a`;
mounts go on `/d` and on `/d/a`, and lookups of `/d/a` and of paths through it follow
either, also after `/d/a` is removed or `/d` renamed. It shows that
nothing the kernel will follow is freed (`NoDangling`), that inode counts equal the
dentries that name the inode (`InodeRefsExact`), and that a walk finds what the path
names on the disks and mounts of the moment (`LookupAgrees`). The reference for the
last is `place`, a walk over inodes that knows a given list of mounts. With no mount
below the first level the list is that of all mounts; with one, the kernel behaves as
if that mount were not there, and the property says exactly this: it describes what
`vfs.c:268` does and does not vindicate it. `RefMod` 3
lets the root's count wrap. In a table of eight buckets, as in one of 128, no key
is stored in the bucket of its own number.

Deadlock is checked except in `virtio_blk` and `virtio_write`, where a failed
start of the device ends everything, and `bcache`, whose deadlock
`OnlySyncDeadlocks` describes. `Halted` is the machine after `panic()`; Spinlock has no such step, so that a panic there is a deadlock as well.

### What the failing runs show

1. **`buddy_nested`**, `src/mm/buddy.c:156`. A split takes a block off its list
   but leaves its descriptor saying that it is on one. If the `mem_block` it asks
   for makes the cache grow, the nested allocation merges the listed buddy with
   the off-list block and hands both out as a slab; the outer split lists the
   halves again. It takes a request smaller than a slab. The comment at
   `src/mm/buddy.c:186` reads a NULL `private` as "not managed by the buddy
   system". The same property fails with two threads and no growth, because
   `buddy_free` sets `private` at line 238 before it takes the lock.
2. **`virtio_write`**, `src/hal/virtio/virtio_blk.c:82`. The data of a write are
   queued with `VRING_DESC_F_WRITE`, as for a read, although
   `include/hal/virtio.h:100` says that this flag means that the device writes
   and line 125 that the request writes to the disk. The device finds no data to
   read, answers OK, and the sector keeps its contents. `virtio_blk` therefore
   states `ReadReturnsSector` only, and Bcache takes `blk_write` at its word.

Seen while modelling, without a run of its own:

* *Memory.* `slab_free` knows a double free by the clear bit (`slab.c:118`). If the
  object has been served again, the second free takes it from its new caller, and the
  next allocation serves it while that caller uses it: `stale` in Slab. A refused
  double free still increments `kmem->free` (`slab.c:244`).
  `kmem_cache_flush` returns with the lock held below the high mark
  (`slab.c:255`), and above it moves slabs to `slabs_free` without subtracting
  their objects, which a later refill adds again. In the classes of 24 and 48
  bytes the last object ends past the slab, because `ALIGN_UP` is applied to a
  size that is not a power of two (`slab.c:54`). `krealloc` copies nothing.
* *Interrupts and threads.* A trap between `intr_off`'s store of
  `cpu->intr_state` and its write of `sstatus` overwrites `intr_state`, and the
  matching `intr_on` leaves interrupts off (`trap.c:54`). `kernelvec` overwrites
  `t0`-`t2` before it saves them (`kernelvec.S:12`). `kthread_exit` calls
  `sched_yield` with interrupts on: a tick after `proc = NULL` reaches the
  assertion at `sched.c:53`, and one after `c->proc = next` stores the exiting
  thread's registers into `next`'s context, hence the conditions in
  `PanicNeedsExit` and `OwnStack`. Zombies are never reclaimed (`kthread.c:71`);
  nothing clears `need_resched`, so every interrupt after the first tick
  reschedules; pids of live procs are given again after the wrap.
* *Block devices.* A start that fails leaves `virtio_blk` pointing to freed
  memory. `bread` marks a buffer valid although the device failed, `bwrite`
  clears `dirty` likewise. `bcache_sync` can deadlock with a hart that holds a
  dirty buffer and asks for another block.
* *Files.* `file_put` calls `file_close` at zero, which decrements once more: the
  count wraps and the file is never freed. With two opens of an inode, each with
  its own lock, a shorter `i_size` can overwrite a longer one, hence the
  condition in `SizeCovers`.
* *File system.* `dentry_lookup` scans the bucket numbered by the key and
  `hashtable_insert` uses `hash_ptr` of it. The two differ in their lowest bit, so
  no dentry is ever found again, and every walk allocates new ones, which are not
  freed. If the bucket alone were fixed, walks would share dentries without a reference
  of their own, and the count of an open file's dentry would be lost, or `vfs_unlink`
  free it (the mutant of `NoDangling`). `vfs_open` keeps the reference of its lookup. A
  walk that fails after its first component puts the root once too often
  (`namei.c:201`). A mount below the first level is never found again
  (`vfs.c:268`): the call succeeds, and paths still lead to the directory below it,
  hence `Deep` in `LookupAgrees`. `inode_truncate` takes a lock it
  holds; `I_DIRTY` (3) overlaps other flags; `super_register` and `vfs_mount`
  link one node into two lists; these have no caller and no module.

### Fairness

* Buddy: weak fairness of the steps inside the lock. Its holder has interrupts
  off and is not preempted.
* Spinlock: a hart executes what it has begun (weak); critical sections end
  (strong, because a trap or a nested lock may disable the release for a while);
  of the harts spinning on a free lock some one succeeds. No hart in particular
  is assumed to win: the lock has no queue, so `Handover` promises progress of
  the lock and not of each hart.
* Sched: a timer tick is taken if interrupts are on again and again, since
  `handle_timer` always arms the next one; a thread that runs goes on, strong
  because a tick may preempt it at any step. `EveryoneRuns` assumes in its own
  statement that interrupts are on again and again, which the
  window in `intr_off` shows that the code does not guarantee by itself.
* PidAlloc: a caller inside `alloc_pid` executes. Nobody is assumed to win the
  exchange.
* VirtioBlk: a hart in the driver executes (weak), the device takes what it is
  told of and answers what it took (weak). An interrupt is never assumed.

Bcache, Files, Slab, Trapframe and Vfs state safety only and assume none.

## Proofs

All theorems are checked by TLAPS to the last leaf, for every value of the
constants that satisfies the module's assumptions.

**Buddy_proofs.** Theorems `TypeCorrect`, `ChecksNeverFire`, `MemoryNeverShared`
and `Refinement`, each from `Invariance`: under `SafeUse`, `Spec => []IInv`.
`SafeUse` says that one thread of execution uses the allocator and, if a split
may grow the cache, that no request is smaller than a slab. Both conditions are
needed, as `buddy_nested` and the observation beside it show, so the theorems
say how far the code can be relied on. `NoDoubleUse` is not inductive: a merge
reads page descriptors, so `IInv` adds `Descriptors` (`private` marks exactly the
blocks the buddy system has and `order` is the order of every block, free or
not), `Placed` (every block is aligned and in the region), `Separate` (any two
blocks are apart, in the arithmetic form the SMT solver handles) and `Control`
(loop bounds, and that the nested call of a suspended split wants an order that
is not above any it could disturb). Lemmas on alignment give: the buddy of a block is a
block of the same order, the lower of two buddies is aligned to the next order,
their union is the merged block. Every action has a lemma with a step for each conjunct it can
disturb. The refinement maps `held` to itself; a step that serves a block is an
`Alloc` because the block was listed and therefore apart from all held ones.

Three more theorems need more than `IInv`. `PagesKept` and `PagesCounted` rest on
`Covered` and `Counted`: a page is free (on a list, or in the block of a split
that waits for the nested call) or has an owner, and `buddy_free_pages` is the
number of free pages. The lemma `FreeStep` shows that a step keeps the set of free
pages (merge, split), takes one served block out of it or puts one freed block in;
both invariants follow from that alone. For `NullIsHonest` the invariant
`Exhausted` says that no pair of listed buddies is left at an order the merge loop
has passed, that the split loop always has a block to halve, and hence that after
both a wanted list that is empty has only empty ones above it. If an aligned run
were free then, it would consist of smaller listed blocks; a smallest of them has
its buddy in the run, which by minimality is listed too: a pair that
`merge_blocks` should have joined. That there is a smallest one is the library's
theorem on well-founded relations.

**Core_proofs** extends Spinlock, Trapframe and PidAlloc together; the definitions
of the last two have names of their own (`TfSpec`, `FrameInv`, `PidSpec`, `PidInv`).

* *Spinlock*: `Exclusive`, `ChecksNeverFire`, `Masked` and `HoldingIsExact` from
  `Invariance`, for any set of harts and any finite set of locks. The
  strengthening says what the two words of a lock show at each step between their
  writes (`LockWords`), what each step knows of the lock it is about (`Flow`), and
  that `intr_depth` is the number of locks held plus one inside acquire and release
  (`Depths`), which is what ties the mask to the locks.
* *Trapframe*: `CodeResumes` from `FrameInvariance`, for any set of procs and any
  schedule. `FrameInv` follows the values through the three places they can be in:
  the registers of the code that runs, the frame `ktf` of a proc inside a handler
  (`InHandler`) and the context of one that is switched out (`Waiting`); `Shapes`
  ties these places to where each proc is. `JunkAssumption` says that the value
  `kerneltrap` leaves in `ra` is not the first instruction of a thread.
* *PidAlloc*: `PidTypeCorrect`, `NoPidSkipped` and `NoPidTwice` (an action property)
  from the invariant that the pids given since the last wrap are
  `PID_MIN..next_pid - 1` and that a caller's branch agrees with what it read.

**Sched_proofs.** `QueuedOnce`, `NoneLost`, `StacksKept`, `PanicsAfterExit` and the
action property `ZombiesStay`, for any finite set of threads and any boot queue
without repetition. `QueuedOnce` and `ZombiesStay` hold for every behaviour, exits
included; the other three up to the first exit, where the code breaks them. None is inductive alone:
`InQueueOnce` needs that the thread which is about to be queued is not queued yet
(`CurProper`, `MadeOnce`), which is known from where each saved context stands
(`SavedProper`); `Kept` accounts for all runnable threads at each step of
`sched_yield` and `kthread_create`.

**Slab_proofs.** `ObjectsServedOnce`, `SlabsOnTheirLists`, `NoMetaDataError` and
`FreeObjectsCounted` for callers that free what they lost and flush;
`GrowingFindsObjects` as long as nothing has drifted. `Sound` puts bitmap, count and
list together, so that a slab from `slabs_partial` has a clear bit; `Held` is
`OneHolder` of any cache, so that it can be followed through the inner steps of a
call; `Reserve` bounds `kmem->free` from below by the low mark less what was taken since
growth began. Slabs are finitely many, and `buddy_alloc` takes fewer `mem_block`s than
a slab has objects. `FreeObjectsCounted` follows the set `Spare`: each operation
changes it by exactly what it adds to `kmem->free` and `drift`.

**Files_proofs.** `CountsReferences`, `SizesCover` and the action property
`DescriptorsKept`, for any finite set of threads and a `RefMod` above their
number plus three. The references to a file are a sum over two tables and a set of
threads, so `Slots` says that a table has a file in one slot at most and that only
its opener knows a file that is not installed yet, and `InHand` when a thread has a
reference; `Counted` compares them with `f_refcnt`. `Locked` gives the file's lock to
a thread in `file_write`, and by `Sizes` the position it tested `i_size` against is
still the end of what was written.

**Bcache_proofs.** `BlocksCachedOnce`, `CountsUsers`, `DeadlocksInSync` and
`Refinement`, for finite sets of harts and buffers and blocks numbered up to a last one. The
invariant: a hart asks for a block above those it has, and the buffer it found keeps
that block (`Asking`); a buffer's lock is held by the hart that has the buffer
(`Owned`); valid and clean buffers show the disk unless their block has failed
(`Current`); the buffer that `bcache_sync` waits for stays cached (`Syncing`).
`DeadlocksInSync` looks at the hart that waits for the highest block: the holder of
that block asks for none or for a higher one, so it can go on unless a sync stands
in the way. In the refinement `bread` maps to taking the block, `bwrite` to the
write, `brelse` to giving it back, and eviction and flush to no step, since a
buffer nobody has is not seen.

**VirtioBlk_proofs.** `NoDescriptorLost`, `NothingFreedInUse`, `ReadsAreRight` and the
action property `DiskNeverWritten`, from `BlkInvariance`, for any set of harts, any
capacity and any queue size that divides the range of the 16-bit indices (`IdxMod`,
more than one). The lock of the device admits one request at a time, so `IInv` says
in which of three states it is: `Submitted` (queued, served or answered: the four
indices tell which), `Taken` out of the queue by the poller or by a handler that has
not marked it yet, or `Settled`. A submitted request is a chain of three descriptors
(`Flight`), and the rest of the table is the free list: `FreeList` gives it as a
sequence beside the `next` fields, since `virtq_free_desc` pushes what
`virtq_alloc_desc` popped and both overwrite `next`. The properties follow chains
by recursive functions; that such a function has the value the sequence shows is
proved by taking the least index at which it would not. `DiskNeverWritten` is the
general form of what `virtio_write` shows on an instance: no step of the driver or
of the device changes the disk.

**Vfs_proofs.** `InodesCounted`, `NothingFollowedIsFreed`, `NothingDangles` and
`CacheNeverHits`, from `VfsInvariance`, for any number of dentries, any names, hashes
of names, paths and disks, and tables of 2 to 128 buckets. Between calls (`Consistent`) a live dentry has a parent and
an inode, the hash table has live dentries under their own keys, inode counts equal
the dentries that name the inode (`Tree`); mounts lead to roots, mount points and
the dentries of open files have live parents, and no open file has a mount point
for its dentry unless that is a root (`Anchored`). The proofs rest on what a call in
progress may touch (`Working`): the dentries that were there when it began are all
still there and only the counts of roots have changed (`Kept`), and a walk reaches
nothing but roots and dentries of the call itself (`Reached`), whose parents are
such dentries too (`Linked`, for `..`). This is so because `dentry_lookup` never
hits: `hash_ptr` changes the lowest bit of every key (`HashMoves`), so no call sees
the dentry of another one and `dentry_free` only ever takes the call's own. Each
operator that can fail has a lemma for both results; a walk is a recursive function
over the path, and its lemma is proved at the least component at which it would
fail. `NoDangling` speaks of one parent level, for mount points and open files, because that
is what the code follows from them; of a hashed dentry it says that it is live.
`NothingDangles` includes that `d_refcnt` counts an open file, and assumes
`SafeWalks`: `..` stands at the end of a path only, as in the run. Elsewhere the walk
puts a parent that it has no reference to, and the count of a dentry that is opened
later may be zero; `NothingFollowedIsFreed` is the rest of the property, without
this assumption.

Only model-checked: liveness (`AllocEnds`, `Handover`, `EveryoneRuns`,
`SomeoneFinishes`, `RequestEnds`), since fairness is beyond the prover; and
`LookupAgrees`, which compares a walk over dentries with one over the disks and
mounts by induction over the path, for two recursions at once.

## Plan

Done: Blocks, PageAllocator, Buddy, Slab, Spinlock, Sched, Trapframe, PidAlloc,
VirtioBlk, BlockStore, Bcache, Files, Dcache, Vfs and the proofs above. Next, in
this order:

1. **AddressSpace**: page tables against a function from virtual to physical
   pages, the vma list; `pm_init` with `early_alloc`.
2. Concurrent calls in Vfs: `inode_get`'s check and insert as two steps.
3. The boot window of `src/boot/main.c:41` in Trapframe, the failure paths of
   `kthread_create` in Sched, the lock order of caches and buddy system on several
   harts as a composition of Slab, Buddy and Spinlock, and Bcache over VirtioBlk.

Left out or assumed inside the parts that are modelled:

* Buddy: the panic of `buddy_free` without a `mem_block` (`buddy.c:233`) and its return
  for an address outside the region.
* Spinlock: `spinlock_holding` reads `locked` and `owner` in one step; two would
  answer the same, as no other hart writes this hart's number. `wfi` in the spin loop.
* Sched: the `context_switch` of an exiting thread is one step. Trapframe: switches
  happen inside a handler; the one of `kthread_exit` leaves a frame nobody returns to.
* Bcache: the write-back of an evicted buffer does not fail; the buffers nobody has are
  clean, so it does not happen either.
* Vfs: `kmalloc` of the last component in `vfs_path_parent` does not fail
  (`namei.c:294`); `vfs_mount_put`, which has no caller, is taken for a file system that
  nothing uses, though the code does not test for it.
* Dcache: `dentry_lru`, which nothing reads, and into which `dentry_put` may link a
  dentry twice; the inode numbers of two file systems are different, since
  `inode_get` compares numbers only (`inode.c:104`) and would take one for the other;
  `LookupAgrees` rests on this.

Not modelled: page tables and address spaces (planned); the user trap path of
`trampoline.S`, which has no C side; `page_alloc`/`page_free`, `krealloc` and
`slab_destroy`, which are stubs or have no caller; the sizes and offsets inside a
slab; the registered file systems, `super_register`, `super_lookup`,
`inode_dirty`, `inode_write`, `inode_truncate`, `file_getdents` and the radix tree,
which no code calls or which only call a file system; SBI, PLIC and UART register
accesses; formatting and string functions; vendored code. PROJECT.json gives the
reason for each component.
