-------------------------------- MODULE Buddy --------------------------------
(***************************************************************************)
(* The buddy page allocator of src/mm/buddy.c together with the page       *)
(* descriptors of src/mm/pm.c it writes.                                   *)
(*                                                                         *)
(* A block is named by the index of its first page in the managed region   *)
(* (BUDDY_SYSTEM_BASE is aligned to the blob size, so an xor of addresses  *)
(* is an xor of indices).  A free list is the set of its blocks: which     *)
(* entry is first decides which block is served, never whether one is.     *)
(*                                                                         *)
(* buddy_alloc runs under the lock in several steps, one per list access,  *)
(* because two things happen in between: another thread executes the part  *)
(* of buddy_free that precedes spinlock_acquire, and split_blocks calls    *)
(* kmalloc for its mem_block, which may come back into                     *)
(* buddy_alloc_nolock for a new slab while a block is off its list.        *)
(*                                                                         *)
(* list_del of an entry that is on no list is undefined in the code; it is *)
(* modelled by its most benign outcome, no effect on the lists.            *)
(***************************************************************************)
EXTENDS Blocks, FiniteSets

CONSTANTS
    Threads,       \* kernel threads that call the allocator
    None,          \* no thread, no page, no suspended call
    Requests,      \* sizes, in pages, that callers ask for
    SlabOrder,     \* order of SLAB_BLOB_SIZE
    MetaOutcomes   \* what kmalloc may do for split_blocks, see alloc_mem_block

\* What split_blocks still has to do while a nested allocation runs.
Frames == [want : Orders, level : Orders, block : PageIdx]

ASSUME NoneAssumption == None \notin Threads \cup PageIdx \cup Frames
ASSUME RequestAssumption ==
    /\ Requests \subseteq 1..Size[MaxOrder]
    /\ \A n \in Requests : \E o \in Orders : IsOrderOf(o, n)
ASSUME SlabAssumption    == SlabOrder \in Orders
ASSUME MetaAssumption    == MetaOutcomes \subseteq {"object", "grow", "none"}

VARIABLES
    order,      \* pages[p].order
    private,    \* the pages p with pages[p].private # NULL
    freeList,   \* buddy_free_list[o]; entry MaxOrder + 1 lies past the array
    freePages,  \* buddy_free_pages
    held,       \* blocks <<first page, order>> returned and not yet freed
    slabs,      \* those of them that a kmem_cache keeps for good
    staged,     \* staged[t]: block t is freeing, before it takes the lock
    lock,       \* the thread inside buddy_alloc, or None
    phase,      \* where buddy_alloc_nolock is
    want,       \* the order it allocates
    level,      \* i of merge_blocks, order of split_blocks
    outer,      \* the split_blocks call suspended by a nested allocation
    halt        \* the panic() that was reached, or "no"

vars == <<order, private, freeList, freePages, held, slabs, staged,
          lock, phase, want, level, outer, halt>>

lists   == <<order, private, freeList, freePages>>
owners  == <<held, slabs, staged>>
running == <<lock, phase, want, level, outer>>

Phases == {"idle", "first", "merge", "second", "split", "third", "resume"}

Init ==
    /\ order = [p \in PageIdx |->
                  IF Aligned(p, MaxOrder) THEN MaxOrder ELSE MaxOrder + 1]
    /\ private = {p \in PageIdx : Aligned(p, MaxOrder)}
    /\ freeList = [o \in 0..(MaxOrder + 1) |->
                     IF o = MaxOrder THEN {p \in PageIdx : Aligned(p, MaxOrder)}
                                     ELSE {}]
    /\ freePages = NPages
    /\ held = {} /\ slabs = {}
    /\ staged = [t \in Threads |-> None]
    /\ lock = None /\ phase = "idle" /\ want = 0 /\ level = 0
    /\ outer = None
    /\ halt = "no"

panic(why) == halt' = why /\ UNCHANGED <<lists, owners, running>>
-----------------------------------------------------------------------------
\* buddy_alloc with a valid size; an invalid one returns NULL at once.
buddy_alloc(t, n) ==
    /\ halt = "no" /\ lock = None /\ staged[t] = None
    /\ lock' = t /\ phase' = "first" /\ want' = size2order(n)
    /\ UNCHANGED <<lists, owners, level, outer, halt>>

\* buddy_alloc releases the lock and returns; its local variables are gone.
return == lock' = None /\ phase' = "idle" /\ want' = 0 /\ level' = 0

\* Mutant: the block served stays on its list.
buddy_alloc_inner_keeps ==
    /\ halt = "no" /\ phase \in {"first", "second", "third"}
    /\ \E b \in freeList[want] :
        /\ private' = private \ {b}
        /\ freePages' = freePages - Size[want]
        /\ held' = held \cup {<<b, want>>}
        /\ lock' = None /\ phase' = "idle"
        /\ UNCHANGED <<order, freeList, slabs, staged, want, level, outer, halt>>

\* buddy_alloc_inner, reached from any of the three tests of the list.
buddy_alloc_inner ==
    /\ halt = "no" /\ phase \in {"first", "second", "third"}
    /\ \E b \in freeList[want] :
        IF order[b] # want THEN panic("order broken") ELSE
        /\ private' = private \ {b}
        /\ freeList' = [freeList EXCEPT ![want] = @ \ {b}]
        /\ freePages' = freePages - Size[want]
        /\ held' = held \cup {<<b, want>>}
        /\ IF outer = None
             THEN return /\ UNCHANGED slabs
             ELSE /\ slabs' = slabs \cup {<<b, want>>}
                  /\ phase' = "resume"
                  /\ UNCHANGED <<lock, want, level>>
        /\ UNCHANGED <<order, staged, outer, halt>>

\* The list is empty: on to merge_blocks, split_blocks, or return NULL.
Miss ==
    /\ halt = "no" /\ phase \in {"first", "second", "third"}
    /\ freeList[want] = {}
    /\ \/ /\ phase = "first"
          /\ phase' = "merge" /\ level' = 0
          /\ UNCHANGED <<lock, want>>
       \/ /\ phase = "second"
          /\ LET sources == {o \in Orders : o > want /\ freeList[o] # {}}
             IN  IF sources = {} THEN phase' = "third" /\ UNCHANGED level
                 ELSE /\ phase' = "split"
                      /\ level' \in sources
                      /\ \A o \in sources : level' <= o
          /\ UNCHANGED <<lock, want>>
       \/ /\ phase = "third"
          /\ IF outer = None THEN return
                             ELSE phase' = "resume" /\ UNCHANGED <<lock, want, level>>
    /\ UNCHANGED <<lists, owners, outer, halt>>
-----------------------------------------------------------------------------
\* The pairs that the inner loop of merge_blocks looks for.
Mergeable(b, i) ==
    LET c == get_buddy_addr(b, order[b])
    IN  b \in freeList[i] /\ c \in private /\ order[c] = i

\* Mutant: the buddy's mem_block is not taken off its list.
Merge_keeps_buddy(b) ==
    LET c  == get_buddy_addr(b, order[b])
        lo == IF b < c THEN b ELSE c
        hi == IF b < c THEN c ELSE b
    IN  /\ private' = private \ {hi}
        /\ order' = [order EXCEPT ![hi] = MaxOrder + 1, ![lo] = level + 1]
        /\ freeList' = [freeList EXCEPT ![level] = @ \ {b},
                                        ![level + 1] = @ \cup {lo}]
        /\ UNCHANGED <<freePages, phase, level>>

Merge(b) ==
    LET c  == get_buddy_addr(b, order[b])
        lo == IF b < c THEN b ELSE c
        hi == IF b < c THEN c ELSE b
    IN  /\ private' = private \ {hi}
        /\ order' = [order EXCEPT ![hi] = MaxOrder + 1, ![lo] = level + 1]
        /\ freeList' = [freeList EXCEPT ![level] = @ \ {b, c},
                                        ![level + 1] = @ \cup {lo}]
        /\ UNCHANGED <<freePages, phase, level>>

\* Mutant: the loop over orders stops one short.
merge_blocks_short ==
    /\ halt = "no" /\ phase = "merge"
    /\ IF level + 1 >= want
         THEN phase' = "second" /\ UNCHANGED <<lists, level>>
         ELSE \/ \E b \in freeList[level] : Mergeable(b, level) /\ Merge(b)
              \/ /\ ~\E b \in freeList[level] : Mergeable(b, level)
                 /\ level' = level + 1
                 /\ UNCHANGED <<lists, phase>>
    /\ UNCHANGED <<owners, lock, want, outer, halt>>

\* Mutant: the loop leaves an order only once its list is empty.
merge_blocks_stuck ==
    /\ halt = "no" /\ phase = "merge"
    /\ IF level = want
         THEN phase' = "second" /\ UNCHANGED <<lists, level>>
         ELSE \/ \E b \in freeList[level] : Mergeable(b, level) /\ Merge(b)
              \/ /\ freeList[level] = {}
                 /\ level' = level + 1
                 /\ UNCHANGED <<lists, phase>>
    /\ UNCHANGED <<owners, lock, want, outer, halt>>

merge_blocks ==
    /\ halt = "no" /\ phase = "merge"
    /\ IF level = want
         THEN phase' = "second" /\ UNCHANGED <<lists, level>>
         ELSE \/ \E b \in freeList[level] : Mergeable(b, level) /\ Merge(b)
              \/ /\ ~\E b \in freeList[level] : Mergeable(b, level)
                 /\ level' = level + 1
                 /\ UNCHANGED <<lists, phase>>
    /\ UNCHANGED <<owners, lock, want, outer, halt>>
-----------------------------------------------------------------------------
\* Mutant: the second list_add_tail is missing.
Halve_drops(b, o) ==
    LET c == get_buddy_addr(b, o - 1)
    IN  /\ order' = [order EXCEPT ![b] = o - 1, ![c] = o - 1]
        /\ private' = private \cup {c}
        /\ freeList' = [freeList EXCEPT ![o] = @ \ {b}, ![o - 1] = @ \cup {b}]
        /\ level' = o - 1
        /\ UNCHANGED freePages

\* Mutant: page->order = new_order is missing.
Halve_stale_order(b, o) ==
    LET c == get_buddy_addr(b, o - 1)
    IN  /\ order' = [order EXCEPT ![c] = o - 1]
        /\ private' = private \cup {c}
        /\ freeList' = [freeList EXCEPT ![o] = @ \ {b},
                                        ![o - 1] = @ \cup {b, c}]
        /\ level' = o - 1
        /\ UNCHANGED freePages

\* The body of split_blocks once it has its second mem_block: b, off list o,
\* becomes two blocks of order o - 1.
Halve(b, o) ==
    LET c == get_buddy_addr(b, o - 1)
    IN  /\ order' = [order EXCEPT ![b] = o - 1, ![c] = o - 1]
        /\ private' = private \cup {c}
        /\ freeList' = [freeList EXCEPT ![o] = @ \ {b},
                                        ![o - 1] = @ \cup {b, c}]
        /\ level' = o - 1
        /\ UNCHANGED freePages

\* One turn of the loop of split_blocks.  alloc_mem_block finds an object,
\* first grows the mem_block cache by a nested buddy_alloc, or finds none.
\* The expanding flag of the cache keeps a nested call from growing it again.
split_blocks ==
    /\ halt = "no" /\ phase = "split"
    /\ \/ /\ level = want
          /\ phase' = "third"
          /\ UNCHANGED <<lists, want, level, outer, halt>>
       \/ /\ level > want
          /\ \E b \in freeList[level] :
               IF order[b] # level
                 THEN /\ halt' = "order broken"
                      /\ UNCHANGED <<lists, phase, want, level, outer>>
                 ELSE \/ /\ "object" \in MetaOutcomes
                         /\ Halve(b, level)
                         /\ UNCHANGED <<phase, want, outer, halt>>
                      \/ /\ "grow" \in MetaOutcomes /\ outer = None
                         /\ freeList' = [freeList EXCEPT ![level] = @ \ {b}]
                         /\ outer' = [want |-> want, level |-> level, block |-> b]
                         /\ phase' = "first" /\ want' = SlabOrder
                         /\ UNCHANGED <<order, private, freePages, level, halt>>
                      \/ /\ "none" \in MetaOutcomes
                         /\ halt' = "metadata OOM"
                         /\ UNCHANGED <<lists, phase, want, level, outer>>
    /\ UNCHANGED <<owners, lock>>

\* The nested allocation returned: kmalloc takes an object, or has none.
resume ==
    /\ halt = "no" /\ phase = "resume"
    /\ \/ /\ Halve(outer.block, outer.level)
          /\ phase' = "split" /\ want' = outer.want /\ outer' = None
          /\ UNCHANGED halt
       \/ /\ "none" \in MetaOutcomes
          /\ halt' = "metadata OOM"
          /\ UNCHANGED <<lists, phase, want, level, outer>>
    /\ UNCHANGED <<owners, lock>>
-----------------------------------------------------------------------------
\* buddy_free up to spinlock_acquire.  The mem_block comes from kmalloc, whose
\* growth is an ordinary buddy_alloc made before this step.
buddy_free(t, b, o) ==
    /\ halt = "no" /\ lock # t /\ staged[t] = None
    /\ <<b, o>> \in held \ slabs
    /\ private' = private \cup {b}
    /\ staged' = [staged EXCEPT ![t] = b]
    /\ held' = held \ {<<b, o>>}
    /\ UNCHANGED <<order, freeList, freePages, slabs, running, halt>>

\* Mutant: one page is counted, whatever the order of the block.
buddy_free_commit_miscounts(t) ==
    /\ halt = "no" /\ lock = None /\ staged[t] # None
    /\ LET b == staged[t] IN
        /\ freePages' = freePages + Size[0]
        /\ freeList' = [freeList EXCEPT ![order[b]] = @ \cup {b}]
    /\ staged' = [staged EXCEPT ![t] = None]
    /\ UNCHANGED <<order, private, held, slabs, running, halt>>

\* The critical section of buddy_free.
buddy_free_commit(t) ==
    /\ halt = "no" /\ lock = None /\ staged[t] # None
    /\ LET b == staged[t] IN
        /\ freePages' = freePages + Size[order[b]]
        /\ freeList' = [freeList EXCEPT ![order[b]] = @ \cup {b}]
    /\ staged' = [staged EXCEPT ![t] = None]
    /\ UNCHANGED <<order, private, held, slabs, running, halt>>

\* panic() powers the machine off.
Halted == halt # "no" /\ UNCHANGED vars

Next ==
    \/ \E t \in Threads, n \in Requests : buddy_alloc(t, n)
    \/ buddy_alloc_inner \/ Miss \/ merge_blocks \/ split_blocks \/ resume
    \/ \E t \in Threads, h \in held : buddy_free(t, h[1], h[2])
    \/ \E t \in Threads : buddy_free_commit(t)
    \/ Halted

Spec == Init /\ [][Next]_vars

\* The lock holder has its interrupts off and is never preempted.
FairSpec ==
    Spec /\ WF_vars(buddy_alloc_inner \/ Miss \/ merge_blocks \/ split_blocks \/ resume)
-----------------------------------------------------------------------------
TypeOK ==
    /\ order \in [PageIdx -> 0..(MaxOrder + 1)]
    /\ private \subseteq PageIdx
    /\ freeList \in [0..(MaxOrder + 1) -> SUBSET PageIdx]
    /\ freePages \in Int
    /\ held \subseteq PageIdx \X Orders
    /\ slabs \subseteq held
    /\ staged \in [Threads -> PageIdx \cup {None}]
    /\ lock \in Threads \cup {None}
    /\ phase \in Phases /\ (lock = None <=> phase = "idle")
    /\ want \in Orders /\ level \in Orders
    /\ outer \in Frames \cup {None}
    /\ halt \in {"no", "order broken", "metadata OOM"}

Listed  == {x \in PageIdx \X (0..(MaxOrder + 1)) : x[1] \in freeList[x[2]]}
Staged  == {<<staged[t], order[staged[t]]>> : t \in {u \in Threads : staged[u] # None}}
OffList == IF outer = None THEN {} ELSE {<<outer.block, outer.level>>}
InUse   == held \cup Staged

\* No page belongs to two blocks, free or handed out: neither list surgery nor
\* a stale page descriptor ever makes buddy_alloc serve memory that is in use.
NoDoubleUse ==
    /\ Disjoint(Listed \cup OffList \cup InUse)
    /\ Listed \cap InUse = {} /\ OffList \cap (Listed \cup InUse) = {}

\* No page is lost: each one is in a listed block, in the block a split has
\* off its list, in a block being freed or in a block of a caller.
NoPageLost ==
    \A p \in PageIdx : \E x \in Listed \cup OffList \cup InUse : p \in Span(x[1], x[2])

\* The order checks of buddy_alloc_inner and split_blocks never fire.
NeverBroken == halt # "order broken"

\* buddy_free_pages, which get_free_pages_num reports, is the number of pages
\* on the lists whenever nobody holds the lock.
Accounting ==
    lock = None => freePages = Cardinality({p \in PageIdx :
                                  \E x \in Listed : p \in Span(x[1], x[2])})

\* buddy_alloc returns NULL only when the request cannot be met: no aligned run
\* of that many pages is entirely free, however the free blocks are cut up.
NullMeansFragmented ==
    phase = "third" /\ freeList[want] = {} =>
        ~\E b \in PageIdx :
            /\ Aligned(b, want)
            /\ \A p \in Span(b, want) : \E x \in Listed : p \in Span(x[1], x[2])

\* A buddy_alloc call ends, by returning or by a panic: the loops of
\* merge_blocks and split_blocks terminate.
AllocEnds == phase # "idle" ~> (phase = "idle" \/ halt # "no")

\* The lists and page descriptors implement the allocator callers rely on.
Abstract == INSTANCE PageAllocator WITH held <- held
Implements == Abstract!Spec

\* A block on a free list is marked as managed by the buddy system: its page's
\* private is not NULL.
ListedArePrivate == \A x \in Listed : x[1] \in private
-----------------------------------------------------------------------------
(***************************************************************************)
(* The inductive invariant behind NoDoubleUse.  It holds under SafeUse:    *)
(* the steps of one thread at a time, and no request smaller than a slab   *)
(* when split_blocks may have to grow the mem_block cache.                 *)
(***************************************************************************)
SafeUse ==
    /\ \A t, u \in Threads : t = u
    /\ "grow" \in MetaOutcomes => \A n \in Requests : SlabOrder <= size2order(n)

IsOuter(b, o)  == outer # None /\ b = outer.block /\ o = outer.level
IsStaged(b)    == \E t \in Threads : staged[t] = b
IsBlock(b, o)  == b \in freeList[o] \/ <<b, o>> \in held
                  \/ (IsStaged(b) /\ o = order[b]) \/ IsOuter(b, o)

\* Page descriptors agree with the lists: private marks exactly the blocks the
\* buddy system has, and order is the order of every block, free or not.
Descriptors ==
    /\ \A o \in 0..(MaxOrder + 1) : \A b \in freeList[o] : order[b] = o /\ b \in private
    /\ \A p \in private :
          p \in freeList[order[p]] \/ IsStaged(p) \/ IsOuter(p, order[p])
    /\ \A p \in PageIdx, o \in Orders :
          <<p, o>> \in held => order[p] = o /\ p \notin private
    /\ \A p \in PageIdx : IsStaged(p) => p \in private /\ p \notin freeList[order[p]]

Placed == \A p \in PageIdx, o \in 0..(MaxOrder + 1) : IsBlock(p, o) => Fits(p, o)

Separate ==
    \A p, q \in PageIdx : \A o, r \in Orders :
        IsBlock(p, o) /\ IsBlock(q, r) /\ p # q
            => p + Size[o] <= q \/ q + Size[r] <= p

\* The block a suspended split has in hand, and the loops' bounds.
Control ==
    /\ phase = "merge" => level <= want
    /\ phase = "split" => level >= want
    /\ lock # None => \A t \in Threads : staged[t] = None
    /\ (lock # None /\ "grow" \in MetaOutcomes) => SlabOrder <= want
    /\ phase = "resume" => outer # None
    /\ outer # None =>
          /\ lock # None /\ want = SlabOrder
          /\ outer.want < outer.level /\ SlabOrder <= outer.want
          /\ order[outer.block] = outer.level /\ outer.block \in private
          /\ outer.block \notin freeList[outer.level]

IInv == TypeOK /\ Descriptors /\ Placed /\ Separate /\ Control /\ NeverBroken

\* The pages of the blocks the buddy system has, the one a suspended split holds
\* included: buddy_free_pages counts them at every step.
IsFree(b, o) == b \in freeList[o] \/ IsOuter(b, o)
Free == {p \in PageIdx : \E b \in PageIdx, o \in Orders : IsFree(b, o) /\ p \in Span(b, o)}
Counted == freePages = Cardinality(Free)

Owned(b, o) == <<b, o>> \in held \/ (IsStaged(b) /\ o = order[b])
Covered == \A p \in PageIdx : \/ p \in Free
                             \/ \E b \in PageIdx, o \in Orders : Owned(b, o) /\ p \in Span(b, o)

\* merge_blocks leaves no pair behind, and split_blocks has a block to halve: a
\* wanted list that is empty after both had larger lists that were empty too.
NoPair(i) == ~\E b \in freeList[i] : Mergeable(b, i)
Exhausted ==
    /\ phase = "merge" => \A i \in 0..(level - 1) : NoPair(i)
    /\ phase = "second" => \A i \in 0..(want - 1) : NoPair(i)
    /\ phase = "split" => freeList[level] # {}
    /\ phase = "third" /\ freeList[want] = {} =>
          /\ \A i \in 0..(want - 1) : NoPair(i)
          /\ \A o \in Orders : o > want => freeList[o] = {}
=============================================================================
