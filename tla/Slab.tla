-------------------------------- MODULE Slab ---------------------------------
(***************************************************************************)
(* A kmem_cache of src/mm/slab.c: slabs of ObjNum objects taken from the   *)
(* buddy system, the three lists they move between, and the counters that  *)
(* decide when the cache grows.                                            *)
(*                                                                         *)
(* The cache is used by one hart (kmalloc has a pool per hart) and under   *)
(* its lock, so a call is one step, except where it calls buddy_alloc: the *)
(* buddy system takes and frees mem_blocks, and if they live in this very  *)
(* cache the call comes back here while the cache is growing.              *)
(***************************************************************************)
EXTENDS Integers, FiniteSets

CONSTANTS
    Slabs,      \* blobs the buddy system may hand out
    ObjNum,     \* object_num(alloc_size)
    Nest,       \* mem_blocks that one buddy_alloc takes at most: BUDDY_MAX_ORDER
    Misuse,     \* what callers do beyond the usual: "double_free", "flush"
    MaxFree,    \* bound on kmem->free for the model checker
    MaxOut,     \* bound on the callers that have one object
    MaxStale    \* bound on the objects that callers share by mistake

ASSUME SlabAssumption ==
    /\ IsFiniteSet(Slabs) /\ ObjNum \in Nat \ {0}
    /\ Nest \in 0..(ObjNum - 1)
    /\ Misuse \subseteq {"double_free", "flush"} /\ MaxOut \in Nat /\ MaxStale \in Nat

Index == 0..(ObjNum - 1)
Objects == Slabs \X Index
low  == ObjNum
high == 2 * ObjNum

VARIABLES
    kmem,     \* the cache: free, total, expanding, and of each slab s the list
              \* it is on, the bits set in s->bm and s->free
    leaked,   \* the lock is held though no call is in progress
    nested,   \* mem_blocks taken by the buddy_alloc that is in progress
    refused,  \* buddy_alloc has returned NULL
    drift,    \* refused frees that were counted, and objects of flushed slabs
    out,      \* how many callers have an object
    stale,    \* objects freed by a caller that no longer had them, though others
              \* do, until the last of these has freed them
    halt      \* the failure that was reached, or "no"

vars == <<kmem, leaked, nested, refused, drift, out, stale, halt>>

On(k, list) == {s \in Slabs : k.where[s] = list}

\* Mutant: the objects of the new slab are not added to kmem->free.
slab_init_uncounted(k, s) ==
    [k EXCEPT !.where[s] = "partial", !.bm[s] = {}, !.sfree[s] = ObjNum,
              !.total = @ + ObjNum]

\* slab_init of a blob and the counting that follows it.
slab_init(k, s) ==
    [k EXCEPT !.where[s] = "partial", !.bm[s] = {}, !.sfree[s] = ObjNum,
              !.total = @ + ObjNum, !.free = @ + ObjNum]

Empty == [where |-> [s \in Slabs |-> "none"], bm |-> [s \in Slabs |-> {}],
          sfree |-> [s \in Slabs |-> 0], free |-> 0, total |-> 0,
          expanding |-> FALSE]

\* kmem_cache_init with its initial slab.
Init ==
    /\ kmem \in {slab_init(Empty, s) : s \in Slabs}
    /\ leaked = FALSE /\ nested = 0 /\ refused = FALSE /\ drift = 0
    /\ out = [x \in Objects |-> 0] /\ stale = {}
    /\ halt = "no"
-----------------------------------------------------------------------------
\* bitmap_find_next_clear(&s->bm, 0)
NextClear(bits) == CHOOSE i \in Index \ bits : \A j \in Index \ bits : i <= j

\* Mutant: the bit of the object is not set.
slab_alloc_unset(k, s, i) ==
    [k EXCEPT !.sfree[s] = @ - 1, !.free = @ - 1,
              !.where[s] = IF k.sfree[s] = 1 THEN "full" ELSE @]

\* slab_alloc of object i, and kmem->free--.
slab_alloc(k, s, i) ==
    [k EXCEPT !.sfree[s] = @ - 1, !.free = @ - 1, !.bm[s] = @ \cup {i},
              !.where[s] = IF k.sfree[s] = 1 THEN "full" ELSE @]

\* The end of kmem_cache_alloc_nolock: NULL, or an object of the first slab of
\* slabs_partial.  list_first_entry of an empty list is no slab at all.
take(k) ==
    \/ /\ k.free = 0
       /\ kmem' = k /\ UNCHANGED <<out, halt>>
    \/ /\ k.free # 0 /\ On(k, "partial") = {}
       /\ kmem' = k /\ halt' = "no_slab" /\ UNCHANGED out
    \/ /\ k.free # 0
       /\ \E s \in On(k, "partial") :
            IF k.bm[s] = Index
              THEN kmem' = k /\ halt' = "slab_meta_data_error" /\ UNCHANGED out
              ELSE LET i == NextClear(k.bm[s])
                   IN  /\ kmem' = slab_alloc(k, s, i)
                       /\ out' = [out EXCEPT ![<<s, i>>] = @ + 1]
                       /\ UNCHANGED halt

\* Mutant: the cache grows only when it is empty.
needs_slab_late(k) == ~k.expanding /\ k.free = 0

\* The first test of kmem_cache_alloc_nolock.
needs_slab(k) == ~k.expanding /\ k.free < low

\* kmem_cache_alloc, up to its call of buddy_alloc if there is one.  A nested
\* call comes from buddy_alloc, which wants a mem_block.
kmem_cache_alloc ==
    /\ halt = "no"
    /\ IF needs_slab(kmem) THEN
         IF On(kmem, "free") # {}
           THEN /\ \E s \in On(kmem, "free") :
                     take([kmem EXCEPT !.where[s] = "partial",
                             !.total = @ + ObjNum, !.free = @ + kmem.sfree[s]])
                /\ UNCHANGED nested
           ELSE /\ kmem' = [kmem EXCEPT !.expanding = TRUE]
                /\ nested' = 0
                /\ UNCHANGED <<out, halt>>
       ELSE /\ kmem.expanding => nested < Nest
            /\ nested' = IF kmem.expanding THEN nested + 1 ELSE nested
            /\ take(kmem)
    /\ UNCHANGED <<leaked, refused, drift, stale>>

\* buddy_alloc returns to kmem_cache_alloc_nolock, with a blob or without.
expand ==
    /\ halt = "no" /\ kmem.expanding
    /\ \/ /\ \E s \in On(kmem, "none") :
               take(slab_init([kmem EXCEPT !.expanding = FALSE], s))
          /\ UNCHANGED refused
       \/ /\ take([kmem EXCEPT !.expanding = FALSE])
          /\ refused' = TRUE
    /\ UNCHANGED <<leaked, nested, drift, stale>>
-----------------------------------------------------------------------------
\* Mutant: a full slab that gets an object back stays on slabs_full.
slab_free_stays(k, s, i) ==
    [k EXCEPT !.bm[s] = @ \ {i}, !.sfree[s] = @ + 1]

\* slab_free of an object whose bit is set.
slab_free(k, s, i) ==
    [k EXCEPT !.bm[s] = @ \ {i}, !.sfree[s] = @ + 1,
              !.where[s] = IF k.sfree[s] = 0 THEN "partial" ELSE @]

\* kmem_cache_free by a caller that has the object, or by one that does not have
\* it any more.  An object whose bit is clear is reported as a double free, and
\* kmem->free is incremented all the same; nothing tells that the bit was set for
\* another caller.
kmem_cache_free(s, i, has) ==
    LET x == <<s, i>>
    IN  /\ halt = "no" /\ kmem.where[s] # "none" /\ kmem.free < MaxFree
        /\ IF has THEN out[x] > 0
           ELSE /\ "double_free" \in Misuse /\ out[x] < MaxOut
                /\ i \in kmem.bm[s] => Cardinality(stale \cup {x}) <= MaxStale
        /\ IF i \notin kmem.bm[s]
             THEN /\ kmem' = [kmem EXCEPT !.free = @ + 1]
                  /\ drift' = drift + 1
                  /\ UNCHANGED halt
             ELSE IF kmem.sfree[s] = ObjNum
             THEN halt' = "meta_data_error_in_slab" /\ UNCHANGED <<kmem, drift>>
             ELSE /\ kmem' = [slab_free(kmem, s, i) EXCEPT !.free = @ + 1]
                  /\ UNCHANGED <<drift, halt>>
        /\ out' = IF has THEN [out EXCEPT ![x] = @ - 1] ELSE out
        /\ stale' = IF has THEN (IF out[x] = 1 THEN stale \ {x} ELSE stale)
                    ELSE IF i \in kmem.bm[s] THEN stale \cup {x} ELSE stale
        /\ UNCHANGED <<leaked, nested, refused>>

\* kmem_cache_flush: below the high mark it returns without releasing the lock;
\* above it kmem->free still counts the slabs that leave slabs_partial.
unused(k) == {s \in On(k, "partial") : k.sfree[s] = ObjNum}
kmem_cache_flush ==
    /\ halt = "no" /\ ~kmem.expanding /\ "flush" \in Misuse
    /\ IF leaked THEN halt' = "recursive_lock_acquire" /\ UNCHANGED <<kmem, drift, leaked>>
       ELSE /\ IF kmem.free < high
                 THEN leaked' = TRUE /\ UNCHANGED <<kmem, drift>>
                 ELSE /\ kmem' = [kmem EXCEPT !.where =
                           [s \in Slabs |-> IF s \in unused(kmem) THEN "free" ELSE @[s]]]
                      /\ drift' = drift + ObjNum * Cardinality(unused(kmem))
                      /\ UNCHANGED leaked
            /\ UNCHANGED halt
    /\ UNCHANGED <<nested, refused, out, stale>>

Halted == halt # "no" /\ UNCHANGED vars

Next ==
    \/ kmem_cache_alloc \/ expand
    \/ \E s \in Slabs, i \in Index, has \in BOOLEAN : kmem_cache_free(s, i, has)
    \/ kmem_cache_flush
    \/ Halted

Spec == Init /\ [][Next]_vars
-----------------------------------------------------------------------------
IsSet(k, x) == x[2] \in k.bm[x[1]]

\* The bit of an object is set exactly while one caller has it, whatever other
\* objects are freed twice or flushed: a free by a caller that no longer has the
\* object, after it was served again, is the only way to two callers with one
\* object.  That object has a caller whenever its bit is set, so it can be freed,
\* and the damage is over when all of them have freed it.
OneHolder ==
    \A x \in Objects :
        /\ x \notin stale => out[x] = IF IsSet(kmem, x) THEN 1 ELSE 0
        /\ IsSet(kmem, x) => out[x] > 0

\* s->free counts the clear bits of a slab, and the slab is on slabs_full exactly
\* when there are none: slabs_partial never yields a slab without an object.
ListsAgree ==
    \A s \in Slabs \ On(kmem, "none") :
        /\ kmem.sfree[s] = ObjNum - Cardinality(kmem.bm[s])
        /\ kmem.where[s] = "full" <=> kmem.sfree[s] = 0

\* The objects a cache k could serve: the clear bits on slabs_partial and slabs_full.
Spare(k) ==
    {x \in Slabs \X Index : k.where[x[1]] \in {"partial", "full"} /\ x[2] \notin k.bm[x[1]]}

\* kmem->free is the number of objects that the cache can serve, a cache that is
\* growing included, plus one for every free that was refused and the objects of
\* every slab that was flushed; nothing else makes it drift, and the cache follows
\* an empty slabs_partial only when it has.
Counters ==
    /\ kmem.free = Cardinality(Spare(kmem)) + drift
    /\ halt = "no_slab" => drift > 0

\* The low mark leaves enough objects for the mem_blocks that growing the cache
\* takes from the cache itself, so that split_blocks runs out of them only after
\* the buddy system has run out of memory.
ReserveSuffices ==
    kmem.expanding /\ ~refused /\ drift = 0 /\ nested < Nest => kmem.free > 0
-----------------------------------------------------------------------------
(* The inductive invariant. *)
Lists == {"none", "partial", "full", "free"}
Cache == [where : [Slabs -> Lists], bm : [Slabs -> SUBSET Index], sfree : [Slabs -> Nat],
          free : Nat, total : Nat, expanding : BOOLEAN]

TypeOK ==
    /\ kmem \in Cache /\ out \in [Objects -> Nat] /\ stale \subseteq Objects
    /\ nested \in 0..Nest /\ drift \in Nat
    /\ leaked \in BOOLEAN /\ refused \in BOOLEAN

\* Bitmaps, lists and counts of a cache k; a blob that is no slab and a slab on
\* slabs_free have no bit set.
Sound(k) ==
    \A s \in Slabs :
        /\ k.where[s] \in {"none", "free"} => k.bm[s] = {}
        /\ k.where[s] # "none" =>
             /\ k.sfree[s] = ObjNum - Cardinality(k.bm[s])
             /\ k.where[s] = "full" <=> k.sfree[s] = 0

\* OneHolder of a cache k, callers o and stale objects t.
Held(k, o, t) ==
    \A x \in Objects :
        /\ x \notin t => o[x] = IF IsSet(k, x) THEN 1 ELSE 0
        /\ IsSet(k, x) => o[x] > 0

\* Between two calls the cache is at most one object below its low mark, and
\* while it grows one more for every mem_block taken since.  Only a flush puts a
\* slab on slabs_free.
Reserve ==
    ~refused /\ drift = 0 =>
        /\ On(kmem, "free") = {}
        /\ kmem.free >= ObjNum - 1 - (IF kmem.expanding THEN nested ELSE 0)

\* The two meta data errors of slab_alloc and slab_free are not among the panics.
Panics == halt \in {"no", "no_slab", "recursive_lock_acquire"}

IInv == TypeOK /\ Sound(kmem) /\ Held(kmem, out, stale) /\ Reserve /\ Panics
==============================================================================
