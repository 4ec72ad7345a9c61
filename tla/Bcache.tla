------------------------------- MODULE Bcache --------------------------------
(***************************************************************************)
(* The buffer cache, src/mm/bcache.c.  Harts get blocks with bread, change *)
(* them with bwrite, give them back with brelse and call bcache_sync.      *)
(*                                                                         *)
(* bcache.lock and the locks of the buffers are kept apart as in the code: *)
(* a section under bcache.lock that waits for nothing is one step, and     *)
(* bcache_sync, which waits for buffers under it, is several.  blk_read    *)
(* and blk_write are atomic and may fail; their results are ignored.  The  *)
(* users are outside this code: they change a buffer only to bwrite it,    *)
(* and hold up to MaxHeld blocks, taken in increasing order.  bcache_flush *)
(* is bcache_sync for one device.                                          *)
(***************************************************************************)
EXTENDS Integers, Sequences, SequencesExt, FiniteSets

CONSTANTS Harts, Blocks, Bufs, Values, MaxHeld, Nobody

\* Block numbers are 64 bits wide.
ASSUME BcacheAssumption ==
    /\ IsFiniteSet(Harts) /\ Harts # {} /\ IsFiniteSet(Bufs) /\ Bufs # {} /\ Values # {}
    /\ Blocks \subseteq Nat /\ \E last \in Blocks : \A k \in Blocks : k <= last
    /\ MaxHeld \in Nat \ {0} /\ Nobody \notin Harts \cup Bufs \cup Values \cup Blocks

VARIABLES
    bufs,      \* struct buf: block, refcnt, dirty, valid, data
    hashed,    \* the buffers on a hash chain
    lru,       \* lru_list, head first
    lock,      \* holder of bcache.lock while it waits for a buffer
    buf_lock,  \* buffer -> holder of its lock
    disk,
    pc,
    want,      \* per hart: the block it asks for
    at,        \* per hart: the buffer it works on
    held,      \* per hart: the buffers it has from bread
    pos,       \* per hart: where bcache_sync is in lru
    panicked,
    failed     \* blocks with an I/O error

vars == <<bufs, hashed, lru, lock, buf_lock, disk, pc, want, at, held, pos, panicked, failed>>

\* bcache_init: list_add puts each buffer before the ones that are there.
Init ==
    /\ bufs = [b \in Bufs |-> [block |-> Nobody, refcnt |-> 0, dirty |-> FALSE,
                               valid |-> FALSE, data |-> CHOOSE v \in Values : TRUE]]
    /\ hashed = {} /\ lru = SetToSeq(Bufs)
    /\ lock = Nobody /\ buf_lock = [b \in Bufs |-> Nobody]
    /\ disk \in [Blocks -> Values]
    /\ pc = [h \in Harts |-> "idle"] /\ want = [h \in Harts |-> Nobody]
    /\ at = [h \in Harts |-> Nobody] /\ held = [h \in Harts |-> {}] /\ pos = [h \in Harts |-> 0]
    /\ panicked = FALSE /\ failed = {}

Goto(h, l) == pc' = [pc EXCEPT ![h] = l]
list_del(b) == RemoveAt(lru, CHOOSE i \in DOMAIN lru : lru[i] = b)
list_move(b) == <<b>> \o list_del(b)
list_move_tail(b) == list_del(b) \o <<b>>
-----------------------------------------------------------------------------
\* A call of bread.
bread(h) ==
    /\ pc[h] \in {"idle", "using"} /\ Cardinality(held[h]) < MaxHeld
    /\ \E k \in Blocks :
          /\ \A b \in held[h] : k > bufs[b].block
          /\ want' = [want EXCEPT ![h] = k]
    /\ Goto(h, "get")
    /\ UNCHANGED <<bufs, hashed, lru, lock, buf_lock, disk, at, held, pos, panicked, failed>>

\* Mutant: only buffers that have been read are found.
lookup_valid(k) == {b \in hashed : bufs[b].block = k /\ bufs[b].valid}

\* bcache_lookup.
lookup(k) == {b \in hashed : bufs[b].block = k}

unused == {b \in Bufs : bufs[b].refcnt = 0}

\* bcache_evict: the last unused buffer of the list, written back if it is dirty.
evict == lru[CHOOSE i \in DOMAIN lru :
                lru[i] \in unused /\ \A j \in DOMAIN lru : lru[j] \in unused => j <= i]
written_back == IF bufs[evict].dirty THEN [disk EXCEPT ![bufs[evict].block] = bufs[evict].data] ELSE disk

\* Mutant: a hit does not count the reference.
hit_uncounted(h, b) ==
    /\ lru' = list_move(b)
    /\ at' = [at EXCEPT ![h] = b]
    /\ Goto(h, "lock")
    /\ UNCHANGED <<bufs, hashed, disk, panicked>>

hit(h, b) ==
    /\ bufs' = [bufs EXCEPT ![b].refcnt = @ + 1]
    /\ lru' = list_move(b)
    /\ at' = [at EXCEPT ![h] = b]
    /\ Goto(h, "lock")
    /\ UNCHANGED <<hashed, disk, panicked>>

\* Mutant: the new block keeps the valid flag of the old one.
miss_valid(h) ==
    /\ unused # {} /\ disk' = written_back
    /\ bufs' = [bufs EXCEPT ![evict].block = want[h], ![evict].refcnt = 1]
    /\ hashed' = hashed \cup {evict}
    /\ lru' = list_move(evict)
    /\ at' = [at EXCEPT ![h] = evict]
    /\ Goto(h, "lock")
    /\ UNCHANGED panicked

miss(h) ==
    /\ unused # {} /\ disk' = written_back
    /\ bufs' = [bufs EXCEPT ![evict] = [@ EXCEPT !.block = want[h], !.refcnt = 1,
                                                 !.valid = FALSE, !.dirty = FALSE]]
    /\ hashed' = hashed \cup {evict}
    /\ lru' = list_move(evict)
    /\ at' = [at EXCEPT ![h] = evict]
    /\ Goto(h, "lock")
    /\ UNCHANGED panicked

\* bcache_get, up to the release of bcache.lock.
bcache_get(h) ==
    /\ pc[h] = "get" /\ lock = Nobody
    /\ \/ \E b \in lookup(want[h]) : hit(h, b)
       \/ lookup(want[h]) = {} /\ miss(h)
       \/ /\ lookup(want[h]) = {} /\ unused = {}
          /\ panicked' = TRUE
          /\ UNCHANGED <<bufs, hashed, lru, disk, at, pc>>
    /\ UNCHANGED <<lock, buf_lock, want, held, pos, failed>>

\* The lock of the buffer, after bcache.lock is released.
lock_buf(h) ==
    /\ pc[h] = "lock" /\ buf_lock[at[h]] = Nobody
    /\ buf_lock' = [buf_lock EXCEPT ![at[h]] = h]
    /\ Goto(h, "fill")
    /\ UNCHANGED <<bufs, hashed, lru, lock, disk, want, at, held, pos, panicked, failed>>

\* The rest of bread: read the block unless the buffer is valid.
fill(h) ==
    /\ pc[h] = "fill"
    /\ \/ bufs[at[h]].valid /\ UNCHANGED <<bufs, failed>>
       \/ /\ ~bufs[at[h]].valid
          /\ bufs' = [bufs EXCEPT ![at[h]].data = disk[want[h]], ![at[h]].valid = TRUE]
          /\ UNCHANGED failed
       \/ /\ ~bufs[at[h]].valid
          /\ bufs' = [bufs EXCEPT ![at[h]].valid = TRUE]
          /\ failed' = failed \cup {want[h]}
    /\ held' = [held EXCEPT ![h] = @ \cup {at[h]}]
    /\ want' = [want EXCEPT ![h] = Nobody] /\ at' = [at EXCEPT ![h] = Nobody]
    /\ Goto(h, "using")
    /\ UNCHANGED <<hashed, lru, lock, buf_lock, disk, pos, panicked>>

\* bwrite: the user has changed the data of a buffer it holds.
bwrite(h) ==
    /\ pc[h] = "using"
    /\ \E b \in held[h], v \in Values :
          /\ bufs[b].valid
          /\ bufs' = [bufs EXCEPT ![b].data = v, ![b].dirty = TRUE]
          /\ at' = [at EXCEPT ![h] = b]
    /\ Goto(h, "write")
    /\ UNCHANGED <<hashed, lru, lock, buf_lock, disk, want, held, pos, panicked, failed>>

\* blk_write of the buffer, and dirty = false whatever it returned.
put(b) ==
    /\ \/ disk' = [disk EXCEPT ![bufs[b].block] = bufs[b].data] /\ UNCHANGED failed
       \/ failed' = failed \cup {bufs[b].block} /\ UNCHANGED disk
    /\ bufs' = [bufs EXCEPT ![b].dirty = FALSE]

bwrite_end(h) ==
    /\ pc[h] = "write" /\ put(at[h])
    /\ at' = [at EXCEPT ![h] = Nobody]
    /\ Goto(h, "using")
    /\ UNCHANGED <<hashed, lru, lock, buf_lock, want, held, pos, panicked>>

\* Mutant: the buffer's lock is not released.
brelse_forgets(h) ==
    /\ pc[h] = "using"
    /\ \E b \in held[h] : /\ held' = [held EXCEPT ![h] = @ \ {b}]
                          /\ at' = [at EXCEPT ![h] = b]
    /\ Goto(h, "release")
    /\ UNCHANGED <<bufs, hashed, lru, lock, buf_lock, disk, want, pos, panicked, failed>>

\* brelse: the buffer's lock is released before bcache.lock is taken.
brelse(h) ==
    /\ pc[h] = "using"
    /\ \E b \in held[h] :
          /\ buf_lock' = [buf_lock EXCEPT ![b] = Nobody]
          /\ held' = [held EXCEPT ![h] = @ \ {b}]
          /\ at' = [at EXCEPT ![h] = b]
    /\ Goto(h, "release")
    /\ UNCHANGED <<bufs, hashed, lru, lock, disk, want, pos, panicked, failed>>

brelse_end(h) ==
    /\ pc[h] = "release" /\ lock = Nobody
    /\ bufs' = [bufs EXCEPT ![at[h]].refcnt = @ - 1]
    /\ lru' = IF bufs'[at[h]].refcnt = 0 THEN list_move_tail(at[h]) ELSE lru
    /\ at' = [at EXCEPT ![h] = Nobody]
    /\ Goto(h, IF held[h] = {} THEN "idle" ELSE "using")
    /\ UNCHANGED <<hashed, lock, buf_lock, disk, want, held, pos, panicked, failed>>
-----------------------------------------------------------------------------
\* bcache_sync, called by a hart that holds no buffer.
sync_begin(h) ==
    /\ pc[h] = "idle" /\ lock = Nobody
    /\ lock' = h /\ pos' = [pos EXCEPT ![h] = 1]
    /\ Goto(h, "sync")
    /\ UNCHANGED <<bufs, hashed, lru, buf_lock, disk, want, at, held, panicked, failed>>

\* It reads dirty without the buffer's lock and then waits for the lock.
sync_scan(h) ==
    /\ pc[h] = "sync"
    /\ IF pos[h] > Len(lru) THEN lock' = Nobody /\ Goto(h, "idle") /\ pos' = [pos EXCEPT ![h] = 0]
       ELSE IF bufs[lru[pos[h]]].dirty THEN Goto(h, "sync_lock") /\ UNCHANGED <<lock, pos>>
       ELSE pos' = [pos EXCEPT ![h] = @ + 1] /\ UNCHANGED <<lock, pc>>
    /\ UNCHANGED <<bufs, hashed, lru, buf_lock, disk, want, at, held, panicked, failed>>

sync_write(h) ==
    /\ pc[h] = "sync_lock" /\ buf_lock[lru[pos[h]]] = Nobody
    /\ put(lru[pos[h]])
    /\ pos' = [pos EXCEPT ![h] = @ + 1]
    /\ Goto(h, "sync")
    /\ UNCHANGED <<hashed, lru, lock, buf_lock, want, at, held, panicked>>

Next ==
    /\ ~panicked
    /\ \E h \in Harts :
         \/ bread(h) \/ bcache_get(h) \/ lock_buf(h) \/ fill(h)
         \/ bwrite(h) \/ bwrite_end(h) \/ brelse(h) \/ brelse_end(h)
         \/ sync_begin(h) \/ sync_scan(h) \/ sync_write(h)

Spec == Init /\ [][Next]_vars
-----------------------------------------------------------------------------
\* A block is in one buffer at most, although bcache_get drops bcache.lock
\* before it locks the buffer and reads the block.
OneBufferPerBlock ==
    \A b, c \in hashed : bufs[b].block = bufs[c].block => b = c

\* refcnt counts the harts that hold the buffer, wait for its lock or are about
\* to give it back, so a buffer that somebody will touch is not evicted.
Users(b) == {h \in Harts : b \in held[h] \/ (at[h] = b /\ pc[h] \in {"lock", "fill", "release"})}
RefsExact == \A b \in Bufs : bufs[b].refcnt = Cardinality(Users(b))

Stuck(h) ==
    \/ pc[h] \in {"get", "release"} /\ lock # Nobody
    \/ pc[h] = "lock" /\ buf_lock[at[h]] # Nobody
    \/ pc[h] = "sync_lock" /\ buf_lock[lru[pos[h]]] # Nobody

\* With users that take blocks in order the cache has one deadlock: bcache_sync
\* holds bcache.lock and waits for a buffer it saw dirty, whose owner has gone
\* on to ask for another block or to give one back.  A hart that holds one block
\* at a time cannot meet it.
OnlySyncDeadlocks ==
    (\A h \in Harts : Stuck(h)) =>
        \E s, h \in Harts : pc[s] = "sync_lock" /\ buf_lock[lru[pos[s]]] = h
                           /\ pc[h] \in {"get", "release"} /\ held[h] # {}

\* The buffer through which a block is held.
Holders(k) == {p \in Harts \X Bufs : p[2] \in held[p[1]] /\ bufs[p[2]].block = k}

Owner == [k \in Blocks |-> IF Holders(k) = {} THEN Nobody ELSE (CHOOSE p \in Holders(k) : TRUE)[1]]
Seen == [k \in Blocks |-> IF Holders(k) = {} THEN Nobody
                          ELSE bufs[(CHOOSE p \in Holders(k) : TRUE)[2]].data]

Abstract == INSTANCE BlockStore WITH store <- disk, owner <- Owner, seen <- Seen, bad <- failed

\* The cache implements BlockStore: exclusive blocks, current data, and writes
\* that are on the disk before the block is given back.
Implements == Abstract!Spec
-----------------------------------------------------------------------------
(* The inductive invariant. *)
Labels == {"idle", "get", "lock", "fill", "using", "write", "release", "sync", "sync_lock"}
Buffer == [block : Blocks \cup {Nobody}, refcnt : Int, dirty : BOOLEAN, valid : BOOLEAN, data : Values]

TypeOK ==
    /\ bufs \in [Bufs -> Buffer] /\ hashed \in SUBSET Bufs /\ lru \in Seq(Bufs)
    /\ lock \in Harts \cup {Nobody} /\ buf_lock \in [Bufs -> Harts \cup {Nobody}]
    /\ disk \in [Blocks -> Values] /\ failed \in SUBSET Blocks /\ panicked \in BOOLEAN
    /\ pc \in [Harts -> Labels] /\ want \in [Harts -> Blocks \cup {Nobody}]
    /\ at \in [Harts -> Bufs \cup {Nobody}] /\ held \in [Harts -> SUBSET Bufs]
    /\ pos \in [Harts -> Nat]

\* bcache_evict finds every buffer.
Listed == \A b \in Bufs : \E i \in DOMAIN lru : lru[i] = b

\* A hart asks for a block above the ones it has, so never for one of them.
Asking ==
    \A h \in Harts :
        /\ pc[h] \in {"get", "lock", "fill"} <=> want[h] # Nobody
        /\ pc[h] \in {"lock", "fill", "write", "release"} <=> at[h] # Nobody
        /\ want[h] # Nobody => \A b \in held[h] : want[h] > bufs[b].block
        /\ pc[h] \in {"lock", "fill"} => at[h] \in hashed /\ bufs[at[h]].block = want[h]
        /\ pc[h] = "write" => at[h] \in held[h]
        /\ pc[h] = "release" => at[h] \notin held[h]
        /\ pc[h] \in {"idle", "sync", "sync_lock"} => held[h] = {}

Owned == \A b \in Bufs, h \in Harts : buf_lock[b] = h <=> b \in held[h] \/ (at[h] = b /\ pc[h] = "fill")

\* A buffer that somebody holds is valid; only one that is being written is
\* dirty; any other valid buffer has what the disk has.
Current ==
    /\ \A b \in hashed : bufs[b].block \in Blocks
    /\ \A h \in Harts : \A b \in held[h] : b \in hashed /\ bufs[b].valid
    /\ \A b \in Bufs : bufs[b].dirty => \E h \in Harts : at[h] = b /\ pc[h] = "write"
    /\ \A b \in hashed : bufs[b].valid /\ ~bufs[b].dirty =>
          bufs[b].data = disk[bufs[b].block] \/ bufs[b].block \in failed

\* The buffer bcache_sync waits for stays in the cache, and its owner does not
\* get another one meanwhile.
Syncing ==
    \A h \in Harts :
        /\ lock = h <=> pc[h] \in {"sync", "sync_lock"}
        /\ pc[h] = "sync" => pos[h] > 0
        /\ pc[h] = "sync_lock" =>
              /\ pos[h] \in DOMAIN lru
              /\ lru[pos[h]] \in hashed /\ bufs[lru[pos[h]]].valid
              /\ \A g \in Harts : lru[pos[h]] \in held[g] => pc[g] \notin {"lock", "fill"}

IInv ==
    /\ TypeOK /\ Listed /\ Asking /\ Owned /\ Current /\ Syncing
    /\ OneBufferPerBlock /\ RefsExact
==============================================================================
