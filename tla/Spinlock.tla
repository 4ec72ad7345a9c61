------------------------------ MODULE Spinlock -------------------------------
(***************************************************************************)
(* The spinlocks of src/sync/spinlock.c with the nested interrupt masking  *)
(* of src/trap/trap.c they are built on, on any number of harts.           *)
(*                                                                         *)
(* A hart runs kernel code that takes and releases locks; while its        *)
(* interrupts are on, a trap may run a handler that takes locks of its own *)
(* before the interrupted code goes on.  Every access to a lock word is a  *)
(* step.  Callers are the well-behaved ones: a lock is released by the     *)
(* code that took it, and nested locks are taken in increasing order.      *)
(***************************************************************************)
EXTENDS Integers, FiniteSets

CONSTANTS
    Harts,    \* the harts; r_tp() names the one that runs
    NoHart,   \* owner of a free lock, (u64)-1
    Locks     \* the locks, numbered by their place in the nesting order

ASSUME HartAssumption == NoHart \notin Harts
ASSUME LockAssumption == Locks \subseteq Nat /\ IsFiniteSet(Locks)

VARIABLES
    locked,       \* lock->locked
    owner,        \* lock->owner
    intr_depth,   \* per hart: cpu->intr_depth
    intr_state,   \* per hart: the SIE bit of cpu->intr_state
    sie,          \* per hart: the SIE bit of sstatus
    pc,           \* per hart: the next step of the code that runs
    want,         \* per hart: the lock that step is about
    held,         \* per hart: locks whose exchange succeeded, not yet stored 0
    below,        \* per hart: <<pc, want>> of the code a trap interrupted
    halt          \* the panic() that was reached, or "no"

vars == <<locked, owner, intr_depth, intr_state, sie, pc, want, held, below, halt>>

masks == <<intr_depth, intr_state, sie>>
words == <<locked, owner, held>>
flow  == <<want, below>>

Pcs == {"run", "intr_off", "mask", "exchange", "own", "unlock", "intr_on"}

\* No trap is being handled.  (A tuple, like the saved <<pc, want>>.)
NoTrap == <<"none", 0>>

Init ==
    /\ locked = [l \in Locks |-> 0]
    /\ owner = [l \in Locks |-> NoHart]
    /\ intr_depth = [h \in Harts |-> 0]
    /\ intr_state = [h \in Harts |-> 0]
    /\ sie = [h \in Harts |-> 1]
    /\ pc = [h \in Harts |-> "run"]
    /\ want = [h \in Harts |-> 0]
    /\ held = [h \in Harts |-> {}]
    /\ below = [h \in Harts |-> NoTrap]
    /\ halt = "no"

Goto(h, where) == pc' = [pc EXCEPT ![h] = where]
At(h, where)   == halt = "no" /\ pc[h] = where

\* panic() powers the machine off: no step follows it, and a run that reaches it
\* ends in a deadlock.
panic(why) == halt' = why /\ UNCHANGED <<words, masks, flow, pc>>
-----------------------------------------------------------------------------
spinlock_holding(h, l) == locked[l] = 1 /\ owner[l] = h

\* spinlock_acquire_bare up to the call of intr_off: the debug check.
spinlock_acquire(h, l) ==
    /\ At(h, "run") /\ \A k \in held[h] : k < l
    /\ IF spinlock_holding(h, l) THEN panic("recursive lock acquire") ELSE
       /\ want' = [want EXCEPT ![h] = l]
       /\ Goto(h, "intr_off")
       /\ UNCHANGED <<words, masks, below, halt>>

\* intr_off up to the write of sstatus: the depth is tested and, on the
\* outermost call, cpu->intr_state stored.  A trap may still come after this.
intr_off(h) ==
    /\ At(h, "intr_off")
    /\ IF intr_depth[h] = 0
         THEN /\ intr_state' = [intr_state EXCEPT ![h] = sie[h]]
              /\ Goto(h, "mask")
              /\ UNCHANGED intr_depth
         ELSE /\ intr_depth' = [intr_depth EXCEPT ![h] = @ + 1]
              /\ Goto(h, "exchange")
              /\ UNCHANGED intr_state
    /\ UNCHANGED <<words, sie, flow, halt>>

\* Mutant: the interrupts are left on.
intr_off_mask_skips(h) ==
    /\ At(h, "mask")
    /\ intr_depth' = [intr_depth EXCEPT ![h] = @ + 1]
    /\ Goto(h, "exchange")
    /\ UNCHANGED <<words, intr_state, sie, flow, halt>>

\* The rest of the outermost intr_off.
intr_off_mask(h) ==
    /\ At(h, "mask")
    /\ sie' = [sie EXCEPT ![h] = 0]
    /\ intr_depth' = [intr_depth EXCEPT ![h] = @ + 1]
    /\ Goto(h, "exchange")
    /\ UNCHANGED <<words, intr_state, flow, halt>>

\* Mutant: a test followed by a store instead of an atomic exchange; the
\* store comes from a hart whose test is stale.
exchange_races(h) ==
    /\ At(h, "exchange")
    /\ \/ locked[want[h]] = 0
       \/ owner[want[h]] = NoHart
    /\ locked' = [locked EXCEPT ![want[h]] = 1]
    /\ held' = [held EXCEPT ![h] = @ \cup {want[h]}]
    /\ Goto(h, "own")
    /\ UNCHANGED <<owner, masks, flow, halt>>

\* Mutant: the word is stored first and tested afterwards.
exchange_tests_late(h) ==
    /\ At(h, "exchange")
    /\ locked' = [locked EXCEPT ![want[h]] = 1]
    /\ UNCHANGED <<owner, held, masks, flow, pc, halt>>

\* The atomic exchange that finds 0; one that finds 1 changes nothing.
exchange(h) ==
    /\ At(h, "exchange") /\ locked[want[h]] = 0
    /\ locked' = [locked EXCEPT ![want[h]] = 1]
    /\ held' = [held EXCEPT ![h] = @ \cup {want[h]}]
    /\ Goto(h, "own")
    /\ UNCHANGED <<owner, masks, flow, halt>>

own(h) ==
    /\ At(h, "own")
    /\ owner' = [owner EXCEPT ![want[h]] = h]
    /\ Goto(h, "run")
    /\ UNCHANGED <<locked, held, masks, flow, halt>>
-----------------------------------------------------------------------------
\* Mutant: lock->owner = -1 is forgotten.
spinlock_release_keeps_owner(h, l) ==
    /\ At(h, "run") /\ l \in held[h]
    /\ IF locked[l] = 0 THEN panic("release unlocked lock")
       ELSE IF owner[l] # h THEN panic("wrong CPU") ELSE
       /\ want' = [want EXCEPT ![h] = l]
       /\ Goto(h, "unlock")
       /\ UNCHANGED <<words, masks, below, halt>>

\* spinlock_release_bare: the debug checks and lock->owner = -1.
spinlock_release(h, l) ==
    /\ At(h, "run") /\ l \in held[h]
    /\ IF locked[l] = 0 THEN panic("release unlocked lock")
       ELSE IF owner[l] # h THEN panic("wrong CPU") ELSE
       /\ owner' = [owner EXCEPT ![l] = NoHart]
       /\ want' = [want EXCEPT ![h] = l]
       /\ Goto(h, "unlock")
       /\ UNCHANGED <<locked, held, masks, below, halt>>

unlock(h) ==
    /\ At(h, "unlock")
    /\ locked' = [locked EXCEPT ![want[h]] = 0]
    /\ held' = [held EXCEPT ![h] = @ \ {want[h]}]
    /\ Goto(h, "intr_on")
    /\ UNCHANGED <<owner, masks, flow, halt>>

\* Mutant: sstatus is restored by every call, not by the outermost one.
intr_on_early(h) ==
    /\ At(h, "intr_on")
    /\ IF intr_depth[h] <= 0 THEN panic("intr_on: mismatch") ELSE
       /\ intr_depth' = [intr_depth EXCEPT ![h] = @ - 1]
       /\ sie' = [sie EXCEPT ![h] = intr_state[h]]
       /\ Goto(h, "run")
       /\ UNCHANGED <<words, intr_state, flow, halt>>

intr_on(h) ==
    /\ At(h, "intr_on")
    /\ IF intr_depth[h] <= 0 THEN panic("intr_on: mismatch") ELSE
       /\ intr_depth' = [intr_depth EXCEPT ![h] = @ - 1]
       /\ sie' = IF intr_depth[h] = 1 THEN [sie EXCEPT ![h] = intr_state[h]] ELSE sie
       /\ Goto(h, "run")
       /\ UNCHANGED <<words, intr_state, flow, halt>>
-----------------------------------------------------------------------------
\* The hart takes an interrupt: SIE is cleared and kerneltrap runs.
trap(h) ==
    /\ halt = "no" /\ sie[h] = 1
    /\ below' = [below EXCEPT ![h] = <<pc[h], want[h]>>]
    /\ sie' = [sie EXCEPT ![h] = 0]
    /\ Goto(h, "run")
    /\ UNCHANGED <<words, intr_depth, intr_state, want, halt>>

\* kernelret: sret goes back to the interrupted code with SIE on again.
sret(h) ==
    /\ At(h, "run") /\ below[h] # NoTrap /\ held[h] = {}
    /\ Goto(h, below[h][1])
    /\ want' = [want EXCEPT ![h] = below[h][2]]
    /\ below' = [below EXCEPT ![h] = NoTrap]
    /\ sie' = [sie EXCEPT ![h] = 1]
    /\ UNCHANGED <<words, intr_depth, intr_state, halt>>

Next ==
    \E h \in Harts :
        \/ \E l \in Locks : spinlock_acquire(h, l) \/ spinlock_release(h, l)
        \/ intr_off(h) \/ intr_off_mask(h) \/ exchange(h) \/ own(h)
        \/ unlock(h) \/ intr_on(h)
        \/ trap(h) \/ sret(h)

Spec == Init /\ [][Next]_vars

Step(h) ==
    intr_off(h) \/ intr_off_mask(h) \/ own(h) \/ unlock(h) \/ intr_on(h)

\* A hart executes what it has begun, critical sections end, and of several
\* harts that find a lock free one wins the exchange, though nobody says which.
FairSpec ==
    /\ Spec
    /\ \A h \in Harts : WF_vars(Step(h))
    /\ \A h \in Harts, l \in Locks : SF_vars(spinlock_release(h, l))
    /\ \A l \in Locks : WF_vars(\E h \in Harts : want[h] = l /\ exchange(h))
-----------------------------------------------------------------------------
TypeOK ==
    /\ locked \in [Locks -> 0..1]
    /\ owner \in [Locks -> Harts \cup {NoHart}]
    /\ intr_depth \in [Harts -> Int]
    /\ intr_state \in [Harts -> 0..1]
    /\ sie \in [Harts -> 0..1]
    /\ pc \in [Harts -> Pcs]
    /\ want \in [Harts -> Nat]
    /\ held \in [Harts -> SUBSET Locks]
    /\ below \in [Harts -> (Pcs \X Nat) \cup {NoTrap}]
    /\ halt \in {"no", "recursive lock acquire", "release unlocked lock",
                 "wrong CPU", "intr_on: mismatch"}

\* A lock is held by one hart at a time.
MutualExclusion ==
    \A g, h \in Harts : g # h => held[g] \cap held[h] = {}

\* The debug checks of the lock and of intr_on never fire: neither a stale
\* owner word nor a handler that interrupts its own hart makes a well-behaved
\* caller panic.
NeverPanics == halt = "no"

\* A hart that holds a lock takes no interrupt, so that no handler ever spins
\* for a lock its own hart holds.
MaskedWhileHeld == \A h \in Harts : held[h] # {} => sie[h] = 0

\* spinlock_holding, on which buddy_alloc and kmem_cache_alloc decide whether
\* to lock, answers for the hart that asks and for no other one, although it
\* reads two words that other harts are writing.
HoldingExact ==
    \A h \in Harts, l \in Locks :
        pc[h] = "run" => (spinlock_holding(h, l) <=> l \in held[h])

\* A lock that somebody waits for is taken again: with locks nested in a fixed
\* order no release is lost and no cycle of waiting harts arises.
Handover ==
    \A l \in Locks :
        (\E h \in Harts : pc[h] = "exchange" /\ want[h] = l)
            ~> (\E h \in Harts : pc[h] = "own" /\ want[h] = l)

-----------------------------------------------------------------------------
(***************************************************************************)
(* The inductive invariant: what the two words of a lock say about who     *)
(* holds it, including in the steps between the two writes; what each      *)
(* step of a hart knows about its lock; and the depth counter as the       *)
(* number of locks held, which is what keeps interrupts off.               *)
(***************************************************************************)
LockWords ==
    \A h \in Harts, l \in Locks :
        /\ l \in held[h] => locked[l] = 1
        /\ owner[l] = h => l \in held[h]
        /\ l \in held[h] /\ ~(pc[h] \in {"own", "unlock"} /\ want[h] = l) => owner[l] = h
        /\ pc[h] = "unlock" /\ want[h] = l => owner[l] = NoHart

Flow ==
    \A h \in Harts :
        /\ pc[h] \in {"own", "unlock"} => want[h] \in held[h]
        /\ pc[h] \in {"intr_off", "mask", "exchange"} =>
              want[h] \in Locks /\ \A k \in held[h] : k < want[h]
        /\ below[h] # NoTrap =>
              /\ below[h][1] \in {"run", "intr_off", "mask"}
              /\ below[h][1] # "run" => below[h][2] \in Locks

Extra(h) == IF pc[h] \in {"exchange", "intr_on"} THEN 1 ELSE 0

Depths ==
    \A h \in Harts :
        /\ intr_depth[h] = Cardinality(held[h]) + Extra(h)
        /\ intr_depth[h] > 0 => sie[h] = 0

IInv == TypeOK /\ LockWords /\ MutualExclusion /\ Flow /\ Depths /\ NeverPanics
==============================================================================
