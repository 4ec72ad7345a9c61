----------------------------- MODULE Core_proofs -----------------------------
(* Proofs about what every thread of the kernel stands on: spinlocks and the *)
(* masking of interrupts, for any number of harts and of locks; the          *)
(* registers of interrupted code, for any number of procs and any order of   *)
(* interrupts and switches; and alloc_pid, for any number of callers and any *)
(* range of pids.                                                            *)
EXTENDS Spinlock, Trapframe, PidAlloc, FiniteSetTheorems, TLAPS

(* Spinlock. *)

\* Taking a lock adds one to the number of locks a hart holds, releasing one
\* takes one away, and no lock held is none.
LEMMA Counting ==
    ASSUME NEW S, S \subseteq Locks, NEW l \in Locks
    PROVE  /\ Cardinality(S) \in Nat
           /\ Cardinality(S) = 0 <=> S = {}
           /\ l \notin S => Cardinality(S \cup {l}) = Cardinality(S) + 1
           /\ l \in S => Cardinality(S \ {l}) = Cardinality(S) - 1
<1>1. IsFiniteSet(S)
    BY LockAssumption, FS_Subset DEF LockAssumption
<1>2. Cardinality(S) \in Nat
    BY <1>1, FS_CardinalityType
<1>3. Cardinality(S) = 0 <=> S = {}
    BY <1>1, FS_EmptySet
<1>4. l \notin S => Cardinality(S \cup {l}) = Cardinality(S) + 1
    BY <1>1, FS_AddElement
<1>5. l \in S => Cardinality(S \ {l}) = Cardinality(S) - 1
    BY <1>1, FS_RemoveElement
<1> QED
    BY <1>2, <1>3, <1>4, <1>5

\* All locks are free and all interrupts on.
LEMMA InitIInv == Init => IInv
<1> SUFFICES ASSUME Init PROVE IInv
    OBVIOUS
<1> USE HartAssumption DEF HartAssumption, Init, NoTrap
<1>1. TypeOK
    BY DEF TypeOK, Pcs
<1>2. LockWords /\ MutualExclusion /\ NeverPanics
    BY DEF LockWords, MutualExclusion, NeverPanics
<1>3. Flow
    BY DEF Flow
<1>4. Cardinality({}) = 0
    BY FS_EmptySet
<1>5. Depths
    BY <1>4 DEF Depths, Extra
<1> QED
    BY <1>1, <1>2, <1>3, <1>5 DEF IInv

\* A hart holds a number of locks, and none exactly when the number is 0.
LEMMA HeldCount ==
    ASSUME TypeOK
    PROVE  \A g \in Harts : /\ Cardinality(held[g]) \in Nat
                            /\ Cardinality(held[g]) = 0 <=> held[g] = {}
<1> SUFFICES ASSUME NEW g \in Harts
             PROVE  /\ Cardinality(held[g]) \in Nat
                    /\ Cardinality(held[g]) = 0 <=> held[g] = {}
    OBVIOUS
<1>1. held[g] \subseteq Locks
    BY DEF TypeOK
<1>2. IsFiniteSet(held[g])
    BY <1>1, LockAssumption, FS_Subset DEF LockAssumption
<1> QED
    BY <1>2, FS_CardinalityType, FS_EmptySet

\* A hart with interrupts on is in no critical section and at no lock word.
LEMMA Unmasked ==
    ASSUME IInv, NEW h \in Harts, sie[h] = 1
    PROVE  held[h] = {} /\ pc[h] \in {"run", "intr_off", "mask"}
<1>1. /\ intr_depth[h] = Cardinality(held[h]) + Extra(h)
      /\ intr_depth[h] > 0 => sie[h] = 0
    BY DEF IInv, Depths
<1>2. Cardinality(held[h]) \in Nat /\ (Cardinality(held[h]) = 0 => held[h] = {})
    BY HeldCount DEF IInv
<1>3. Extra(h) \in {0, 1}
    BY DEF Extra
<1>4. ~(intr_depth[h] > 0)
    BY <1>1
<1>5. Extra(h) = 0 /\ Cardinality(held[h]) = 0
    BY <1>1, <1>2, <1>3, <1>4
<1>6. held[h] = {}
    BY <1>2, <1>5
<1>7. ~(pc[h] \in {"exchange", "intr_on"})
    BY <1>5 DEF Extra
<1>8. ~(pc[h] \in {"own", "unlock"})
    BY <1>6 DEF IInv, Flow
<1>9. pc[h] \in Pcs
    BY DEF IInv, TypeOK
<1> QED
    BY <1>6, <1>7, <1>8, <1>9 DEF Pcs

\* The nesting order is irreflexive.
LEMMA NotBelowItself == \A l \in Locks : ~(l < l)
<1> SUFFICES ASSUME NEW l \in Locks PROVE ~(l < l)
    OBVIOUS
<1>1. l \in Nat
    BY LockAssumption DEF LockAssumption
<1> QED
    BY <1>1

\* Between intr_off and intr_on the depth is positive.
LEMMA DepthPositive ==
    ASSUME IInv, NEW h \in Harts, pc[h] = "intr_on"
    PROVE  intr_depth[h] \in Int /\ ~(intr_depth[h] <= 0)
<1>1. Extra(h) = 1
    BY DEF Extra
<1>2. Cardinality(held[h]) \in Nat
    BY HeldCount DEF IInv
<1>3. intr_depth[h] = Cardinality(held[h]) + Extra(h)
    BY DEF IInv, Depths
<1> QED
    BY <1>1, <1>2, <1>3

\* A hart that passes the debug check only notes which lock it wants.
LEMMA AcquirePreserves ==
    ASSUME IInv, NEW h \in Harts, NEW l \in Locks, spinlock_acquire(h, l)
    PROVE  IInv'
<1> USE HartAssumption, LockAssumption DEF HartAssumption, LockAssumption, spinlock_acquire, At, Goto,
        words, masks, flow, panic, spinlock_holding
<1>1. NeverPanics'
    <2>1. ~spinlock_holding(h, l)
        <3>1. ASSUME l \in held[h] PROVE FALSE
            BY <3>1, NotBelowItself
        <3> QED
            BY <3>1 DEF IInv, LockWords
    <2> QED
        BY <2>1 DEF IInv, NeverPanics
<1>2. TypeOK'
    BY <1>1 DEF IInv, TypeOK, Pcs, NeverPanics
<1>3. LockWords'
    BY <1>1 DEF IInv, TypeOK, LockWords, Flow, MutualExclusion, NeverPanics
<1>4. MutualExclusion'
    BY <1>1 DEF IInv, TypeOK, LockWords, MutualExclusion, NeverPanics
<1>5. Flow'
    <2>1. /\ want' = [want EXCEPT ![h] = l] /\ pc' = [pc EXCEPT ![h] = "intr_off"]
          /\ held' = held /\ below' = below
        BY <1>1 DEF NeverPanics
    <2> QED
        BY <2>1 DEF IInv, TypeOK, Flow, NoTrap
<1>6. Depths'
    BY <1>1 DEF IInv, TypeOK, Depths, Extra, Flow, NeverPanics
<1> QED
    BY <1>1, <1>2, <1>3, <1>4, <1>5, <1>6 DEF IInv

\* intr_off before sstatus is written touches no lock.
LEMMA IntrOffPreserves ==
    ASSUME IInv, NEW h \in Harts, intr_off(h)
    PROVE  IInv'
<1> USE HartAssumption, LockAssumption DEF HartAssumption, LockAssumption, intr_off, At, Goto,
        words, masks, flow
<1>1. NeverPanics'
    BY DEF IInv, NeverPanics
<1>2. TypeOK'
    BY <1>1 DEF IInv, TypeOK, Pcs, NeverPanics
<1>3. LockWords'
    BY <1>1 DEF IInv, TypeOK, LockWords, Flow, MutualExclusion, NeverPanics
<1>4. MutualExclusion'
    BY <1>1 DEF IInv, TypeOK, LockWords, MutualExclusion, NeverPanics
<1>5. Flow'
    BY <1>1 DEF IInv, TypeOK, LockWords, Flow, Depths, NeverPanics, NoTrap
<1>6. Depths'
    <2>1. \A g \in Harts : g # h =>
             /\ pc'[g] = pc[g] /\ held'[g] = held[g]
             /\ intr_depth'[g] = intr_depth[g] /\ sie'[g] = sie[g]
        BY <1>1 DEF IInv, TypeOK, NeverPanics
    <2>2. Cardinality(held[h]) \in Nat
        BY HeldCount DEF IInv
    <2>3. /\ intr_depth[h] = Cardinality(held[h]) + Extra(h)
          /\ intr_depth[h] > 0 => sie[h] = 0
        BY DEF IInv, Depths
    <2>4. /\ Extra(h) = 0 /\ held'[h] = held[h] /\ sie'[h] = sie[h]
        BY DEF Extra
    <2>5. ASSUME intr_depth[h] = 0
          PROVE  Extra(h)' = 0 /\ intr_depth'[h] = intr_depth[h]
        BY <2>5 DEF Extra, IInv, TypeOK
    <2>6. ASSUME intr_depth[h] # 0
          PROVE  Extra(h)' = 1 /\ intr_depth'[h] = intr_depth[h] + 1
        BY <2>6 DEF Extra, IInv, TypeOK
    <2>7. /\ intr_depth'[h] = Cardinality(held'[h]) + Extra(h)'
          /\ intr_depth'[h] > 0 => sie'[h] = 0
        <3>1. CASE intr_depth[h] = 0
            BY <2>2, <2>3, <2>4, <2>5, <3>1
        <3>2. CASE intr_depth[h] # 0
            BY <2>2, <2>3, <2>4, <2>6, <3>2
        <3> QED
            BY <3>1, <3>2
    <2>8. \A g \in Harts : g # h => Extra(g)' = Extra(g)
        BY <2>1 DEF Extra
    <2> QED
        BY <2>1, <2>7, <2>8 DEF IInv, Depths
<1> QED
    BY <1>1, <1>2, <1>3, <1>4, <1>5, <1>6 DEF IInv

\* Interrupts go off as the depth goes up.
LEMMA MaskPreserves ==
    ASSUME IInv, NEW h \in Harts, intr_off_mask(h)
    PROVE  IInv'
<1> USE HartAssumption, LockAssumption DEF HartAssumption, LockAssumption, intr_off_mask, At, Goto,
        words, masks, flow
<1>1. NeverPanics'
    BY DEF IInv, NeverPanics
<1>2. TypeOK'
    BY <1>1 DEF IInv, TypeOK, Pcs, NeverPanics
<1>3. LockWords'
    BY <1>1 DEF IInv, TypeOK, LockWords, Flow, MutualExclusion, NeverPanics
<1>4. MutualExclusion'
    BY <1>1 DEF IInv, TypeOK, LockWords, MutualExclusion, NeverPanics
<1>5. Flow'
    BY <1>1 DEF IInv, TypeOK, LockWords, Flow, Depths, NeverPanics, NoTrap
<1>6. Depths'
    <2>1. \A g \in Harts : g # h =>
             /\ pc'[g] = pc[g] /\ held'[g] = held[g]
             /\ intr_depth'[g] = intr_depth[g] /\ sie'[g] = sie[g]
        BY <1>1 DEF IInv, TypeOK, NeverPanics
    <2>2. Cardinality(held[h]) \in Nat
        BY HeldCount DEF IInv
    <2>3. /\ intr_depth[h] = Cardinality(held[h]) + Extra(h)
          /\ intr_depth[h] > 0 => sie[h] = 0
        BY DEF IInv, Depths
    <2>4. Extra(h) = 0 /\ Extra(h)' = 1 /\ held' = held
        BY DEF Extra, IInv, TypeOK
    <2>5. intr_depth'[h] = intr_depth[h] + 1 /\ sie'[h] = 0
        BY DEF IInv, TypeOK
    <2>7. /\ intr_depth'[h] = Cardinality(held'[h]) + Extra(h)'
          /\ intr_depth'[h] > 0 => sie'[h] = 0
        BY <2>2, <2>3, <2>4, <2>5
    <2>8. \A g \in Harts : g # h => Extra(g)' = Extra(g)
        BY <2>1 DEF Extra
    <2> QED
        BY <2>1, <2>7, <2>8 DEF IInv, Depths
<1> QED
    BY <1>1, <1>2, <1>3, <1>4, <1>5, <1>6 DEF IInv

\* The exchange that finds 0 makes the hart the only holder.
LEMMA ExchangePreserves ==
    ASSUME IInv, NEW h \in Harts, exchange(h)
    PROVE  IInv'
<1> USE HartAssumption, LockAssumption DEF HartAssumption, LockAssumption, exchange, At, Goto,
        words, masks, flow
<1>1. NeverPanics'
    BY DEF IInv, NeverPanics
<1>2. TypeOK'
    <2>1. want[h] \in Locks
        BY DEF IInv, TypeOK, Flow
    <2> QED
        BY <1>1, <2>1 DEF IInv, TypeOK, Pcs, NeverPanics
<1>3. LockWords'
    BY <1>1 DEF IInv, TypeOK, LockWords, Flow, MutualExclusion, NeverPanics
<1>4. MutualExclusion'
    BY <1>1 DEF IInv, TypeOK, LockWords, MutualExclusion, NeverPanics
<1>5. Flow'
    BY <1>1 DEF IInv, TypeOK, LockWords, Flow, Depths, NeverPanics, NoTrap
<1>6. Depths'
    <2>1. \A g \in Harts : g # h =>
             /\ pc'[g] = pc[g] /\ held'[g] = held[g]
             /\ intr_depth'[g] = intr_depth[g] /\ sie'[g] = sie[g]
        BY <1>1 DEF IInv, TypeOK, NeverPanics
    <2>2. Cardinality(held[h]) \in Nat
        BY HeldCount DEF IInv
    <2>3. /\ intr_depth[h] = Cardinality(held[h]) + Extra(h)
          /\ intr_depth[h] > 0 => sie[h] = 0
        BY DEF IInv, Depths
    <2>4. Extra(h) = 1 /\ Extra(h)' = 0
        BY DEF Extra, IInv, TypeOK
    <2>5. /\ want[h] \in Locks /\ want[h] \notin held[h] /\ held[h] \subseteq Locks
          /\ held'[h] = held[h] \cup {want[h]}
        BY DEF IInv, TypeOK, Flow, LockWords
    <2>6. Cardinality(held'[h]) = Cardinality(held[h]) + 1
        BY <2>5, Counting
    <2>7. /\ intr_depth'[h] = Cardinality(held'[h]) + Extra(h)'
          /\ intr_depth'[h] > 0 => sie'[h] = 0
        BY <2>2, <2>3, <2>4, <2>6
    <2>8. \A g \in Harts : g # h => Extra(g)' = Extra(g)
        BY <2>1 DEF Extra
    <2> QED
        BY <2>1, <2>7, <2>8 DEF IInv, Depths
<1> QED
    BY <1>1, <1>2, <1>3, <1>4, <1>5, <1>6 DEF IInv

\* The owner word follows the lock word.
LEMMA OwnPreserves ==
    ASSUME IInv, NEW h \in Harts, own(h)
    PROVE  IInv'
<1> USE HartAssumption, LockAssumption DEF HartAssumption, LockAssumption, own, At, Goto,
        words, masks, flow
<1>1. NeverPanics'
    BY DEF IInv, NeverPanics
<1>2. TypeOK'
    BY <1>1 DEF IInv, TypeOK, Pcs, NeverPanics
<1>3. LockWords'
    BY <1>1 DEF IInv, TypeOK, LockWords, Flow, MutualExclusion, NeverPanics
<1>4. MutualExclusion'
    BY <1>1 DEF IInv, TypeOK, LockWords, MutualExclusion, NeverPanics
<1>5. Flow'
    BY <1>1 DEF IInv, TypeOK, LockWords, Flow, Depths, NeverPanics, NoTrap
<1>6. Depths'
    BY <1>1 DEF IInv, TypeOK, Depths, Extra, Flow, NeverPanics
<1> QED
    BY <1>1, <1>2, <1>3, <1>4, <1>5, <1>6 DEF IInv

\* The checks of a release pass, and the owner word is cleared first.
LEMMA ReleasePreserves ==
    ASSUME IInv, NEW h \in Harts, NEW l \in Locks, spinlock_release(h, l)
    PROVE  IInv'
<1> USE HartAssumption, LockAssumption DEF HartAssumption, LockAssumption, spinlock_release, At, Goto,
        words, masks, flow, panic
<1>1. NeverPanics'
    <2>1. locked[l] = 1 /\ owner[l] = h
        BY DEF IInv, LockWords
    <2> QED
        BY <2>1 DEF IInv, NeverPanics
<1>2. TypeOK'
    BY <1>1 DEF IInv, TypeOK, Pcs, NeverPanics
<1>3. LockWords'
    BY <1>1 DEF IInv, TypeOK, LockWords, Flow, MutualExclusion, NeverPanics
<1>4. MutualExclusion'
    BY <1>1 DEF IInv, TypeOK, LockWords, MutualExclusion, NeverPanics
<1>5. Flow'
    <2>1. /\ want' = [want EXCEPT ![h] = l] /\ pc' = [pc EXCEPT ![h] = "unlock"]
          /\ held' = held /\ below' = below
        BY <1>1 DEF NeverPanics
    <2> QED
        BY <2>1 DEF IInv, TypeOK, Flow, NoTrap
<1>6. Depths'
    BY <1>1 DEF IInv, TypeOK, Depths, Extra, Flow, NeverPanics
<1> QED
    BY <1>1, <1>2, <1>3, <1>4, <1>5, <1>6 DEF IInv

\* The lock word is cleared last.
LEMMA UnlockPreserves ==
    ASSUME IInv, NEW h \in Harts, unlock(h)
    PROVE  IInv'
<1> USE HartAssumption, LockAssumption DEF HartAssumption, LockAssumption, unlock, At, Goto,
        words, masks, flow
<1>1. NeverPanics'
    BY DEF IInv, NeverPanics
<1>2. TypeOK'
    <2>1. want[h] \in Locks
        BY DEF IInv, TypeOK, Flow
    <2> QED
        BY <1>1, <2>1 DEF IInv, TypeOK, Pcs, NeverPanics
<1>3. LockWords'
    BY <1>1 DEF IInv, TypeOK, LockWords, Flow, MutualExclusion, NeverPanics
<1>4. MutualExclusion'
    BY <1>1 DEF IInv, TypeOK, LockWords, MutualExclusion, NeverPanics
<1>5. Flow'
    BY <1>1 DEF IInv, TypeOK, LockWords, Flow, Depths, NeverPanics, NoTrap
<1>6. Depths'
    <2>1. \A g \in Harts : g # h =>
             /\ pc'[g] = pc[g] /\ held'[g] = held[g]
             /\ intr_depth'[g] = intr_depth[g] /\ sie'[g] = sie[g]
        BY <1>1 DEF IInv, TypeOK, NeverPanics
    <2>2. Cardinality(held[h]) \in Nat
        BY HeldCount DEF IInv
    <2>3. /\ intr_depth[h] = Cardinality(held[h]) + Extra(h)
          /\ intr_depth[h] > 0 => sie[h] = 0
        BY DEF IInv, Depths
    <2>4. Extra(h) = 0 /\ Extra(h)' = 1
        BY DEF Extra, IInv, TypeOK
    <2>5. /\ want[h] \in held[h] /\ held[h] \subseteq Locks
          /\ held'[h] = held[h] \ {want[h]}
        BY DEF IInv, TypeOK, Flow
    <2>6. Cardinality(held'[h]) = Cardinality(held[h]) - 1
        <3>1. want[h] \in Locks
            BY <2>5
        <3>2. Cardinality(held[h] \ {want[h]}) = Cardinality(held[h]) - 1
            BY <3>1, <2>5, Counting
        <3> QED
            BY <3>2, <2>5
    <2>7. /\ intr_depth'[h] = Cardinality(held'[h]) + Extra(h)'
          /\ intr_depth'[h] > 0 => sie'[h] = 0
        BY <2>2, <2>3, <2>4, <2>6
    <2>8. \A g \in Harts : g # h => Extra(g)' = Extra(g)
        BY <2>1 DEF Extra
    <2> QED
        BY <2>1, <2>7, <2>8 DEF IInv, Depths
<1> QED
    BY <1>1, <1>2, <1>3, <1>4, <1>5, <1>6 DEF IInv

\* Interrupts come back only with the last lock gone.
LEMMA IntrOnPreserves ==
    ASSUME IInv, NEW h \in Harts, intr_on(h)
    PROVE  IInv'
<1> USE HartAssumption, LockAssumption DEF HartAssumption, LockAssumption, intr_on, At, Goto,
        words, masks, flow, panic
<1>1. NeverPanics'
    <2>1. ~(intr_depth[h] <= 0)
        BY DepthPositive
    <2> QED
        BY <2>1 DEF IInv, NeverPanics
<1>2. TypeOK'
    BY <1>1 DEF IInv, TypeOK, Pcs, NeverPanics
<1>3. LockWords'
    BY <1>1 DEF IInv, TypeOK, LockWords, Flow, MutualExclusion, NeverPanics
<1>4. MutualExclusion'
    BY <1>1 DEF IInv, TypeOK, LockWords, MutualExclusion, NeverPanics
<1>5. Flow'
    <2>1. /\ want' = want /\ pc' = [pc EXCEPT ![h] = "run"]
          /\ held' = held /\ below' = below
        BY <1>1 DEF NeverPanics
    <2> QED
        BY <2>1 DEF IInv, TypeOK, Flow, NoTrap
<1>6. Depths'
    <2>1. \A g \in Harts : g # h =>
             /\ pc'[g] = pc[g] /\ held'[g] = held[g]
             /\ intr_depth'[g] = intr_depth[g] /\ sie'[g] = sie[g]
        BY <1>1 DEF IInv, TypeOK, NeverPanics
    <2>2. Cardinality(held[h]) \in Nat
        BY HeldCount DEF IInv
    <2>3. /\ intr_depth[h] = Cardinality(held[h]) + Extra(h)
          /\ intr_depth[h] > 0 => sie[h] = 0
        BY DEF IInv, Depths
    <2>4. Extra(h) = 1 /\ Extra(h)' = 0 /\ held' = held
        BY <1>1 DEF Extra, IInv, TypeOK, NeverPanics
    <2>5. /\ intr_depth'[h] = intr_depth[h] - 1
          /\ intr_depth[h] # 1 => sie'[h] = sie[h]
        BY <1>1 DEF IInv, TypeOK, NeverPanics
    <2>7. /\ intr_depth'[h] = Cardinality(held'[h]) + Extra(h)'
          /\ intr_depth'[h] > 0 => sie'[h] = 0
        <3> HIDE DEF intr_on
        <3>1. intr_depth[h] = Cardinality(held[h]) + 1
            BY <2>3, <2>4
        <3>2. intr_depth[h] - 1 = Cardinality(held[h]) + 0
            BY <2>2, <3>1
        <3>3. intr_depth'[h] = Cardinality(held'[h]) + Extra(h)'
            BY <3>2, <2>4, <2>5
        <3>4. intr_depth'[h] > 0 => intr_depth[h] > 0 /\ intr_depth[h] # 1
            BY <2>2, <3>1, <2>5
        <3> QED
            BY <3>3, <3>4, <2>3, <2>5
    <2>8. \A g \in Harts : g # h => Extra(g)' = Extra(g)
        BY <2>1 DEF Extra
    <2> QED
        BY <2>1, <2>7, <2>8 DEF IInv, Depths
<1> QED
    BY <1>1, <1>2, <1>3, <1>4, <1>5, <1>6 DEF IInv

\* A trap finds no lock held.
LEMMA TrapPreserves ==
    ASSUME IInv, NEW h \in Harts, trap(h)
    PROVE  IInv'
<1> USE HartAssumption, LockAssumption DEF HartAssumption, LockAssumption, trap, At, Goto,
        words, masks, flow
<1>1. NeverPanics'
    BY DEF IInv, NeverPanics
<1>2. TypeOK'
    BY <1>1 DEF IInv, TypeOK, Pcs, NeverPanics
<1>3. LockWords'
    <2>1. held[h] = {} /\ pc[h] \in {"run", "intr_off", "mask"}
        BY Unmasked
    <2> QED
        BY <2>1 DEF IInv, TypeOK, LockWords
<1>4. MutualExclusion'
    BY <1>1 DEF IInv, TypeOK, LockWords, MutualExclusion, NeverPanics
<1>5. Flow'
    <2>1. held[h] = {} /\ pc[h] \in {"run", "intr_off", "mask"}
        BY Unmasked
    <2>2. pc[h] # "run" => want[h] \in Locks
        BY <2>1 DEF IInv, Flow
    <2>3. \A g \in Harts : g # h => pc'[g] = pc[g] /\ below'[g] = below[g]
        BY DEF IInv, TypeOK
    <2>4. pc'[h] = "run" /\ below'[h] = <<pc[h], want[h]>> /\ want' = want /\ held' = held
        BY DEF IInv, TypeOK
    <2> QED
        BY <2>1, <2>2, <2>3, <2>4 DEF IInv, Flow
<1>6. Depths'
    <2>1. \A g \in Harts : g # h =>
             /\ pc'[g] = pc[g] /\ held'[g] = held[g]
             /\ intr_depth'[g] = intr_depth[g] /\ sie'[g] = sie[g]
        BY <1>1 DEF IInv, TypeOK, NeverPanics
    <2>2. Cardinality(held[h]) \in Nat
        BY HeldCount DEF IInv
    <2>3. /\ intr_depth[h] = Cardinality(held[h]) + Extra(h)
          /\ intr_depth[h] > 0 => sie[h] = 0
        BY DEF IInv, Depths
    <2>4. pc[h] \in {"run", "intr_off", "mask"}
        BY Unmasked
    <2>5. Extra(h) = 0 /\ Extra(h)' = 0 /\ held' = held /\ intr_depth' = intr_depth
        BY <2>4 DEF Extra, IInv, TypeOK
    <2>6. sie'[h] = 0
        BY DEF IInv, TypeOK
    <2>7. /\ intr_depth'[h] = Cardinality(held'[h]) + Extra(h)'
          /\ intr_depth'[h] > 0 => sie'[h] = 0
        BY <2>3, <2>5, <2>6
    <2>8. \A g \in Harts : g # h => Extra(g)' = Extra(g)
        BY <2>1 DEF Extra
    <2> QED
        BY <2>1, <2>7, <2>8 DEF IInv, Depths
<1> QED
    BY <1>1, <1>2, <1>3, <1>4, <1>5, <1>6 DEF IInv

\* The interrupted code goes on where it was.
LEMMA SretPreserves ==
    ASSUME IInv, NEW h \in Harts, sret(h)
    PROVE  IInv'
<1> USE HartAssumption, LockAssumption DEF HartAssumption, LockAssumption, sret, At, Goto,
        words, masks, flow
<1>1. NeverPanics'
    BY DEF IInv, NeverPanics
<1>2. TypeOK'
    BY <1>1 DEF IInv, TypeOK, Pcs, NeverPanics
<1>3. LockWords'
    BY <1>1 DEF IInv, TypeOK, LockWords, Flow, MutualExclusion, NeverPanics
<1>4. MutualExclusion'
    BY <1>1 DEF IInv, TypeOK, LockWords, MutualExclusion, NeverPanics
<1>5. Flow'
    BY <1>1 DEF IInv, TypeOK, LockWords, Flow, Depths, NeverPanics, NoTrap
<1>6. Depths'
    <2>1. \A g \in Harts : g # h =>
             /\ pc'[g] = pc[g] /\ held'[g] = held[g]
             /\ intr_depth'[g] = intr_depth[g] /\ sie'[g] = sie[g]
        BY <1>1 DEF IInv, TypeOK, NeverPanics
    <2>2. Cardinality(held[h]) \in Nat
        BY HeldCount DEF IInv
    <2>3. /\ intr_depth[h] = Cardinality(held[h]) + Extra(h)
          /\ intr_depth[h] > 0 => sie[h] = 0
        BY DEF IInv, Depths
    <2>4. below[h][1] \in {"run", "intr_off", "mask"}
        BY DEF IInv, Flow
    <2>5. Extra(h) = 0 /\ Extra(h)' = 0 /\ held' = held /\ intr_depth' = intr_depth
        BY <2>4 DEF Extra, IInv, TypeOK
    <2>6. Cardinality(held[h]) = 0
        BY HeldCount DEF IInv
    <2>7. /\ intr_depth'[h] = Cardinality(held'[h]) + Extra(h)'
          /\ intr_depth'[h] > 0 => sie'[h] = 0
        BY <2>3, <2>5, <2>6
    <2>8. \A g \in Harts : g # h => Extra(g)' = Extra(g)
        BY <2>1 DEF Extra
    <2> QED
        BY <2>1, <2>7, <2>8 DEF IInv, Depths
<1> QED
    BY <1>1, <1>2, <1>3, <1>4, <1>5, <1>6 DEF IInv

\* Every step keeps the invariant.
LEMMA NextIInv == IInv /\ [Next]_vars => IInv'
<1> SUFFICES ASSUME IInv, [Next]_vars PROVE IInv'
    OBVIOUS
<1>1. ASSUME NEW h \in Harts, NEW l \in Locks,
             spinlock_acquire(h, l) \/ spinlock_release(h, l)
      PROVE  IInv'
    BY <1>1, AcquirePreserves, ReleasePreserves
<1>2. ASSUME NEW h \in Harts,
             \/ intr_off(h) \/ intr_off_mask(h) \/ exchange(h) \/ own(h)
             \/ unlock(h) \/ intr_on(h) \/ trap(h) \/ sret(h)
      PROVE  IInv'
    BY <1>2, IntrOffPreserves, MaskPreserves, ExchangePreserves, OwnPreserves,
       UnlockPreserves, IntrOnPreserves, TrapPreserves, SretPreserves
<1>3. CASE UNCHANGED vars
    BY <1>3 DEF vars, IInv, TypeOK, LockWords, MutualExclusion, Flow, Depths, Extra,
        NeverPanics
<1> QED
    BY <1>1, <1>2, <1>3 DEF Next

\* The invariant holds throughout, on any number of harts and locks.
THEOREM Invariance == Spec => []IInv
<1> QED
    BY InitIInv, NextIInv, PTL DEF Spec

\* The exchange and the two stores of a release keep every lock with one hart.
THEOREM Exclusive == Spec => []MutualExclusion
<1>1. IInv => MutualExclusion
    BY DEF IInv
<1> QED
    BY <1>1, Invariance, PTL

\* The debug checks of spinlock_acquire, spinlock_release and intr_on are never
\* the ones to stop the kernel when locks nest in order.
THEOREM ChecksNeverFire == Spec => []NeverPanics
<1>1. IInv => NeverPanics
    BY DEF IInv
<1> QED
    BY <1>1, Invariance, PTL

\* A hart that holds a lock has its interrupts off.
THEOREM Masked == Spec => []MaskedWhileHeld
<1>1. IInv => MaskedWhileHeld
    <2> SUFFICES ASSUME IInv, NEW h \in Harts, held[h] # {} PROVE sie[h] = 0
        BY DEF MaskedWhileHeld
    <2>1. sie[h] # 1
        BY Unmasked
    <2>2. sie[h] \in 0..1
        BY DEF IInv, TypeOK
    <2> QED
        BY <2>1, <2>2
<1> QED
    BY <1>1, Invariance, PTL

\* spinlock_holding is exact for the hart that asks.
THEOREM HoldingIsExact == Spec => []HoldingExact
<1>1. IInv => HoldingExact
    BY DEF IInv, LockWords, HoldingExact, spinlock_holding
<1> QED
    BY <1>1, Invariance, PTL
-----------------------------------------------------------------------------
(* Trapframe. *)

\* The idle proc runs and nobody else has begun.
LEMMA InitFrameInv == TfInit => FrameInv
<1> SUFFICES ASSUME TfInit PROVE FrameInv
    OBVIOUS
<1> USE ProcAssumption DEF ProcAssumption, TfInit
<1>1. Shapes
    BY DEF Shapes
<1>2. Waiting
    BY DEF Waiting
<1>3. InHandler
    BY DEF InHandler
<1>4. Resumes
    BY DEF Resumes
<1> QED
    BY <1>1, <1>2, <1>3, <1>4 DEF FrameInv

\* New values in the registers of the code that runs are its own.
LEMMA WorkPreserves == FrameInv /\ Work => FrameInv'
<1> SUFFICES ASSUME FrameInv, Work PROVE FrameInv'
    OBVIOUS
<1> USE ProcAssumption DEF ProcAssumption
<1>1. /\ work' = [work EXCEPT ![proc] = (work[proc] + 1) % Stretches]
      /\ ktf' = ktf /\ ctx' = ctx /\ proc' = proc /\ in_trap' = in_trap /\ ~in_trap
    BY DEF Work
<1>2. work' \in [Procs -> Nat]
    BY <1>1 DEF FrameInv, Shapes
<1>3. Shapes'
    BY <1>1, <1>2 DEF FrameInv, Shapes
<1>4. Waiting'
    <2>1. \A p \in Procs \ {proc} : work'[p] = work[p]
        BY <1>1 DEF FrameInv, Shapes
    <2> QED
        BY <1>1, <2>1 DEF FrameInv, Waiting, Framed, Returns
<1>5. InHandler'
    BY <1>1 DEF InHandler
<1>6. Resumes'
    <2>1. \A r \in Regs : regs'[r] = IF r \in {"gp", "tp"} THEN regs[r] ELSE Own(proc, r, work'[proc])
        BY DEF Work
    <2>2. \A r \in {"gp", "tp"} : regs[r] = Own(proc, r, work'[proc])
        BY <1>1 DEF FrameInv, Resumes, Own, Regs, Saved
    <2> QED
        BY <1>1, <2>1, <2>2 DEF Resumes, Work
<1> QED
    BY <1>3, <1>4, <1>5, <1>6 DEF FrameInv

\* kernelvec saves what the code that runs left, in its own frame.
LEMMA KernelvecPreserves == FrameInv /\ kernelvec => FrameInv'
<1> SUFFICES ASSUME FrameInv, kernelvec PROVE FrameInv'
    OBVIOUS
<1>1. /\ ctx' = ctx /\ proc' = proc /\ work' = work /\ in_trap' /\ ~in_trap
      /\ regs["gp"] = proc /\ proc \in Procs
    BY DEF kernelvec, FrameInv, Shapes, Resumes, Own, Regs, Saved
<1>2. ktf' = [ktf EXCEPT ![proc] = kernelvec_frame]
    BY <1>1 DEF kernelvec
<1>3. Shapes'
    BY <1>1, <1>2 DEF kernelvec, FrameInv, Shapes
<1>4. Waiting'
    <2>1. \A p \in Procs \ {proc} : ktf'[p] = ktf[p]
        BY <1>2 DEF FrameInv, Shapes
    <2> QED
        BY <1>1, <2>1 DEF FrameInv, Waiting, Framed, Returns
<1>5. Framed(proc)'
    <2>1. ktf'[proc] = kernelvec_frame
        BY <1>1, <1>2 DEF FrameInv, Shapes
    <2>2. kernelvec_frame["sepc"] = <<proc, "pc", work[proc]>>
        BY <1>1 DEF kernelvec_frame, FrameInv, Resumes, Csrs
    <2>3. \A r \in Kept : kernelvec_frame[r] = Own(proc, r, work[proc])
        BY <1>1 DEF kernelvec_frame, FrameInv, Resumes, Kept, Csrs, Regs, Saved
    <2> QED
        BY <1>1, <2>1, <2>2, <2>3 DEF Framed
<1>6. Returns(regs, proc)' /\ regs'["tp"] = Hart
    <2>1. regs["sp"] = <<proc, "sp", work[proc]>> /\ regs["tp"] = Hart
        BY <1>1 DEF FrameInv, Resumes, Own, Regs, Saved
    <2> QED
        BY <1>1, <2>1 DEF kernelvec, Returns, Regs, Saved
<1> QED
    BY <1>1, <1>3, <1>4, <1>5, <1>6 DEF FrameInv, InHandler, Resumes

\* A switch leaves the old proc where kerneltrap will go on, and the new one goes
\* on in its kerneltrap or begins.
LEMMA SwitchPreserves ==
    ASSUME FrameInv, NEW next \in Procs, context_switch(next)
    PROVE  FrameInv'
<1> USE ProcAssumption DEF ProcAssumption
<1>1. /\ in_trap /\ proc' = next /\ ktf' = ktf /\ work' = work /\ proc \in Procs
      /\ Framed(proc) /\ Returns(regs, proc) /\ regs["tp"] = Hart
    BY DEF context_switch, FrameInv, Shapes, InHandler
<1>2. ctx' = [ctx EXCEPT ![proc] = [r \in Saved |-> regs[r]]]
    BY DEF context_switch
<1>3. Returns(ctx'[proc], proc)
    BY <1>1, <1>2 DEF Returns, FrameInv, Shapes, Saved
<1>4. \A p \in Procs \ {proc} : ctx'[p] = ctx[p]
    BY <1>2 DEF FrameInv, Shapes
<1>5. \A p \in Procs : \/ Framed(p) /\ Returns(ctx'[p], p)
                       \/ p # Idle /\ work[p] = 0 /\ ctx'[p] = Fresh(p)
    BY <1>1, <1>3, <1>4 DEF FrameInv, Waiting
<1>6. Waiting'
    BY <1>1, <1>5 DEF Waiting, Framed, Returns
<1>7. in_trap' \in BOOLEAN
    BY <1>1 DEF context_switch
<1>8. Shapes'
    BY <1>1, <1>2, <1>7 DEF FrameInv, Shapes
<1>9. CASE next # Idle /\ ctx'[next]["ra"] = <<next, "ra", 0>>
    <2>1. /\ ~in_trap' /\ epc' = <<next, "pc", work[next]>>
          /\ regs' = [r \in Regs |-> IF r \in {"gp", "tp", "sp"} THEN loads(ctx'[next], r)
                                     ELSE Own(next, r, work[next])]
        BY <1>9 DEF context_switch
    <2>2. work[next] = 0 /\ ctx'[next] = Fresh(next)
        BY <1>5, <1>9, JunkAssumption DEF Returns, JunkAssumption
    <2>3. \A r \in {"gp", "tp", "sp"} : loads(ctx'[next], r) = Own(next, r, work[next])
        BY <1>1, <1>9, <2>2 DEF loads, Fresh, Own, Saved
    <2>4. Resumes'
        BY <1>1, <2>1, <2>3 DEF Resumes
    <2> QED
        BY <1>6, <1>8, <2>1, <2>4 DEF FrameInv, InHandler
<1>10. CASE ~(next # Idle /\ ctx'[next]["ra"] = <<next, "ra", 0>>)
    <2>1. in_trap' /\ regs' = [r \in Regs |-> loads(ctx'[next], r)]
        BY <1>1, <1>10 DEF context_switch
    <2>2. Framed(next) /\ Returns(ctx'[next], next)
        <3>1. Fresh(next)["ra"] = <<next, "ra", 0>>
            BY DEF Fresh, Saved
        <3> QED
            BY <1>5, <1>10, <3>1
    <2>3. Returns(regs', next) /\ regs'["tp"] = Hart
        BY <1>1, <2>1, <2>2 DEF Returns, loads, Regs, Saved
    <2>4. InHandler'
        BY <1>1, <2>2, <2>3 DEF InHandler, Framed, Returns
    <2> QED
        BY <1>6, <1>8, <2>1, <2>4 DEF FrameInv, Resumes
<1> QED
    BY <1>9, <1>10

\* kernelret gives the proc what kernelvec saved.
LEMMA KernelretPreserves == FrameInv /\ kernelret => FrameInv'
<1> SUFFICES ASSUME FrameInv, kernelret PROVE FrameInv'
    OBVIOUS
<1>1. /\ ktf' = ktf /\ ctx' = ctx /\ proc' = proc /\ work' = work /\ in_trap' = FALSE /\ in_trap
      /\ regs["gp"] = proc /\ Framed(proc)
    BY DEF kernelret, FrameInv, InHandler, Returns
<1>2. ktf[proc]["gp"] = proc
    BY <1>1 DEF Framed, Kept, Own, Regs, Saved
<1>3. /\ epc' = ktf[proc]["sepc"]
      /\ regs' = [r \in Regs |-> CASE r \in {"ra", "sp", "gp"} -> ktf[proc][r]
                                   [] r = "t0" -> ktf[proc]["sepc"]
                                   [] r = "t1" -> ktf[proc]["sstatus"]
                                   [] OTHER -> ktf[proc][r]]
    BY <1>1, <1>2 DEF kernelret
<1>4. Resumes'
    BY <1>1, <1>3 DEF Resumes, Framed, Kept, Regs, Saved
<1>5. Shapes'
    BY <1>1 DEF FrameInv, Shapes
<1>6. Waiting'
    BY <1>1 DEF FrameInv, Waiting, Framed, Returns
<1> QED
    BY <1>1, <1>4, <1>5, <1>6 DEF FrameInv, InHandler

\* Every step preserves the invariant.
LEMMA NextFrameInv == FrameInv /\ [TfNext]_tfVars => FrameInv'
<1> SUFFICES ASSUME FrameInv, [TfNext]_tfVars PROVE FrameInv'
    OBVIOUS
<1>1. CASE UNCHANGED tfVars
    BY <1>1 DEF tfVars, FrameInv, Shapes, Waiting, Framed, Returns, InHandler, Resumes
<1> QED
    BY <1>1, WorkPreserves, KernelvecPreserves, KernelretPreserves, SwitchPreserves DEF TfNext

\* Frames, contexts and registers agree with the inductive invariant, for any set
\* of procs and any interleaving of traps and switches.
THEOREM FrameInvariance == TfSpec => []FrameInv
<1> QED
    BY InitFrameInv, NextFrameInv, PTL DEF TfSpec

\* Interrupted code goes on with its own epc, stack and registers, t0-t2 excepted,
\* whoever ran in between: kernelvec, context_switch and kernelret.
THEOREM CodeResumes == TfSpec => []Resumes
<1>1. FrameInv => Resumes
    BY DEF FrameInv
<1> QED
    BY <1>1, FrameInvariance, PTL
-----------------------------------------------------------------------------
(* PidAlloc. *)

\* The counter starts at PID_MIN with no pid given out.
LEMMA InitPidInv == PidInit => PidInv
BY PidAssumption DEF PidAssumption, PidInit, PidInv, PidTypeOK, Dense, Branches, Pids

\* Every step of every caller keeps the invariant.
LEMMA NextPidInv == PidInv /\ [PidNext]_pidVars => PidInv'
<1> SUFFICES ASSUME PidInv, [PidNext]_pidVars PROVE PidInv'
    OBVIOUS
<1> USE PidAssumption DEF PidAssumption, PidInv, PidTypeOK, Dense, Branches, Pids
<1>1. ASSUME NEW c \in Callers, read(c) PROVE PidInv'
    BY <1>1 DEF read
<1>2. ASSUME NEW c \in Callers, wrap(c) PROVE PidInv'
    <2>1. CASE next_pid = current[c]
        <3>1. /\ next_pid' = PID_MIN /\ given' = {} /\ current' = current /\ pid' = pid
              /\ step' = [step EXCEPT ![c] = "read"]
            BY <1>2, <2>1 DEF wrap
        <3>2. PID_MIN..(PID_MIN - 1) = {}
            OBVIOUS
        <3> QED
            BY <3>1, <3>2
    <2>2. CASE next_pid # current[c]
        BY <1>2, <2>2 DEF wrap
    <2> QED
        BY <2>1, <2>2
<1>3. ASSUME NEW c \in Callers, take(c) PROVE PidInv'
    <2>1. CASE next_pid = current[c]
        <3>1. /\ next_pid' = next_pid + 1 /\ given' = given \cup {next_pid}
              /\ current' = current /\ pid' = [pid EXCEPT ![c] = next_pid]
              /\ step' = [step EXCEPT ![c] = "done"]
              /\ next_pid \in Pids
            BY <1>3, <2>1 DEF take
        <3>2. PID_MIN..(next_pid + 1 - 1) = PID_MIN..(next_pid - 1) \cup {next_pid}
            OBVIOUS
        <3>3. Dense'
            BY <3>1, <3>2
        <3> QED
            BY <3>1, <3>3
    <2>2. CASE next_pid # current[c]
        BY <1>3, <2>2 DEF take
    <2> QED
        BY <2>1, <2>2
<1>4. ASSUME NEW c \in Callers, call(c) PROVE PidInv'
    BY <1>4 DEF call
<1>5. CASE UNCHANGED pidVars
    BY <1>5 DEF pidVars
<1> QED
    BY <1>1, <1>2, <1>3, <1>4, <1>5 DEF PidNext

\* The invariant holds throughout.
THEOREM PidInvariance == PidSpec => []PidInv
<1> QED
    BY InitPidInv, NextPidInv, PTL DEF PidSpec

\* alloc_pid returns pids between PID_MIN and PID_MAX and next_pid stays within
\* one of them.
THEOREM PidTypeCorrect == PidSpec => []PidTypeOK
<1>1. PidInv => PidTypeOK
    BY DEF PidInv
<1> QED
    BY <1>1, PidInvariance, PTL

\* The pids given out since the last reset are exactly PID_MIN..next_pid - 1.
THEOREM NoPidSkipped == PidSpec => []Dense
<1>1. PidInv => Dense
    BY DEF PidInv
<1> QED
    BY <1>1, PidInvariance, PTL

\* alloc_pid gives no pid twice before the counter wraps around.
THEOREM NoPidTwice == PidSpec => GivenOnce
<1>1. PidInv /\ [PidNext]_pidVars
        => [\A c \in Callers : step[c] = "take" /\ step'[c] = "done" => pid'[c] \notin given]_pidVars
    <2> SUFFICES ASSUME PidInv, [PidNext]_pidVars,
                        NEW c \in Callers, step[c] = "take", step'[c] = "done"
                 PROVE  pid'[c] \notin given
        OBVIOUS
    <2> USE PidAssumption DEF PidAssumption, PidInv, PidTypeOK, Dense, Branches, Pids
    <2>1. ASSUME NEW d \in Callers, read(d) \/ wrap(d) \/ call(d) PROVE FALSE
        BY <2>1 DEF read, wrap, call
    <2>2. ASSUME NEW d \in Callers, take(d) PROVE pid'[c] \notin given
        <3>1. next_pid = current[d] /\ d = c
            BY <2>2 DEF take
        <3>2. pid'[c] = next_pid
            BY <3>1, <2>2 DEF take
        <3> QED
            BY <3>2
    <2>3. CASE UNCHANGED pidVars
        BY <2>3 DEF pidVars
    <2> QED
        BY <2>1, <2>2, <2>3 DEF PidNext, read, wrap, call
<1> QED
    BY <1>1, PidInvariance, PTL DEF PidSpec, GivenOnce
==============================================================================
