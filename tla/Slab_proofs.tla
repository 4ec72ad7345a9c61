----------------------------- MODULE Slab_proofs -----------------------------
(* Proofs about a slab cache, for any number of slabs, any size of them and  *)
(* callers that free twice and flush.                                        *)
EXTENDS Slab, FiniteSetTheorems, WellFoundedInduction, TLAPS

\* A set of naturals has a least element.
LEMMA LeastExists ==
    ASSUME NEW T, T \subseteq Nat, T # {}
    PROVE  \E x \in T : \A y \in T : x <= y
<1>1. \E x \in T : \A y \in T : ~(<<y, x>> \in OpToRel(<, Nat))
    BY NatLessThanWellFounded, WFMin
<1>2. \E x \in T : \A y \in T : ~(y < x)
    BY <1>1 DEF OpToRel
<1> QED
    BY <1>2

\* bitmap_find_next_clear yields an object whose bit is clear.
LEMMA NextClearIsClear ==
    ASSUME NEW bits \in SUBSET Index, bits # Index
    PROVE  NextClear(bits) \in Index /\ NextClear(bits) \notin bits
<1>1. Index \ bits # {}
    OBVIOUS
<1>0. Index \ bits \subseteq Nat
    BY DEF Index
<1>2. \E i \in Index \ bits : \A j \in Index \ bits : i <= j
    BY <1>0, <1>1, LeastExists
<1>3. NextClear(bits) \in Index \ bits
    BY <1>2 DEF NextClear
<1> QED
    BY <1>3

\* Setting a clear bit and clearing a set one change the number of bits by one.
LEMMA BitCount ==
    ASSUME NEW bits \in SUBSET Index
    PROVE  /\ Cardinality(bits) \in 0..ObjNum
           /\ Cardinality(bits) = 0 <=> bits = {}
           /\ bits # Index => Cardinality(bits) < ObjNum
           /\ \A i \in Index \ bits : Cardinality(bits \cup {i}) = Cardinality(bits) + 1
           /\ \A i \in bits : Cardinality(bits \ {i}) = Cardinality(bits) - 1
<1> USE SlabAssumption DEF SlabAssumption
<1>1. IsFiniteSet(Index) /\ Cardinality(Index) = ObjNum
    BY FS_Interval DEF Index
<1>2. IsFiniteSet(bits) /\ Cardinality(bits) <= ObjNum /\ (Cardinality(bits) = ObjNum => bits = Index)
    BY <1>1, FS_Subset
<1>3. Cardinality(bits) \in Nat
    BY <1>2, FS_CardinalityType
<1>4. Cardinality(bits) = 0 <=> bits = {}
    BY <1>2, FS_EmptySet
<1>5. \A i \in Index \ bits : Cardinality(bits \cup {i}) = Cardinality(bits) + 1
    BY <1>2, FS_AddElement
<1>6. \A i \in bits : Cardinality(bits \ {i}) = Cardinality(bits) - 1
    BY <1>2, FS_RemoveElement
<1> QED
    BY <1>2, <1>3, <1>4, <1>5, <1>6

\* Who has what depends on the bits only.
LEMMA HeldSame ==
    ASSUME NEW k, NEW m, NEW o, NEW t, Held(k, o, t), \A x \in Objects : IsSet(m, x) <=> IsSet(k, x)
    PROVE  Held(m, o, t)
BY DEF Held

\* A caller gets an object whose bit was clear.
LEMMA HeldServed ==
    ASSUME NEW k, NEW m, NEW o \in [Objects -> Nat], NEW t, Held(k, o, t),
           NEW y \in Objects, ~IsSet(k, y), \A x \in Objects : IsSet(m, x) <=> IsSet(k, x) \/ x = y,
           NEW p, p = [o EXCEPT ![y] = o[y] + 1]
    PROVE  p \in [Objects -> Nat] /\ Held(m, p, t)
<1>1. p \in [Objects -> Nat] /\ p[y] = o[y] + 1 /\ o[y] \in Nat
    OBVIOUS
<1>2. \A x \in Objects : x # y => p[x] = o[x]
    OBVIOUS
<1>3. y \notin t => o[y] = 0
    BY DEF Held
<1>4. p[y] > 0 /\ (y \notin t => p[y] = 1)
    BY <1>1, <1>3
<1> QED
    BY <1>1, <1>2, <1>4 DEF Held

\* A caller that has the object frees it.
LEMMA HeldReturned ==
    ASSUME NEW k, NEW m, NEW o \in [Objects -> Nat], NEW t \in SUBSET Objects, Held(k, o, t),
           NEW y \in Objects, o[y] > 0, \A x \in Objects : IsSet(m, x) <=> IsSet(k, x) /\ x # y,
           NEW p \in [Objects -> Nat], p[y] = o[y] - 1, \A x \in Objects : x # y => p[x] = o[x],
           NEW u \in SUBSET Objects, u \in {t, t \ {y}}, o[y] # 1 => u = t
    PROVE  Held(m, p, u)
<1>1. o[y] \in Nat
    OBVIOUS
<1>2. \A x \in Objects : x # y => p[x] = o[x] /\ (x \in u <=> x \in t)
    OBVIOUS
<1>3. y \notin t => o[y] = 1
    BY <1>1 DEF Held
<1>4. y \notin u => o[y] = 1
    BY <1>3
<1>5. y \notin u => p[y] = 0
    BY <1>1, <1>4
<1> QED
    BY <1>1, <1>2, <1>5 DEF Held

\* A caller that no longer has the object frees it for the ones that do.
LEMMA HeldStolen ==
    ASSUME NEW k, NEW m, NEW o, NEW t \in SUBSET Objects, Held(k, o, t),
           NEW y \in Objects, \A x \in Objects : IsSet(m, x) <=> IsSet(k, x) /\ x # y
    PROVE  Held(m, o, t \cup {y})
BY DEF Held

\* slab_alloc of an object with a clear bit keeps bitmap, count and lists in step.
LEMMA SlabAllocSound ==
    ASSUME NEW k \in Cache, Sound(k), k.free # 0,
           NEW s \in Slabs, k.where[s] = "partial", NEW i \in Index, i \notin k.bm[s],
           NEW m, m = slab_alloc(k, s, i)
    PROVE  /\ m \in Cache
           /\ Sound(m)
           /\ \A x \in Objects : IsSet(m, x) <=> IsSet(k, x) \/ x = <<s, i>>
           /\ m.free = k.free - 1
           /\ m.expanding = k.expanding
           /\ \A q \in Slabs : m.where[q] = "free" => k.where[q] = "free"
<1>0. ObjNum \in Nat \ {0}
    BY SlabAssumption DEF SlabAssumption
<1>1. /\ k.where \in [Slabs -> Lists] /\ k.bm \in [Slabs -> SUBSET Index]
      /\ k.sfree \in [Slabs -> Nat] /\ k.free \in Nat /\ k.total \in Nat /\ k.expanding \in BOOLEAN
    BY DEF Cache
<1>2. /\ k.sfree[s] = ObjNum - Cardinality(k.bm[s]) /\ k.sfree[s] # 0
      /\ k.bm[s] \in SUBSET Index
    BY <1>1 DEF Sound
<1>3. Cardinality(k.bm[s] \cup {i}) = Cardinality(k.bm[s]) + 1
    BY <1>2, BitCount
<1>4. m = [where |-> [k.where EXCEPT ![s] = IF k.sfree[s] = 1 THEN "full" ELSE k.where[s]],
           bm |-> [k.bm EXCEPT ![s] = k.bm[s] \cup {i}], sfree |-> [k.sfree EXCEPT ![s] = k.sfree[s] - 1],
           free |-> k.free - 1, total |-> k.total, expanding |-> k.expanding]
    BY DEF slab_alloc, Cache
<1>5. /\ m.where \in [Slabs -> Lists] /\ m.bm \in [Slabs -> SUBSET Index]
      /\ m.sfree \in [Slabs -> Nat] /\ m.free \in Nat
    BY <1>0, <1>1, <1>2, <1>4 DEF Lists
<1>6. m \in Cache
    BY <1>1, <1>4, <1>5 DEF Cache
<1>7. Sound(m)
    <2> SUFFICES ASSUME NEW q \in Slabs
                 PROVE  /\ m.where[q] \in {"none", "free"} => m.bm[q] = {}
                        /\ m.where[q] # "none" => /\ m.sfree[q] = ObjNum - Cardinality(m.bm[q])
                                                  /\ m.where[q] = "full" <=> m.sfree[q] = 0
        BY DEF Sound
    <2>1. CASE q = s
        <3>0. Cardinality(k.bm[s]) \in 0..ObjNum
            BY <1>2, BitCount
        <3>1. m.sfree[s] = ObjNum - Cardinality(m.bm[s]) /\ (m.where[s] = "full" <=> m.sfree[s] = 0)
            BY <1>0, <1>1, <1>2, <1>3, <1>4, <3>0
        <3>2. m.where[s] \notin {"none", "free"}
            BY <1>1, <1>4
        <3> QED
            BY <2>1, <3>1, <3>2
    <2>2. CASE q # s
        BY <1>1, <1>4, <2>2 DEF Sound
    <2> QED
        BY <2>1, <2>2
<1>8. \A x \in Objects : IsSet(m, x) <=> IsSet(k, x) \/ x = <<s, i>>
    BY <1>1, <1>4 DEF IsSet, Objects
<1>9. /\ m.free = k.free - 1 /\ m.expanding = k.expanding
      /\ \A q \in Slabs : m.where[q] = "free" => k.where[q] = "free"
    BY <1>1, <1>4
<1> QED
    BY <1>6, <1>7, <1>8, <1>9

\* The end of kmem_cache_alloc keeps a sound cache sound and takes one object at
\* most, for one caller.
LEMMA TakePreserves ==
    ASSUME NEW k \in Cache, Sound(k), out \in [Objects -> Nat], Held(k, out, stale), take(k)
    PROVE  /\ halt' \in {halt, "no_slab"}
           /\ kmem' \in Cache /\ Sound(kmem')
           /\ out' \in [Objects -> Nat] /\ Held(kmem', out', stale)
           /\ kmem'.free >= k.free - 1 /\ kmem'.expanding = k.expanding
           /\ \A q \in Slabs : kmem'.where[q] = "free" => k.where[q] = "free"
<1> DEFINE Goal == /\ halt' \in {halt, "no_slab"}
                   /\ kmem' \in Cache /\ Sound(kmem')
                   /\ out' \in [Objects -> Nat] /\ Held(kmem', out', stale)
                   /\ kmem'.free >= k.free - 1 /\ kmem'.expanding = k.expanding
                   /\ \A q \in Slabs : kmem'.where[q] = "free" => k.where[q] = "free"
<1>0. k.free \in Nat /\ k.bm \in [Slabs -> SUBSET Index]
    BY DEF Cache
<1>1. CASE kmem' = k /\ out' = out /\ halt' \in {halt, "no_slab"}
    BY <1>0, <1>1
<1>2. ASSUME NEW s \in On(k, "partial"), k.bm[s] # Index, k.free # 0,
             kmem' = slab_alloc(k, s, NextClear(k.bm[s])),
             out' = [out EXCEPT ![<<s, NextClear(k.bm[s])>>] = @ + 1],
             halt' = halt
      PROVE  Goal
    <2>1. s \in Slabs /\ k.where[s] = "partial"
        BY DEF On
    <2>2. PICK i \in Index : i = NextClear(k.bm[s]) /\ i \notin k.bm[s]
        BY <1>0, <1>2, <2>1, NextClearIsClear
    <2>3. k.free - 1 >= k.free - 1
        BY <1>0
    <2>4. PICK m : m = kmem'
        OBVIOUS
    <2>5. /\ m \in Cache /\ Sound(m) /\ m.free = k.free - 1
          /\ \A x \in Objects : IsSet(m, x) <=> IsSet(k, x) \/ x = <<s, i>>
          /\ m.expanding = k.expanding
          /\ \A q \in Slabs : m.where[q] = "free" => k.where[q] = "free"
        BY <1>2, <2>1, <2>2, <2>4, SlabAllocSound
    <2>6. PICK y \in Objects : y = <<s, i>> /\ ~IsSet(k, y)
        <3>1. <<s, i>> \in Objects
            BY <2>1 DEF Objects
        <3>2. ~IsSet(k, <<s, i>>)
            BY <2>2 DEF IsSet
        <3> QED
            BY <3>1, <3>2
    <2>7. out' \in [Objects -> Nat] /\ Held(m, out', stale)
        <3>1. PICK o : o = out
            OBVIOUS
        <3>2. PICK t : t = stale
            OBVIOUS
        <3>3. PICK p : p = out'
            OBVIOUS
        <3>4. o \in [Objects -> Nat] /\ Held(k, o, t) /\ p = [o EXCEPT ![y] = o[y] + 1]
            BY <1>2, <2>2, <2>6, <3>1, <3>2, <3>3
        <3>5. \A x \in Objects : IsSet(m, x) <=> IsSet(k, x) \/ x = y
            BY <2>5, <2>6
        <3>6. p \in [Objects -> Nat] /\ Held(m, p, t)
            BY <2>6, <3>4, <3>5, HeldServed
        <3> QED
            BY <3>2, <3>3, <3>6
    <2> QED
        BY <1>2, <2>3, <2>4, <2>5, <2>7
<1>3. ASSUME NEW s \in On(k, "partial")
      PROVE  k.bm[s] # Index
    <2>1. s \in Slabs /\ k.where[s] = "partial" /\ ObjNum \in Nat
        BY SlabAssumption DEF On, SlabAssumption
    <2>2. k.sfree[s] = ObjNum - Cardinality(k.bm[s]) /\ k.sfree[s] # 0
        BY <2>1 DEF Sound
    <2>3. Cardinality(Index) = ObjNum
        BY <2>1, FS_Interval DEF Index
    <2> QED
        BY <2>1, <2>2, <2>3
<1> QED
    BY <1>1, <1>2, <1>3 DEF take

\* slab_init of a blob that is no slab yet: its objects are all free.
LEMMA SlabInitSound ==
    ASSUME NEW k \in Cache, Sound(k),
           NEW s \in Slabs, k.where[s] = "none",
           NEW m, m = slab_init(k, s)
    PROVE  /\ m \in Cache /\ Sound(m)
           /\ \A x \in Objects : IsSet(m, x) <=> IsSet(k, x)
           /\ m.free = k.free + ObjNum
           /\ m.expanding = k.expanding
           /\ \A q \in Slabs : m.where[q] = "free" => k.where[q] = "free"
<1>0. ObjNum \in Nat \ {0}
    BY SlabAssumption DEF SlabAssumption
<1>1. /\ k.where \in [Slabs -> Lists] /\ k.bm \in [Slabs -> SUBSET Index]
      /\ k.sfree \in [Slabs -> Nat] /\ k.free \in Nat /\ k.total \in Nat /\ k.expanding \in BOOLEAN
    BY DEF Cache
<1>2. m = [where |-> [k.where EXCEPT ![s] = "partial"],
           bm |-> [k.bm EXCEPT ![s] = {}], sfree |-> [k.sfree EXCEPT ![s] = ObjNum],
           free |-> k.free + ObjNum, total |-> k.total + ObjNum, expanding |-> k.expanding]
    BY DEF slab_init, Cache
<1>3. m \in Cache
    BY <1>0, <1>1, <1>2 DEF Cache, Lists
<1>4. Cardinality({}) = 0
    BY FS_EmptySet
<1>5. Sound(m)
    BY <1>0, <1>1, <1>2, <1>4 DEF Sound
<1>6. k.bm[s] = {}
    BY DEF Sound
<1>7. \A x \in Objects : IsSet(m, x) <=> IsSet(k, x)
    BY <1>1, <1>2, <1>6 DEF IsSet, Objects
<1>8. m.free = k.free + ObjNum /\ m.expanding = k.expanding
    BY <1>2
<1>9. \A q \in Slabs : m.where[q] = "free" => k.where[q] = "free"
    BY <1>1, <1>2
<1> QED
    BY <1>3, <1>5, <1>7, <1>8, <1>9

\* slab_free of an object whose bit is set.
LEMMA SlabFreeSound ==
    ASSUME NEW k \in Cache, Sound(k),
           NEW s \in Slabs, k.where[s] # "none", NEW i \in k.bm[s],
           NEW m, m = slab_free(k, s, i)
    PROVE  /\ m \in Cache /\ Sound(m)
           /\ \A x \in Objects : IsSet(m, x) <=> IsSet(k, x) /\ x # <<s, i>>
           /\ m.free = k.free
           /\ m.expanding = k.expanding
           /\ \A q \in Slabs : m.where[q] = "free" => k.where[q] = "free"
<1>0. ObjNum \in Nat \ {0}
    BY SlabAssumption DEF SlabAssumption
<1>1. /\ k.where \in [Slabs -> Lists] /\ k.bm \in [Slabs -> SUBSET Index]
      /\ k.sfree \in [Slabs -> Nat] /\ k.free \in Nat /\ k.total \in Nat /\ k.expanding \in BOOLEAN
    BY DEF Cache
<1>2. /\ k.sfree[s] = ObjNum - Cardinality(k.bm[s])
      /\ k.where[s] = "full" <=> k.sfree[s] = 0
      /\ k.bm[s] \in SUBSET Index
      /\ k.where[s] # "free"
    BY <1>1 DEF Sound
<1>3. Cardinality(k.bm[s] \ {i}) = Cardinality(k.bm[s]) - 1
    BY <1>2, BitCount
<1>4. m = [where |-> [k.where EXCEPT ![s] = IF k.sfree[s] = 0 THEN "partial" ELSE k.where[s]],
           bm |-> [k.bm EXCEPT ![s] = k.bm[s] \ {i}], sfree |-> [k.sfree EXCEPT ![s] = k.sfree[s] + 1],
           free |-> k.free, total |-> k.total, expanding |-> k.expanding]
    BY DEF slab_free, Cache
<1>5. /\ m.where \in [Slabs -> Lists] /\ m.bm \in [Slabs -> SUBSET Index]
      /\ m.sfree \in [Slabs -> Nat] /\ m.free \in Nat
    BY <1>0, <1>1, <1>2, <1>4 DEF Lists
<1>6. m \in Cache
    BY <1>1, <1>4, <1>5 DEF Cache
<1>7. Sound(m)
    <2> SUFFICES ASSUME NEW q \in Slabs
                 PROVE  /\ m.where[q] \in {"none", "free"} => m.bm[q] = {}
                        /\ m.where[q] # "none" => /\ m.sfree[q] = ObjNum - Cardinality(m.bm[q])
                                                  /\ m.where[q] = "full" <=> m.sfree[q] = 0
        BY DEF Sound
    <2>1. CASE q = s
        <3>1. Cardinality(k.bm[s]) \in 0..ObjNum
            BY <1>2, BitCount
        <3>2. m.sfree[s] = ObjNum - Cardinality(m.bm[s]) /\ m.sfree[s] # 0 /\ m.where[s] # "full"
            BY <1>0, <1>1, <1>2, <1>3, <1>4, <3>1
        <3>3. m.where[s] \notin {"none", "free"}
            BY <1>1, <1>2, <1>4
        <3> QED
            BY <2>1, <3>2, <3>3
    <2>2. CASE q # s
        BY <1>1, <1>4, <2>2 DEF Sound
    <2> QED
        BY <2>1, <2>2
<1>8. \A x \in Objects : IsSet(m, x) <=> IsSet(k, x) /\ x # <<s, i>>
    BY <1>1, <1>4 DEF IsSet, Objects
<1>9. /\ m.free = k.free /\ m.expanding = k.expanding
      /\ \A q \in Slabs : m.where[q] = "free" => k.where[q] = "free"
    BY <1>1, <1>4
<1> QED
    BY <1>6, <1>7, <1>8, <1>9

-----------------------------------------------------------------------------
LEMMA InitIInv == Init => IInv
<1> SUFFICES ASSUME Init PROVE IInv
    OBVIOUS
<1>0. ObjNum \in Nat \ {0} /\ Nest \in Nat /\ 0 \in 0..Nest
    BY SlabAssumption DEF SlabAssumption
<1>1. Empty \in Cache /\ Sound(Empty) /\ \A x \in Objects : ~IsSet(Empty, x)
    BY DEF Empty, Cache, Lists, Sound, Objects, IsSet
<1>2. PICK s \in Slabs : kmem = slab_init(Empty, s)
    BY DEF Init
<1>3. /\ Empty.where[s] = "none" /\ Empty.free = 0 /\ Empty.expanding = FALSE
      /\ \A q \in Slabs : Empty.where[q] # "free"
    BY DEF Empty
<1>4. /\ kmem \in Cache /\ Sound(kmem) /\ kmem.free = 0 + ObjNum /\ kmem.expanding = FALSE
      /\ \A q \in Slabs : kmem.where[q] # "free"
      /\ \A x \in Objects : IsSet(kmem, x) <=> IsSet(Empty, x)
    BY <1>1, <1>2, <1>3, SlabInitSound
<1>5. TypeOK
    BY <1>0, <1>4 DEF Init, TypeOK
<1>6. Reserve
    BY <1>0, <1>4 DEF Reserve, On
<1>7. Held(kmem, out, stale)
    BY <1>1, <1>4 DEF Init, Held
<1> QED
    BY <1>4, <1>5, <1>6, <1>7 DEF Init, IInv, Panics

\* kmem_cache_alloc, nested or not, with or without a slab from slabs_free.
LEMMA AllocStep == IInv /\ kmem_cache_alloc => IInv'
<1> SUFFICES ASSUME IInv, kmem_cache_alloc PROVE IInv'
    OBVIOUS
<1>0. ObjNum \in Nat \ {0} /\ Nest \in 0..(ObjNum - 1)
    BY SlabAssumption DEF SlabAssumption
<1>1. /\ kmem \in Cache /\ kmem.free \in Nat /\ kmem.expanding \in BOOLEAN /\ kmem.sfree \in [Slabs -> Nat]
      /\ kmem.where \in [Slabs -> Lists] /\ kmem.bm \in [Slabs -> SUBSET Index]
      /\ out \in [Objects -> Nat] /\ Sound(kmem) /\ Held(kmem, out, stale)
      /\ nested \in 0..Nest /\ kmem.total \in Nat
    BY DEF IInv, TypeOK, Cache
<1>2. UNCHANGED <<leaked, refused, drift, stale>>
    BY DEF kmem_cache_alloc
<1>3. CASE needs_slab(kmem) /\ On(kmem, "free") # {}
    <2>1. PICK s \in On(kmem, "free") :
             take([kmem EXCEPT !.where[s] = "partial", !.total = @ + ObjNum, !.free = @ + kmem.sfree[s]])
        BY <1>3 DEF kmem_cache_alloc
    <2>2. s \in Slabs /\ kmem.where[s] = "free"
        BY DEF On
    <2>3. PICK k : k = [kmem EXCEPT !.where[s] = "partial", !.total = @ + ObjNum, !.free = @ + kmem.sfree[s]]
        OBVIOUS
    <2>4. k = [where |-> [kmem.where EXCEPT ![s] = "partial"], bm |-> kmem.bm, sfree |-> kmem.sfree,
               free |-> kmem.free + kmem.sfree[s], total |-> kmem.total + ObjNum,
               expanding |-> kmem.expanding]
        BY <1>1, <2>2, <2>3 DEF Cache
    <2>5. k \in Cache
        BY <1>0, <1>1, <2>2, <2>4 DEF Cache, Lists
    <2>6. Sound(k)
        BY <1>1, <2>2, <2>4 DEF Sound
    <2>a. Held(k, out, stale)
        BY <1>1, <2>4, HeldSame DEF IsSet
    <2>7. /\ kmem' \in Cache /\ Sound(kmem') /\ out' \in [Objects -> Nat] /\ Held(kmem', out', stale)
          /\ halt' \in {halt, "no_slab"}
        BY <1>1, <2>1, <2>3, <2>5, <2>6, <2>a, TakePreserves
    <2>8. TypeOK' /\ Sound(kmem)' /\ Held(kmem, out, stale)'
        BY <1>1, <1>2, <1>3, <2>7 DEF kmem_cache_alloc, IInv, TypeOK
    <2>9. Reserve'
        BY <1>2, <1>3 DEF IInv, Reserve
    <2> QED
        BY <2>7, <2>8, <2>9 DEF IInv, Panics
<1>4. CASE needs_slab(kmem) /\ On(kmem, "free") = {}
    <2>1. kmem' = [kmem EXCEPT !.expanding = TRUE] /\ nested' = 0 /\ out' = out /\ halt' = halt
        BY <1>4 DEF kmem_cache_alloc
    <2>2. kmem' = [where |-> kmem.where, bm |-> kmem.bm, sfree |-> kmem.sfree, free |-> kmem.free,
                   total |-> kmem.total, expanding |-> TRUE]
        BY <1>1, <2>1 DEF Cache
    <2>3. TypeOK'
        <3>1. kmem' \in Cache
            BY <1>1, <2>2 DEF Cache
        <3>2. 0 \in 0..Nest
            BY <1>0
        <3> QED
            BY <1>1, <1>2, <2>1, <3>1, <3>2 DEF IInv, TypeOK
    <2>4. Sound(kmem')
        BY <1>1, <2>2 DEF Sound
    <2>5. Reserve'
        BY <1>0, <1>1, <1>2, <1>4, <2>1, <2>2 DEF IInv, Reserve, On, needs_slab
    <2>6. Held(kmem, out, stale)'
        BY <1>1, <1>2, <2>1, <2>2, HeldSame DEF IsSet
    <2> QED
        BY <2>1, <2>3, <2>4, <2>5, <2>6 DEF IInv, Panics
<1>5. CASE ~needs_slab(kmem)
    <2>1. /\ kmem.expanding => nested < Nest
          /\ nested' = IF kmem.expanding THEN nested + 1 ELSE nested
          /\ take(kmem)
        BY <1>5 DEF kmem_cache_alloc
    <2>2. /\ kmem' \in Cache /\ Sound(kmem') /\ out' \in [Objects -> Nat] /\ Held(kmem', out', stale)
          /\ halt' \in {halt, "no_slab"}
          /\ kmem'.free >= kmem.free - 1 /\ kmem'.expanding = kmem.expanding
          /\ \A q \in Slabs : kmem'.where[q] = "free" => kmem.where[q] = "free"
        BY <1>1, <2>1, TakePreserves
    <2>3. nested' \in 0..Nest
        BY <1>0, <1>1, <2>1
    <2>4. TypeOK' /\ Held(kmem, out, stale)'
        BY <1>2, <2>2, <2>3 DEF IInv, TypeOK
    <2>5. kmem'.free \in Nat
        BY <2>2 DEF Cache
    <2>6. ASSUME ~refused', drift' = 0
          PROVE  On(kmem, "free")' = {} /\ kmem'.free >= ObjNum - 1 - (IF kmem'.expanding THEN nested' ELSE 0)
        <3>1. On(kmem, "free") = {} /\ kmem.free >= ObjNum - 1 - (IF kmem.expanding THEN nested ELSE 0)
            BY <1>2, <2>6 DEF IInv, Reserve
        <3>2. On(kmem, "free")' = {}
            BY <2>2, <3>1 DEF On
        <3>3. CASE kmem.expanding
            BY <1>0, <1>1, <2>1, <2>2, <2>5, <3>1, <3>2, <3>3
        <3>4. CASE ~kmem.expanding
            <4>1. kmem.free >= ObjNum
                BY <1>0, <1>1, <1>5, <3>4 DEF needs_slab, low
            <4> QED
                BY <1>0, <1>1, <2>2, <2>5, <3>2, <3>4, <4>1
        <3> QED
            BY <3>3, <3>4
    <2>7. Reserve'
        BY <2>6 DEF Reserve
    <2> QED
        BY <2>2, <2>4, <2>7 DEF IInv, Panics
<1> QED
    BY <1>3, <1>4, <1>5

\* buddy_alloc returns: the new slab makes up for what was taken meanwhile.
LEMMA ExpandStep == IInv /\ expand => IInv'
<1> SUFFICES ASSUME IInv, expand PROVE IInv'
    OBVIOUS
<1>0. ObjNum \in Nat \ {0} /\ Nest \in 0..(ObjNum - 1)
    BY SlabAssumption DEF SlabAssumption
<1>1. /\ kmem \in Cache /\ kmem.free \in Nat /\ kmem.expanding \in BOOLEAN /\ kmem.sfree \in [Slabs -> Nat]
      /\ kmem.where \in [Slabs -> Lists] /\ kmem.bm \in [Slabs -> SUBSET Index]
      /\ out \in [Objects -> Nat] /\ Sound(kmem) /\ Held(kmem, out, stale)
      /\ nested \in 0..Nest /\ kmem.total \in Nat
    BY DEF IInv, TypeOK, Cache
<1>2. UNCHANGED <<leaked, nested, drift, stale>>
    BY DEF expand
<1>3. PICK k : k = [kmem EXCEPT !.expanding = FALSE]
    OBVIOUS
<1>4. k = [where |-> kmem.where, bm |-> kmem.bm, sfree |-> kmem.sfree, free |-> kmem.free,
           total |-> kmem.total, expanding |-> FALSE]
    BY <1>1, <1>3 DEF Cache
<1>5. k \in Cache /\ Sound(k) /\ Held(k, out, stale)
    <2>1. k \in Cache
        BY <1>1, <1>4 DEF Cache
    <2>2. Sound(k)
        BY <1>1, <1>4 DEF Sound
    <2>3. Held(k, out, stale)
        BY <1>1, <1>4, HeldSame DEF IsSet
    <2> QED
        BY <2>1, <2>2, <2>3
<1>6. ASSUME NEW s \in On(kmem, "none"), take(slab_init(k, s)), refused' = refused
      PROVE  IInv'
    <2>1. s \in Slabs /\ k.where[s] = "none"
        BY <1>4 DEF On
    <2>2. PICK m : m = slab_init(k, s)
        OBVIOUS
    <2>3. /\ m \in Cache /\ Sound(m) /\ m.free = k.free + ObjNum /\ m.expanding = k.expanding
          /\ \A q \in Slabs : m.where[q] = "free" => k.where[q] = "free"
          /\ \A x \in Objects : IsSet(m, x) <=> IsSet(k, x)
        BY <1>5, <2>1, <2>2, SlabInitSound
    <2>a. Held(m, out, stale)
        BY <1>5, <2>3, HeldSame
    <2>4. /\ kmem' \in Cache /\ Sound(kmem') /\ out' \in [Objects -> Nat] /\ Held(kmem', out', stale)
          /\ halt' \in {halt, "no_slab"}
          /\ kmem'.free >= m.free - 1 /\ kmem'.expanding = m.expanding
          /\ \A q \in Slabs : kmem'.where[q] = "free" => m.where[q] = "free"
        BY <1>1, <1>6, <2>2, <2>3, <2>a, TakePreserves
    <2>5. TypeOK' /\ Held(kmem, out, stale)'
        BY <1>2, <1>6, <2>4 DEF IInv, TypeOK
    <2>6. kmem'.free \in Nat /\ kmem'.expanding = FALSE /\ kmem'.free >= ObjNum - 1
        BY <1>0, <1>1, <1>4, <2>3, <2>4 DEF Cache
    <2>7. Reserve'
        BY <1>0, <1>2, <1>4, <1>6, <2>3, <2>4, <2>6 DEF IInv, Reserve, On
    <2> QED
        BY <2>4, <2>5, <2>7 DEF IInv, Panics
<1>7. ASSUME take(k), refused' = TRUE
      PROVE  IInv'
    <2>1. /\ kmem' \in Cache /\ Sound(kmem') /\ out' \in [Objects -> Nat] /\ Held(kmem', out', stale)
          /\ halt' \in {halt, "no_slab"}
        BY <1>1, <1>5, <1>7, TakePreserves
    <2> QED
        BY <1>2, <1>7, <2>1 DEF IInv, TypeOK, Reserve, Panics
<1> QED
    BY <1>3, <1>6, <1>7 DEF expand

\* An object whose bit is set belongs to a slab that has objects out.
LEMMA SetBitCounted ==
    ASSUME NEW k \in Cache, Sound(k), NEW s \in Slabs, NEW i \in k.bm[s]
    PROVE  k.where[s] \notin {"none", "free"} /\ k.sfree[s] # ObjNum
<1>0. ObjNum \in Nat /\ k.bm[s] \in SUBSET Index /\ k.bm[s] # {}
    BY SlabAssumption DEF SlabAssumption, Cache
<1>1. k.where[s] \notin {"none", "free"}
    BY <1>0 DEF Sound
<1>2. Cardinality(k.bm[s]) \in 0..ObjNum /\ Cardinality(k.bm[s]) # 0
    BY <1>0, BitCount
<1>3. k.sfree[s] = ObjNum - Cardinality(k.bm[s])
    BY <1>1 DEF Sound
<1> QED
    BY <1>0, <1>1, <1>2, <1>3

\* What kmem_cache_free does to the cache: a set bit is cleared, a clear one leaves
\* everything but kmem->free as it was.
LEMMA FreeIs ==
    ASSUME IInv, NEW s \in Slabs, NEW i \in Index, NEW has \in BOOLEAN, kmem_cache_free(s, i, has)
    PROVE  /\ kmem' \in Cache /\ Sound(kmem') /\ halt' = halt
           /\ \A x \in Objects : IsSet(kmem', x) <=> IsSet(kmem, x) /\ x # <<s, i>>
           /\ kmem'.free = kmem.free + 1 /\ kmem'.expanding = kmem.expanding
           /\ \A q \in Slabs : kmem'.where[q] = "free" => kmem.where[q] = "free"
           /\ i \in kmem.bm[s] => drift' = drift /\ kmem' = [slab_free(kmem, s, i) EXCEPT !.free = @ + 1]
           /\ i \notin kmem.bm[s] => drift' = drift + 1 /\ kmem' = [kmem EXCEPT !.free = @ + 1]
<1>1. /\ kmem \in Cache /\ kmem.free \in Nat /\ kmem.expanding \in BOOLEAN /\ kmem.sfree \in [Slabs -> Nat]
      /\ kmem.where \in [Slabs -> Lists] /\ kmem.bm \in [Slabs -> SUBSET Index]
      /\ Sound(kmem) /\ kmem.total \in Nat
    BY DEF IInv, TypeOK, Cache
<1>2. kmem.where[s] # "none"
    BY DEF kmem_cache_free
<1>4. CASE i \notin kmem.bm[s]
    <2>1. kmem' = [kmem EXCEPT !.free = @ + 1] /\ halt' = halt /\ drift' = drift + 1
        BY <1>4 DEF kmem_cache_free
    <2>2. kmem' = [where |-> kmem.where, bm |-> kmem.bm, sfree |-> kmem.sfree, free |-> kmem.free + 1,
                   total |-> kmem.total, expanding |-> kmem.expanding]
        BY <1>1, <2>1 DEF Cache
    <2>3. kmem' \in Cache
        BY <1>1, <2>2 DEF Cache
    <2>4. Sound(kmem')
        BY <1>1, <2>2 DEF Sound
    <2>5. \A x \in Objects : IsSet(kmem', x) <=> IsSet(kmem, x) /\ x # <<s, i>>
        BY <1>4, <2>2 DEF IsSet, Objects
    <2> QED
        BY <1>4, <2>1, <2>2, <2>3, <2>4, <2>5
<1>5. CASE i \in kmem.bm[s]
    <2>0. kmem.sfree[s] # ObjNum
        BY <1>1, <1>5, SetBitCounted
    <2>1. kmem' = [slab_free(kmem, s, i) EXCEPT !.free = @ + 1] /\ halt' = halt /\ drift' = drift
        BY <1>5, <2>0 DEF kmem_cache_free
    <2>2. PICK m : m = slab_free(kmem, s, i)
        OBVIOUS
    <2>3. /\ m \in Cache /\ Sound(m) /\ m.free = kmem.free /\ m.expanding = kmem.expanding
          /\ \A q \in Slabs : m.where[q] = "free" => kmem.where[q] = "free"
          /\ \A x \in Objects : IsSet(m, x) <=> IsSet(kmem, x) /\ x # <<s, i>>
        <3>1. PICK k : k = kmem
            OBVIOUS
        <3>2. k \in Cache /\ Sound(k)
            BY <1>1, <3>1
        <3>3. k.where[s] # "none" /\ i \in k.bm[s] /\ m = slab_free(k, s, i)
            BY <1>2, <1>5, <2>2, <3>1
        <3>4. /\ m \in Cache /\ Sound(m) /\ m.free = k.free /\ m.expanding = k.expanding
              /\ \A q \in Slabs : m.where[q] = "free" => k.where[q] = "free"
              /\ \A x \in Objects : IsSet(m, x) <=> IsSet(k, x) /\ x # <<s, i>>
            BY <3>2, <3>3, SlabFreeSound
        <3> QED
            BY <3>1, <3>4
    <2>4. kmem' = [where |-> m.where, bm |-> m.bm, sfree |-> m.sfree, free |-> m.free + 1,
                   total |-> m.total, expanding |-> m.expanding]
        BY <2>1, <2>2, <2>3 DEF Cache
    <2>5. kmem' \in Cache
        BY <1>1, <2>3, <2>4 DEF Cache
    <2>6. Sound(kmem')
        BY <2>3, <2>4 DEF Sound
    <2>7. \A x \in Objects : IsSet(kmem', x) <=> IsSet(m, x)
        BY <2>4 DEF IsSet
    <2> QED
        BY <1>5, <2>1, <2>3, <2>4, <2>5, <2>6, <2>7
<1> QED
    BY <1>4, <1>5

\* kmem_cache_free, by a caller that has the object and by one that has not.
LEMMA FreeStep ==
    ASSUME IInv, NEW s \in Slabs, NEW i \in Index, NEW has \in BOOLEAN, kmem_cache_free(s, i, has)
    PROVE  IInv'
<1>0. ObjNum \in Nat \ {0} /\ Nest \in 0..(ObjNum - 1)
    BY SlabAssumption DEF SlabAssumption
<1>1. /\ kmem.free \in Nat /\ kmem.expanding \in BOOLEAN /\ out \in [Objects -> Nat] /\ stale \in SUBSET Objects
      /\ Held(kmem, out, stale) /\ nested \in 0..Nest /\ drift \in Nat
    BY DEF IInv, TypeOK, Cache
<1>2. UNCHANGED <<leaked, nested, refused>>
    BY DEF kmem_cache_free
<1>3. /\ kmem' \in Cache /\ Sound(kmem') /\ halt' = halt
      /\ \A x \in Objects : IsSet(kmem', x) <=> IsSet(kmem, x) /\ x # <<s, i>>
      /\ kmem'.free = kmem.free + 1 /\ kmem'.expanding = kmem.expanding
      /\ \A q \in Slabs : kmem'.where[q] = "free" => kmem.where[q] = "free"
      /\ drift' \in {drift, drift + 1}
    BY FreeIs
<1>4. out' \in [Objects -> Nat] /\ stale' \subseteq Objects /\ Held(kmem', out', stale')
    <2>1. PICK k, m, o, t, p, u : /\ k = kmem /\ m = kmem' /\ o = out /\ t = stale /\ p = out' /\ u = stale'
        OBVIOUS
    <2>2. PICK y \in Objects : y = <<s, i>>
        BY DEF Objects
    <2>3. o \in [Objects -> Nat] /\ t \in SUBSET Objects /\ Held(k, o, t)
        BY <1>1, <2>1
    <2>4. \A x \in Objects : IsSet(m, x) <=> IsSet(k, x) /\ x # y
        BY <1>3, <2>1, <2>2
    <2>5. CASE has
        <3>1. o[y] > 0 /\ p = [o EXCEPT ![y] = o[y] - 1] /\ u = IF o[y] = 1 THEN t \ {y} ELSE t
            BY <2>1, <2>2, <2>5 DEF kmem_cache_free
        <3>2. p \in [Objects -> Nat] /\ p[y] = o[y] - 1 /\ \A x \in Objects : x # y => p[x] = o[x]
            BY <2>3, <3>1
        <3>3. u \in SUBSET Objects /\ u \in {t, t \ {y}} /\ (o[y] # 1 => u = t)
            BY <2>3, <3>1
        <3>4. o[y] > 0
            BY <3>1
        <3>5. Held(m, p, u)
            BY <2>3, <2>4, <3>2, <3>3, <3>4, HeldReturned
        <3> QED
            BY <2>1, <3>2, <3>3, <3>5
    <2>6. CASE ~has /\ i \in kmem.bm[s]
        <3>1. p = o /\ u = t \cup {y}
            BY <2>1, <2>2, <2>6 DEF kmem_cache_free
        <3>2. Held(m, o, t \cup {y})
            BY <2>3, <2>4, HeldStolen
        <3> QED
            BY <2>1, <2>3, <3>1, <3>2
    <2>7. CASE ~has /\ i \notin kmem.bm[s]
        <3>1. p = o /\ u = t
            BY <2>1, <2>2, <2>7 DEF kmem_cache_free
        <3>2. ~IsSet(k, y)
            BY <2>1, <2>2, <2>7 DEF IsSet
        <3>3. \A x \in Objects : IsSet(m, x) <=> IsSet(k, x)
            BY <2>4, <3>2
        <3>4. Held(m, o, t)
            BY <2>3, <3>3, HeldSame
        <3> QED
            BY <2>1, <2>3, <3>1, <3>4
    <2> QED
        BY <2>5, <2>6, <2>7
<1>5. drift' \in Nat /\ (drift' = 0 => drift = 0)
    BY <1>1, <1>3
<1>6. TypeOK'
    BY <1>2, <1>3, <1>4, <1>5 DEF IInv, TypeOK
<1>7. Reserve'
    <2>1. On(kmem, "free") = {} => On(kmem, "free")' = {}
        BY <1>3 DEF On
    <2> QED
        BY <1>0, <1>1, <1>2, <1>3, <1>5, <2>1 DEF IInv, Reserve
<1> QED
    BY <1>3, <1>4, <1>6, <1>7 DEF IInv, Panics

\* The slabs that a flush moves are finitely many and have all their bits clear.
LEMMA UnusedIs ==
    ASSUME NEW k \in Cache, Sound(k)
    PROVE  /\ IsFiniteSet(unused(k)) /\ Cardinality(unused(k)) \in Nat
           /\ Cardinality(unused(k)) = 0 => unused(k) = {}
           /\ \A s \in unused(k) : s \in Slabs /\ k.where[s] = "partial" /\ k.bm[s] = {}
<1>1. IsFiniteSet(Slabs) /\ ObjNum \in Nat
    BY SlabAssumption DEF SlabAssumption
<1>2. unused(k) \subseteq Slabs
    BY DEF unused, On
<1>3. IsFiniteSet(unused(k))
    BY <1>1, <1>2, FS_Subset
<1>4. Cardinality(unused(k)) \in Nat
    BY <1>3, FS_CardinalityType
<1>5. Cardinality(unused(k)) = 0 => unused(k) = {}
    BY <1>3, FS_EmptySet
<1>6. ASSUME NEW s \in unused(k)
      PROVE  s \in Slabs /\ k.where[s] = "partial" /\ k.bm[s] = {}
    <2>1. s \in Slabs /\ k.where[s] = "partial" /\ k.sfree[s] = ObjNum
        BY DEF unused, On
    <2>2. k.bm[s] \in SUBSET Index
        BY <2>1 DEF Cache
    <2>3. Cardinality(k.bm[s]) \in 0..ObjNum /\ (Cardinality(k.bm[s]) = 0 <=> k.bm[s] = {})
        BY <2>2, BitCount
    <2>4. k.sfree[s] = ObjNum - Cardinality(k.bm[s])
        BY <2>1 DEF Sound
    <2>5. Cardinality(k.bm[s]) = 0
        BY <1>1, <2>1, <2>3, <2>4
    <2> QED
        BY <2>1, <2>3, <2>5
<1> QED
    BY <1>3, <1>4, <1>5, <1>6

\* kmem_cache_flush moves slabs without an object that is out.
LEMMA FlushStep == IInv /\ kmem_cache_flush => IInv'
<1> SUFFICES ASSUME IInv, kmem_cache_flush PROVE IInv'
    OBVIOUS
<1>0. ObjNum \in Nat \ {0}
    BY SlabAssumption DEF SlabAssumption
<1>1. /\ kmem \in Cache /\ kmem.free \in Nat /\ kmem.expanding \in BOOLEAN /\ kmem.sfree \in [Slabs -> Nat]
      /\ kmem.where \in [Slabs -> Lists] /\ kmem.bm \in [Slabs -> SUBSET Index]
      /\ Sound(kmem) /\ Held(kmem, out, stale) /\ kmem.total \in Nat /\ drift \in Nat
    BY DEF IInv, TypeOK, Cache
<1>2. UNCHANGED <<nested, refused, out, stale>> /\ leaked' \in BOOLEAN
    BY DEF kmem_cache_flush, IInv, TypeOK
<1>3. Panics'
    BY DEF kmem_cache_flush, IInv, Panics
<1>4. CASE kmem' = kmem /\ drift' = drift
    BY <1>2, <1>3, <1>4 DEF IInv, TypeOK, Sound, Held, IsSet, Reserve, On
<1>5. CASE /\ kmem' = [kmem EXCEPT !.where = [s \in Slabs |-> IF s \in unused(kmem) THEN "free" ELSE @[s]]]
           /\ drift' = drift + ObjNum * Cardinality(unused(kmem))
    <2>0. /\ Cardinality(unused(kmem)) \in Nat
          /\ Cardinality(unused(kmem)) = 0 => unused(kmem) = {}
          /\ \A s \in unused(kmem) : s \in Slabs /\ kmem.where[s] = "partial" /\ kmem.bm[s] = {}
        BY <1>1, UnusedIs
    <2>1. PICK w : w = [s \in Slabs |-> IF s \in unused(kmem) THEN "free" ELSE kmem.where[s]]
        OBVIOUS
    <2>2. kmem' = [where |-> w, bm |-> kmem.bm, sfree |-> kmem.sfree, free |-> kmem.free,
                   total |-> kmem.total, expanding |-> kmem.expanding]
        BY <1>1, <1>5, <2>1 DEF Cache
    <2>3. w \in [Slabs -> Lists]
        BY <1>1, <2>1 DEF Lists
    <2>4. kmem' \in Cache
        BY <1>1, <2>2, <2>3 DEF Cache
    <2>5. Sound(kmem')
        BY <1>0, <1>1, <2>0, <2>1, <2>2 DEF Sound
    <2>6. Held(kmem, out, stale)'
        BY <1>1, <1>2, <2>2, HeldSame DEF IsSet
    <2>7. ObjNum * Cardinality(unused(kmem)) \in Nat
          /\ (ObjNum * Cardinality(unused(kmem)) = 0 => Cardinality(unused(kmem)) = 0)
        BY <1>0, <2>0
    <2>8. drift' \in Nat /\ (drift' = 0 => drift = 0 /\ unused(kmem) = {})
        BY <1>1, <1>5, <2>0, <2>7
    <2>9. Reserve'
        <3>1. ASSUME ~refused', drift' = 0
              PROVE  On(kmem, "free")' = {} /\ kmem'.free >= ObjNum - 1 - (IF kmem'.expanding THEN nested' ELSE 0)
            <4>1. w = kmem.where
                BY <1>1, <2>1, <2>8, <3>1
            <4>2. On(kmem, "free") = {} /\ kmem.free >= ObjNum - 1 - (IF kmem.expanding THEN nested ELSE 0)
                BY <1>2, <2>8, <3>1 DEF IInv, Reserve
            <4> QED
                BY <1>2, <2>2, <4>1, <4>2 DEF On
        <3> QED
            BY <3>1 DEF Reserve
    <2> QED
        BY <1>2, <1>3, <2>4, <2>5, <2>6, <2>8, <2>9 DEF IInv, TypeOK
<1> QED
    BY <1>4, <1>5 DEF kmem_cache_flush

\* The invariant of the cache, for any number of slabs and any Nest below ObjNum,
\* callers that free twice or flush and a buddy_alloc that fails included.
THEOREM Invariance == Spec => []IInv
<1>1. ASSUME IInv, [Next]_vars
      PROVE  IInv'
    <2>1. CASE Next
        BY <1>1, <2>1, AllocStep, ExpandStep, FreeStep, FlushStep
        DEF Next, Halted, vars, IInv, TypeOK, Sound, Held, IsSet, Reserve, On, Panics
    <2>2. CASE UNCHANGED vars
        BY <1>1, <2>2 DEF vars, IInv, TypeOK, Sound, Held, IsSet, Reserve, On, Panics
    <2> QED
        BY <1>1, <2>1, <2>2
<1> QED
    BY <1>1, InitIInv, PTL DEF Spec

\* slab_alloc and slab_free (slab.c) give an object to one caller at a time, double
\* frees and flushes of others notwithstanding; two callers share an object only
\* after a third has freed it though it was no longer his, and only until they
\* have freed it too.
THEOREM ObjectsServedOnce == Spec => []OneHolder
<1>1. IInv => OneHolder
    BY DEF IInv, Held, OneHolder
<1> QED
    BY <1>1, Invariance, PTL

\* s->free counts the clear bits of a slab, which is on slabs_full exactly when
\* there are none.
THEOREM SlabsOnTheirLists == Spec => []ListsAgree
<1>1. IInv => ListsAgree
    BY DEF IInv, Sound, ListsAgree, On
<1> QED
    BY <1>1, Invariance, PTL

\* A slab that slabs_partial yields has a clear bit, and one that gets an object
\* back had it out: the panics "slab meta data error" (slab_alloc) and "meta data
\* error in slab" (slab_free) are not reached.
THEOREM NoMetaDataError ==
    Spec => [](halt \notin {"slab_meta_data_error", "meta_data_error_in_slab"})
<1>1. IInv => halt \notin {"slab_meta_data_error", "meta_data_error_in_slab"}
    BY DEF IInv, Panics
<1> QED
    BY <1>1, Invariance, PTL

\* A low mark of one slab is a reserve for every nested allocation as long as
\* buddy_alloc takes fewer mem_blocks than a slab has.
THEOREM GrowingFindsObjects == Spec => []ReserveSuffices
<1>1. IInv => ReserveSuffices
    <2> SUFFICES ASSUME IInv, kmem.expanding, ~refused, drift = 0, nested < Nest
                 PROVE  kmem.free > 0
        BY DEF ReserveSuffices
    <2>1. ObjNum \in Nat \ {0} /\ Nest \in 0..(ObjNum - 1) /\ nested \in 0..Nest /\ kmem.free \in Nat
        BY SlabAssumption DEF SlabAssumption, IInv, TypeOK, Cache
    <2>2. kmem.free >= ObjNum - 1 - nested
        BY DEF IInv, Reserve
    <2> QED
        BY <2>1, <2>2
<1> QED
    BY <1>1, Invariance, PTL
-----------------------------------------------------------------------------
\* There are finitely many objects.
LEMMA SpareFinite ==
    ASSUME NEW k
    PROVE  IsFiniteSet(Spare(k)) /\ Cardinality(Spare(k)) \in Nat
<1>1. IsFiniteSet(Slabs) /\ IsFiniteSet(Index)
    BY SlabAssumption, FS_Interval DEF SlabAssumption, Index
<1>2. IsFiniteSet(Slabs \X Index)
    BY <1>1, FS_Product
<1>3. Spare(k) \subseteq Slabs \X Index
    BY DEF Spare
<1>4. IsFiniteSet(Spare(k))
    BY <1>2, <1>3, FS_Subset
<1> QED
    BY <1>4, FS_CardinalityType

\* Without a slab on slabs_partial there is nothing to serve.
LEMMA NothingSpare ==
    ASSUME NEW k \in Cache, Sound(k), On(k, "partial") = {}
    PROVE  Cardinality(Spare(k)) = 0
<1>1. ASSUME NEW s \in Slabs, k.where[s] = "full"
      PROVE  k.bm[s] = Index
    <2>1. ObjNum \in Nat /\ k.bm[s] \in SUBSET Index
        BY SlabAssumption DEF SlabAssumption, Cache
    <2>2. k.sfree[s] = ObjNum - Cardinality(k.bm[s]) /\ k.sfree[s] = 0
        BY <1>1 DEF Sound
    <2>3. Cardinality(k.bm[s]) \in 0..ObjNum /\ (k.bm[s] # Index => Cardinality(k.bm[s]) < ObjNum)
        BY <2>1, BitCount
    <2> QED
        BY <2>1, <2>2, <2>3
<1>2. ASSUME NEW x \in Spare(k)
      PROVE  FALSE
    <2>1. x[1] \in Slabs /\ x[2] \in Index /\ k.where[x[1]] \in {"partial", "full"} /\ x[2] \notin k.bm[x[1]]
        BY DEF Spare
    <2>2. k.where[x[1]] # "partial"
        BY <2>1 DEF On
    <2> QED
        BY <1>1, <2>1, <2>2
<1> QED
    BY <1>2, FS_EmptySet

\* The end of kmem_cache_alloc takes the object it counts.
LEMMA TakeCounts ==
    ASSUME NEW k \in Cache, Sound(k), take(k), NEW d \in Nat, k.free = Cardinality(Spare(k)) + d
    PROVE  /\ kmem'.free = Cardinality(Spare(kmem')) + d
           /\ halt' = halt \/ halt' = "slab_meta_data_error" \/ d > 0
<1>0. k.free \in Nat /\ k.bm \in [Slabs -> SUBSET Index] /\ k.where \in [Slabs -> Lists]
    BY DEF Cache
<1>1. CASE kmem' = k /\ (halt' = halt \/ halt' = "slab_meta_data_error")
    BY <1>1
<1>2. ASSUME NEW s \in On(k, "partial"), k.bm[s] # Index,
             kmem' = slab_alloc(k, s, NextClear(k.bm[s]))
      PROVE  kmem'.free = Cardinality(Spare(kmem')) + d
    <2>1. s \in Slabs /\ k.where[s] = "partial"
        BY DEF On
    <2>2. PICK i \in Index : i = NextClear(k.bm[s]) /\ i \notin k.bm[s]
        BY <1>0, <1>2, <2>1, NextClearIsClear
    <2>3. PICK m : m = slab_alloc(k, s, i)
        OBVIOUS
    <2>4. m = [where |-> [k.where EXCEPT ![s] = IF k.sfree[s] = 1 THEN "full" ELSE k.where[s]],
               bm |-> [k.bm EXCEPT ![s] = k.bm[s] \cup {i}], sfree |-> [k.sfree EXCEPT ![s] = k.sfree[s] - 1],
               free |-> k.free - 1, total |-> k.total, expanding |-> k.expanding]
        BY <2>3 DEF slab_alloc, Cache
    <2>5. <<s, i>> \in Spare(k)
        BY <2>1, <2>2 DEF Spare
    <2>6. Spare(m) = Spare(k) \ {<<s, i>>}
        <3>1. ASSUME NEW q \in Slabs, NEW j \in Index
              PROVE  <<q, j>> \in Spare(m) <=> <<q, j>> \in Spare(k) /\ <<q, j>> # <<s, i>>
            BY <1>0, <2>1, <2>2, <2>4 DEF Spare
        <3>2. Spare(m) \subseteq Slabs \X Index /\ Spare(k) \subseteq Slabs \X Index
            BY DEF Spare
        <3> QED
            BY <3>1, <3>2
    <2>7. Cardinality(Spare(m)) = Cardinality(Spare(k)) - 1
        <3>1. IsFiniteSet(Spare(k))
            BY SpareFinite
        <3>2. Cardinality(Spare(k) \ {<<s, i>>}) = Cardinality(Spare(k)) - 1
            BY <2>5, <3>1, FS_RemoveElement
        <3> QED
            BY <2>6, <3>2
    <2>8. m.free = k.free - 1 /\ Cardinality(Spare(k)) \in Nat
        BY <2>4, SpareFinite
    <2>9. m.free = Cardinality(Spare(m)) + d
        BY <2>7, <2>8
    <2> QED
        BY <1>2, <2>2, <2>3, <2>9
<1>3. CASE k.free # 0 /\ On(k, "partial") = {} /\ kmem' = k
    <2>1. Cardinality(Spare(k)) = 0
        BY <1>3, NothingSpare
    <2>2. d > 0
        BY <1>3, <2>1
    <2> QED
        BY <1>3, <2>2
<1> QED
    BY <1>1, <1>2, <1>3 DEF take

\* A slab without a bit set comes to slabs_partial with all its objects.
LEMMA SpareGains ==
    ASSUME NEW k \in Cache, NEW m, NEW s \in Slabs, k.where[s] \in {"none", "free"},
           m.where = [k.where EXCEPT ![s] = "partial"], m.bm = [k.bm EXCEPT ![s] = {}]
    PROVE  Cardinality(Spare(m)) = Cardinality(Spare(k)) + ObjNum
<1>0. k.bm \in [Slabs -> SUBSET Index] /\ k.where \in [Slabs -> Lists]
    BY DEF Cache
<1>1. \A q \in Slabs : /\ m.where[q] = IF q = s THEN "partial" ELSE k.where[q]
                       /\ m.bm[q] = IF q = s THEN {} ELSE k.bm[q]
    BY <1>0
<1>2. Spare(m) = Spare(k) \cup ({s} \X Index)
    <2>1. ASSUME NEW q \in Slabs, NEW j \in Index
          PROVE  <<q, j>> \in Spare(m) <=> <<q, j>> \in Spare(k) \/ q = s
        BY <1>1 DEF Spare
    <2>2. Spare(m) \subseteq Slabs \X Index /\ Spare(k) \subseteq Slabs \X Index
        BY DEF Spare
    <2> QED
        BY <2>1, <2>2
<1>3. Spare(k) \cap ({s} \X Index) = {}
    BY DEF Spare
<1>4. ObjNum \in Nat /\ IsFiniteSet(Index) /\ Cardinality(Index) = ObjNum
    BY SlabAssumption, FS_Interval DEF SlabAssumption, Index
<1>5. IsFiniteSet({s}) /\ Cardinality({s}) = 1
    BY FS_Singleton
<1>6. IsFiniteSet({s} \X Index) /\ Cardinality({s} \X Index) = 1 * ObjNum
    BY <1>4, <1>5, FS_Product
<1>7. Cardinality(Spare(m)) = Cardinality(Spare(k)) + Cardinality({s} \X Index) - Cardinality({})
    <2>1. IsFiniteSet(Spare(k))
        BY SpareFinite
    <2> QED
        BY <1>2, <1>3, <1>6, <2>1, FS_Union
<1>8. Cardinality({}) = 0 /\ Cardinality(Spare(k)) \in Nat
    BY FS_EmptySet, SpareFinite
<1> QED
    BY <1>4, <1>6, <1>7, <1>8

\* slab_init adds the objects of the slab it counts.
LEMMA SlabInitCounts ==
    ASSUME NEW k \in Cache, NEW d \in Nat, k.free = Cardinality(Spare(k)) + d,
           NEW s \in Slabs, k.where[s] = "none",
           NEW m, m = slab_init(k, s)
    PROVE  m.free = Cardinality(Spare(m)) + d
<1>1. m = [where |-> [k.where EXCEPT ![s] = "partial"],
           bm |-> [k.bm EXCEPT ![s] = {}], sfree |-> [k.sfree EXCEPT ![s] = ObjNum],
           free |-> k.free + ObjNum, total |-> k.total + ObjNum, expanding |-> k.expanding]
    BY DEF slab_init, Cache
<1>2. m.where = [k.where EXCEPT ![s] = "partial"] /\ m.bm = [k.bm EXCEPT ![s] = {}] /\ m.free = k.free + ObjNum
    BY <1>1
<1>3. Cardinality(Spare(m)) = Cardinality(Spare(k)) + ObjNum
    BY <1>2, SpareGains
<1>4. Cardinality(Spare(k)) \in Nat /\ ObjNum \in Nat
    BY SpareFinite, SlabAssumption DEF SlabAssumption
<1> QED
    BY <1>2, <1>3, <1>4

\* kmem_cache_free gives back the object it counts.
LEMMA SlabFreeCounts ==
    ASSUME NEW k \in Cache, NEW s \in Slabs, k.where[s] \in {"partial", "full"}, NEW i \in k.bm[s],
           NEW m, m = slab_free(k, s, i)
    PROVE  Cardinality(Spare(m)) = Cardinality(Spare(k)) + 1
<1>0. k.free \in Nat /\ k.bm \in [Slabs -> SUBSET Index] /\ k.where \in [Slabs -> Lists]
    BY DEF Cache
<1>1. m = [where |-> [k.where EXCEPT ![s] = IF k.sfree[s] = 0 THEN "partial" ELSE k.where[s]],
           bm |-> [k.bm EXCEPT ![s] = k.bm[s] \ {i}], sfree |-> [k.sfree EXCEPT ![s] = k.sfree[s] + 1],
           free |-> k.free, total |-> k.total, expanding |-> k.expanding]
    BY DEF slab_free, Cache
<1>2. i \in Index /\ <<s, i>> \notin Spare(k)
    BY <1>0 DEF Spare
<1>3. Spare(m) = Spare(k) \cup {<<s, i>>}
    <2>1. ASSUME NEW q \in Slabs, NEW j \in Index
          PROVE  <<q, j>> \in Spare(m) <=> <<q, j>> \in Spare(k) \/ <<q, j>> = <<s, i>>
        BY <1>0, <1>1, <1>2 DEF Spare
    <2>2. Spare(m) \subseteq Slabs \X Index /\ Spare(k) \subseteq Slabs \X Index
        BY DEF Spare
    <2> QED
        BY <1>2, <2>1, <2>2
<1>4. IsFiniteSet(Spare(k))
    BY SpareFinite
<1>5. Cardinality(Spare(k) \cup {<<s, i>>}) = Cardinality(Spare(k)) + 1
    BY <1>2, <1>4, FS_AddElement
<1> QED
    BY <1>3, <1>5

\* A flush takes from slabs_partial the slabs whose objects it leaves counted.
LEMMA FlushCounts ==
    ASSUME NEW k \in Cache, Sound(k), NEW m,
           m.where = [s \in Slabs |-> IF s \in unused(k) THEN "free" ELSE k.where[s]], m.bm = k.bm
    PROVE  Cardinality(Spare(k)) = Cardinality(Spare(m)) + ObjNum * Cardinality(unused(k))
<1>0. /\ IsFiniteSet(unused(k)) /\ Cardinality(unused(k)) \in Nat
      /\ \A s \in unused(k) : s \in Slabs /\ k.where[s] = "partial" /\ k.bm[s] = {}
    BY UnusedIs
<1>1. Spare(k) = Spare(m) \cup (unused(k) \X Index)
    <2>1. ASSUME NEW q \in Slabs, NEW j \in Index
          PROVE  <<q, j>> \in Spare(k) <=> <<q, j>> \in Spare(m) \/ q \in unused(k)
        BY <1>0 DEF Spare
    <2>2. /\ Spare(m) \subseteq Slabs \X Index /\ Spare(k) \subseteq Slabs \X Index
          /\ unused(k) \X Index \subseteq Slabs \X Index
        BY <1>0 DEF Spare
    <2> QED
        BY <2>1, <2>2
<1>2. Spare(m) \cap (unused(k) \X Index) = {}
    BY <1>0 DEF Spare
<1>3. ObjNum \in Nat /\ IsFiniteSet(Index) /\ Cardinality(Index) = ObjNum
    BY SlabAssumption, FS_Interval DEF SlabAssumption, Index
<1>4. /\ IsFiniteSet(unused(k) \X Index)
      /\ Cardinality(unused(k) \X Index) = Cardinality(unused(k)) * ObjNum
    BY <1>0, <1>3, FS_Product
<1>5. Cardinality(Spare(k)) = Cardinality(Spare(m)) + Cardinality(unused(k) \X Index) - Cardinality({})
    <2>1. IsFiniteSet(Spare(m))
        BY SpareFinite
    <2> QED
        BY <1>1, <1>2, <1>4, <2>1, FS_Union
<1>6. Cardinality({}) = 0 /\ Cardinality(Spare(m)) \in Nat
    BY FS_EmptySet, SpareFinite
<1>7. Cardinality(unused(k)) * ObjNum = ObjNum * Cardinality(unused(k)) /\ Cardinality(unused(k)) * ObjNum \in Nat
    BY <1>0, <1>3
<1> QED
    BY <1>4, <1>5, <1>6, <1>7

\* kmem_cache_alloc with a slab from slabs_free, with a growth to come, or neither.
LEMMA AllocCounts ==
    ASSUME IInv, Counters, kmem_cache_alloc
    PROVE  /\ kmem'.free = Cardinality(Spare(kmem')) + drift
           /\ halt' = halt \/ halt' = "slab_meta_data_error" \/ drift > 0
<1>1. /\ kmem \in Cache /\ kmem.free \in Nat /\ kmem.expanding \in BOOLEAN /\ kmem.sfree \in [Slabs -> Nat]
      /\ kmem.where \in [Slabs -> Lists] /\ kmem.bm \in [Slabs -> SUBSET Index]
      /\ Sound(kmem) /\ kmem.total \in Nat /\ drift \in Nat
      /\ kmem.free = Cardinality(Spare(kmem)) + drift
    BY DEF IInv, TypeOK, Cache, Counters
<1>2. CASE needs_slab(kmem) /\ On(kmem, "free") # {}
    <2>1. PICK s \in On(kmem, "free") :
             take([kmem EXCEPT !.where[s] = "partial", !.total = @ + ObjNum, !.free = @ + kmem.sfree[s]])
        BY <1>2 DEF kmem_cache_alloc
    <2>2. s \in Slabs /\ kmem.where[s] = "free"
        BY DEF On
    <2>3. PICK k : k = [kmem EXCEPT !.where[s] = "partial", !.total = @ + ObjNum, !.free = @ + kmem.sfree[s]]
        OBVIOUS
    <2>4. k = [where |-> [kmem.where EXCEPT ![s] = "partial"], bm |-> kmem.bm, sfree |-> kmem.sfree,
               free |-> kmem.free + kmem.sfree[s], total |-> kmem.total + ObjNum,
               expanding |-> kmem.expanding]
        BY <1>1, <2>2, <2>3 DEF Cache
    <2>5. ObjNum \in Nat
        BY SlabAssumption DEF SlabAssumption
    <2>6. k \in Cache
        BY <1>1, <2>2, <2>4, <2>5 DEF Cache, Lists
    <2>7. Sound(k)
        BY <1>1, <2>2, <2>4 DEF Sound
    <2>8. kmem.bm[s] = {} /\ kmem.sfree[s] = ObjNum - Cardinality({})
        BY <1>1, <2>2 DEF Sound
    <2>9. kmem.sfree[s] = ObjNum
        BY <2>5, <2>8, FS_EmptySet
    <2>10. k.where = [kmem.where EXCEPT ![s] = "partial"] /\ k.bm = [kmem.bm EXCEPT ![s] = {}]
        BY <1>1, <2>2, <2>4, <2>8
    <2>11. Cardinality(Spare(k)) = Cardinality(Spare(kmem)) + ObjNum
        BY <1>1, <2>2, <2>10, SpareGains
    <2>12. k.free = kmem.free + ObjNum /\ Cardinality(Spare(kmem)) \in Nat
        BY <2>4, <2>9, SpareFinite
    <2>13. k.free = Cardinality(Spare(k)) + drift
        BY <1>1, <2>5, <2>11, <2>12
    <2> QED
        BY <1>1, <2>1, <2>3, <2>6, <2>7, <2>13, TakeCounts
<1>3. CASE needs_slab(kmem) /\ On(kmem, "free") = {}
    <2>1. kmem' = [kmem EXCEPT !.expanding = TRUE] /\ halt' = halt
        BY <1>3 DEF kmem_cache_alloc
    <2>2. kmem' = [where |-> kmem.where, bm |-> kmem.bm, sfree |-> kmem.sfree, free |-> kmem.free,
                   total |-> kmem.total, expanding |-> TRUE]
        BY <1>1, <2>1 DEF Cache
    <2> QED
        BY <1>1, <2>1, <2>2 DEF Spare
<1>4. CASE ~needs_slab(kmem)
    <2>1. take(kmem)
        BY <1>4 DEF kmem_cache_alloc
    <2> QED
        BY <1>1, <2>1, TakeCounts
<1> QED
    BY <1>2, <1>3, <1>4

\* The return of buddy_alloc.
LEMMA ExpandCounts ==
    ASSUME IInv, Counters, expand
    PROVE  /\ kmem'.free = Cardinality(Spare(kmem')) + drift
           /\ halt' = halt \/ halt' = "slab_meta_data_error" \/ drift > 0
<1>1. /\ kmem \in Cache /\ kmem.free \in Nat /\ kmem.expanding \in BOOLEAN /\ kmem.sfree \in [Slabs -> Nat]
      /\ kmem.where \in [Slabs -> Lists] /\ kmem.bm \in [Slabs -> SUBSET Index]
      /\ Sound(kmem) /\ kmem.total \in Nat /\ drift \in Nat
      /\ kmem.free = Cardinality(Spare(kmem)) + drift
    BY DEF IInv, TypeOK, Cache, Counters
<1>2. PICK k : k = [kmem EXCEPT !.expanding = FALSE]
    OBVIOUS
<1>3. k = [where |-> kmem.where, bm |-> kmem.bm, sfree |-> kmem.sfree, free |-> kmem.free,
           total |-> kmem.total, expanding |-> FALSE]
    BY <1>1, <1>2 DEF Cache
<1>4. k \in Cache
    BY <1>1, <1>3 DEF Cache
<1>5. Sound(k)
    BY <1>1, <1>3 DEF Sound
<1>6. k.free = Cardinality(Spare(k)) + drift
    BY <1>1, <1>3 DEF Spare
<1>7. CASE take(k)
    BY <1>1, <1>4, <1>5, <1>6, <1>7, TakeCounts
<1>8. ASSUME NEW s \in On(kmem, "none"), take(slab_init(k, s))
      PROVE  /\ kmem'.free = Cardinality(Spare(kmem')) + drift
             /\ halt' = halt \/ halt' = "slab_meta_data_error" \/ drift > 0
    <2>1. s \in Slabs /\ k.where[s] = "none"
        BY <1>3 DEF On
    <2>2. PICK m : m = slab_init(k, s)
        OBVIOUS
    <2>3. m \in Cache /\ Sound(m)
        BY <1>4, <1>5, <2>1, <2>2, SlabInitSound
    <2>4. m.free = Cardinality(Spare(m)) + drift
        BY <1>1, <1>4, <1>6, <2>1, <2>2, SlabInitCounts
    <2> QED
        BY <1>1, <1>8, <2>2, <2>3, <2>4, TakeCounts
<1> QED
    BY <1>2, <1>7, <1>8 DEF expand

\* kmem_cache_free counts the object it takes back, and the one it refuses.
LEMMA FreeCounts ==
    ASSUME IInv, Counters, NEW s \in Slabs, NEW i \in Index, NEW has \in BOOLEAN, kmem_cache_free(s, i, has)
    PROVE  Counters'
<1>1. /\ kmem \in Cache /\ kmem.free \in Nat /\ Sound(kmem) /\ drift \in Nat
      /\ kmem.where \in [Slabs -> Lists] /\ kmem.bm \in [Slabs -> SUBSET Index]
      /\ kmem.free = Cardinality(Spare(kmem)) + drift /\ Cardinality(Spare(kmem)) \in Nat
    BY SpareFinite DEF IInv, TypeOK, Cache, Counters
<1>2. halt' = "no"
    BY FreeIs DEF kmem_cache_free
<1>3. CASE i \notin kmem.bm[s]
    <2>1. drift' = drift + 1 /\ kmem' = [kmem EXCEPT !.free = @ + 1]
        BY <1>3, FreeIs
    <2>2. kmem'.where = kmem.where /\ kmem'.bm = kmem.bm /\ kmem'.free = kmem.free + 1
        BY <1>1, <2>1 DEF Cache
    <2>3. Spare(kmem') = Spare(kmem)
        BY <2>2 DEF Spare
    <2>4. kmem'.free = Cardinality(Spare(kmem')) + drift'
        BY <1>1, <2>1, <2>2, <2>3
    <2> QED
        BY <1>2, <2>4 DEF Counters
<1>4. CASE i \in kmem.bm[s]
    <2>1. PICK m : m = slab_free(kmem, s, i)
        OBVIOUS
    <2>2. drift' = drift /\ kmem' = [m EXCEPT !.free = @ + 1]
        BY <1>4, <2>1, FreeIs
    <2>3. kmem.where[s] \in {"partial", "full"}
        BY <1>1, <1>4, SetBitCounted DEF Lists
    <2>4. PICK k : k = kmem
        OBVIOUS
    <2>5. k \in Cache /\ Sound(k) /\ k.where[s] \in {"partial", "full"} /\ i \in k.bm[s] /\ m = slab_free(k, s, i)
        BY <1>1, <1>4, <2>1, <2>3, <2>4
    <2>6. Cardinality(Spare(m)) = Cardinality(Spare(k)) + 1
        BY <2>5, SlabFreeCounts
    <2>7. m \in Cache /\ m.free = k.free
        BY <2>5, SlabFreeSound
    <2>8. kmem'.where = m.where /\ kmem'.bm = m.bm /\ kmem'.free = m.free + 1
        BY <2>2, <2>7 DEF Cache
    <2>9. Spare(kmem') = Spare(m)
        BY <2>8 DEF Spare
    <2>10. kmem'.free = Cardinality(Spare(kmem')) + drift'
        BY <1>1, <2>2, <2>4, <2>6, <2>7, <2>8, <2>9
    <2> QED
        BY <1>2, <2>10 DEF Counters
<1> QED
    BY <1>3, <1>4

\* kmem_cache_flush.
LEMMA FlushStepCounts ==
    ASSUME IInv, Counters, kmem_cache_flush
    PROVE  Counters'
<1>1. /\ kmem \in Cache /\ Sound(kmem) /\ drift \in Nat /\ kmem.where \in [Slabs -> Lists]
      /\ kmem.free = Cardinality(Spare(kmem)) + drift
    BY DEF IInv, TypeOK, Cache, Counters
<1>2. halt' # "no_slab"
    BY DEF kmem_cache_flush
<1>3. CASE kmem' = kmem /\ drift' = drift
    BY <1>1, <1>2, <1>3 DEF Counters, Spare
<1>4. CASE /\ kmem' = [kmem EXCEPT !.where = [s \in Slabs |-> IF s \in unused(kmem) THEN "free" ELSE @[s]]]
           /\ drift' = drift + ObjNum * Cardinality(unused(kmem))
    <2>1. /\ kmem'.where = [s \in Slabs |-> IF s \in unused(kmem) THEN "free" ELSE kmem.where[s]]
          /\ kmem'.bm = kmem.bm /\ kmem'.free = kmem.free
        BY <1>1, <1>4 DEF Cache
    <2>2. PICK k, m : k = kmem /\ m = kmem'
        OBVIOUS
    <2>3. /\ k \in Cache /\ Sound(k) /\ m.bm = k.bm
          /\ m.where = [s \in Slabs |-> IF s \in unused(k) THEN "free" ELSE k.where[s]]
        BY <1>1, <2>1, <2>2
    <2>4. Cardinality(Spare(k)) = Cardinality(Spare(m)) + ObjNum * Cardinality(unused(k))
        BY <2>3, FlushCounts
    <2>5. Cardinality(Spare(m)) \in Nat /\ Cardinality(unused(k)) \in Nat /\ ObjNum \in Nat
        BY <2>3, SpareFinite, UnusedIs, SlabAssumption DEF SlabAssumption
    <2>6. PICK n \in Nat : n = ObjNum * Cardinality(unused(k))
        BY <2>5
    <2>7. kmem'.free = Cardinality(Spare(kmem')) + drift'
        BY <1>1, <1>4, <2>1, <2>2, <2>4, <2>5, <2>6
    <2> QED
        BY <1>2, <2>7 DEF Counters
<1> QED
    BY <1>3, <1>4 DEF kmem_cache_flush

\* kmem->free (slab.c) is the number of objects the cache can serve plus what
\* refused frees and flushes have added to it, between the nested calls of a
\* growing cache too; without these the cache never follows an empty slabs_partial.
THEOREM FreeObjectsCounted == Spec => []Counters
<1>1. Init => Counters
    <2> SUFFICES ASSUME Init PROVE Counters
        OBVIOUS
    <2>1. Empty \in Cache /\ Spare(Empty) = {} /\ Empty.free = 0
        BY DEF Empty, Cache, Lists, Spare
    <2>2. PICK s \in Slabs : kmem = slab_init(Empty, s)
        BY DEF Init
    <2>3. Empty.where[s] = "none"
        BY DEF Empty
    <2>4. Empty.free = Cardinality(Spare(Empty)) + 0
        BY <2>1, FS_EmptySet
    <2>5. kmem.free = Cardinality(Spare(kmem)) + 0
        BY <2>1, <2>2, <2>3, <2>4, SlabInitCounts
    <2> QED
        BY <2>5 DEF Init, Counters
<1>2. ASSUME IInv, IInv', Counters, [Next]_vars
      PROVE  Counters'
    <2>1. CASE kmem_cache_alloc
        <3>1. drift' = drift /\ halt = "no" /\ halt' # "slab_meta_data_error"
            BY <1>2, <2>1 DEF kmem_cache_alloc, IInv, Panics
        <3> QED
            BY <1>2, <2>1, <3>1, AllocCounts DEF Counters
    <2>2. CASE expand
        <3>1. drift' = drift /\ halt = "no" /\ halt' # "slab_meta_data_error"
            BY <1>2, <2>2 DEF expand, IInv, Panics
        <3> QED
            BY <1>2, <2>2, <3>1, ExpandCounts DEF Counters
    <2>3. ASSUME NEW s \in Slabs, NEW i \in Index, NEW has \in BOOLEAN, kmem_cache_free(s, i, has)
          PROVE  Counters'
        BY <1>2, <2>3, FreeCounts
    <2>4. CASE kmem_cache_flush
        BY <1>2, <2>4, FlushStepCounts
    <2>5. CASE UNCHANGED vars
        BY <1>2, <2>5 DEF vars, Counters
    <2> QED
        BY <1>2, <2>1, <2>2, <2>3, <2>4, <2>5 DEF Next, Halted
<1> QED
    BY <1>1, <1>2, Invariance, PTL DEF Spec
==============================================================================
