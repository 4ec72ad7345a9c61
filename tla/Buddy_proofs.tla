----------------------------- MODULE Buddy_proofs -----------------------------
(***************************************************************************)
(* Proofs about Buddy, for every region size, every set of requests and    *)
(* every thread set that satisfy SafeUse.                                  *)
(***************************************************************************)
EXTENDS Buddy, TLAPS, FiniteSetTheorems, NaturalsInduction, WellFoundedInduction

USE RegionAssumption DEF RegionAssumption

\* Block sizes are positive numbers, and an order up doubles them.
LEMMA Sizes ==
    /\ \A o \in 0..(MaxOrder + 1) : Size[o] \in Nat /\ Size[o] >= 1
    /\ \A o \in Orders : Size[o + 1] = 2 * Size[o]
    /\ NPages \in Nat
<1>1. \A o \in 0..(MaxOrder + 1) : Size[o] \in Nat /\ Size[o] >= 1
  <2>1. Size \in [0..(MaxOrder + 1) -> Nat \ {0}]
    BY SizeAssumption, Zenon DEF SizeAssumption
  <2> QED  BY <2>1
<1>2. \A o \in Orders : Size[o + 1] = 2 * Size[o]
  BY SizeAssumption DEF SizeAssumption, Orders
<1>3. Size[MaxOrder] \in Nat
  BY <1>1
<1>4. NPages \in Nat
  BY <1>3 DEF NPages
<1> QED  BY <1>1, <1>2, <1>4

\* Products of naturals are monotone: the one nonlinear fact the geometry needs.
LEMMA MulMono ==
    ASSUME NEW i \in Nat, NEW j \in Nat, NEW s \in Nat, i < j
    PROVE  i * s + s <= j * s
<1>1. PICK d \in Nat : j = i + 1 + d
  BY j - i - 1 \in Nat
<1>2. j * s = i * s + s + d * s
  BY <1>1
<1>3. d * s \in Nat
  OBVIOUS
<1> QED  BY <1>2, <1>3

\* Distinct multiples of a block size are at least a block apart.
LEMMA MultiplesApart ==
    ASSUME NEW o \in Orders, NEW p \in Nat, NEW q \in Nat,
           Aligned(p, o), Aligned(q, o), p < q
    PROVE  p + Size[o] <= q
<1>1. PICK i \in Nat : p = i * Size[o]
  BY DEF Aligned
<1>2. PICK j \in Nat : q = j * Size[o]
  BY DEF Aligned
<1>3. Size[o] \in Nat
  BY Sizes DEF Orders
<1>4. CASE j <= i
  <2>1. CASE i = j
    BY <1>1, <1>2, <2>1
  <2>2. CASE j < i
    <3>1. j * Size[o] + Size[o] <= i * Size[o]
      BY <1>3, <2>2, MulMono
    <3> QED  BY <3>1, <1>1, <1>2, <1>3
  <2> QED  BY <1>4, <2>1, <2>2
<1>5. CASE i < j
  BY <1>1, <1>2, <1>3, <1>5, MulMono
<1> QED  BY <1>4, <1>5

\* A block start of the region has the whole block inside the region.
LEMMA WholeBlock ==
    ASSUME NEW o \in Orders, NEW p \in PageIdx, Aligned(p, o)
    PROVE  p + Size[o] <= NPages
<1>1. PICK k \in 1..Size[MaxOrder] : Size[MaxOrder] = k * Size[o]
  BY SizeAssumption DEF SizeAssumption, Orders
<1>2. PICK i \in Nat : p = i * Size[o]
  BY DEF Aligned, PageIdx
<1> DEFINE m == NBlobs * k
<1>3. Size[o] \in Nat /\ Size[o] >= 1 /\ k \in Nat /\ Size[MaxOrder] \in Nat
  BY <1>1, Sizes DEF Orders
<1>4. m \in Nat /\ NPages = m * Size[o]
  BY <1>1, <1>3 DEF NPages
<1>5. i < m
  <2> SUFFICES ASSUME m <= i PROVE FALSE
    BY <1>4
  <2>1. m * Size[o] <= i * Size[o]
    <3>1. CASE m = i
      BY <3>1, <1>3
    <3>2. CASE m < i
      BY <3>2, <1>3, <1>4, MulMono
    <3> QED  BY <3>1, <3>2, <1>4
  <2> QED  BY <2>1, <1>2, <1>4, Sizes DEF PageIdx
<1> QED  BY <1>2, <1>3, <1>4, <1>5, MulMono

\* The two halves of a block are blocks of the next lower order.
LEMMA HalvesAligned ==
    ASSUME NEW o \in Orders, o >= 1, NEW b \in Nat, Aligned(b, o)
    PROVE  /\ Aligned(b, o - 1)
           /\ Aligned(b + Size[o - 1], o - 1)
           /\ get_buddy_addr(b, o - 1) = b + Size[o - 1]
           /\ Size[o] = 2 * Size[o - 1]
<1> DEFINE s == Size[o - 1]
<1>1. s \in Nat /\ s >= 1 /\ Size[o] = 2 * s /\ o - 1 \in Orders
  BY Sizes DEF Orders
<1>2. PICK k \in 0..b : b = k * (2 * s)
  BY <1>1 DEF Aligned
<1>3. b = (2 * k) * s /\ b + s = (2 * k + 1) * s
  BY <1>1, <1>2
<1>4. 2 * k <= b /\ 2 * k + 1 <= b + s
  BY <1>1, <1>2, <1>3
<1>5. get_buddy_addr(b, o - 1) = b + s
  <2>1. o - 1 + 1 = o
    BY DEF Orders
  <2> QED  BY <2>1 DEF get_buddy_addr
<1> QED  BY <1>1, <1>3, <1>4, <1>5 DEF Aligned

\* The buddy of a block lies in the region, next to it, and the lower of the
\* two starts a block of the next order.
LEMMA BuddyFits ==
    ASSUME NEW o \in Orders, o < MaxOrder, NEW b \in PageIdx, Aligned(b, o)
    PROVE  LET c == get_buddy_addr(b, o) IN
           /\ c \in PageIdx
           /\ \/ c = b + Size[o] /\ Aligned(b, o + 1)
              \/ c = b - Size[o] /\ Aligned(c, o + 1)
<1> DEFINE s == Size[o]  c == get_buddy_addr(b, o)
<1>1. s \in Nat /\ s >= 1 /\ Size[o + 1] = 2 * s /\ o + 1 \in Orders /\ b \in Nat
  BY Sizes DEF Orders, PageIdx
<1>2. CASE Aligned(b, o + 1)
  <2>1. c = b + s
    BY <1>2 DEF get_buddy_addr
  <2>2. b + 2 * s <= NPages
    BY <1>1, <1>2, WholeBlock
  <2> HIDE DEF s
  <2>3. c \in PageIdx
    BY <2>1, <2>2, <1>1, Sizes DEF PageIdx
  <2> QED  BY <1>2, <2>1, <2>3 DEF s
<1>3. CASE ~Aligned(b, o + 1)
  <2>1. c = b - s
    BY <1>3 DEF get_buddy_addr
  <2>2. PICK k \in 0..b : b = k * s
    BY DEF Aligned
  <2>3. PICK j \in Nat : k = 2 * j \/ k = 2 * j + 1
    <3>1. /\ k \div 2 \in Nat /\ (k = 2 * (k \div 2) \/ k = 2 * (k \div 2) + 1)
      BY <1>1
    <3> QED  BY <3>1
  <2>4. k # 2 * j
    <3> SUFFICES ASSUME k = 2 * j PROVE FALSE
      OBVIOUS
    <3>1. b = j * (2 * s) /\ j \in 0..b
      BY <1>1, <2>2
    <3> QED  BY <3>1, <1>1, <1>3 DEF Aligned
  <2>5. c = j * (2 * s)
    <3>1. b = (2 * j + 1) * s
      BY <2>2, <2>3, <2>4
    <3>2. (2 * j + 1) * s = j * (2 * s) + s
      BY <1>1
    <3>3. j * (2 * s) \in Nat
      BY <1>1
    <3> QED  BY <1>1, <2>1, <3>1, <3>2, <3>3
  <2>6. j * (2 * s) \in Nat /\ j <= j * (2 * s)
    <3>1. j * (2 * s) = j + j * (2 * s - 1)
      BY <1>1
    <3>2. j * (2 * s - 1) \in Nat
      BY <1>1
    <3> QED  BY <3>1, <3>2
  <2> HIDE DEF s
  <2>7. c \in PageIdx /\ Aligned(c, o + 1)
    BY <1>1, <2>1, <2>5, <2>6, Sizes DEF PageIdx, Aligned
  <2> QED  BY <2>1, <2>7 DEF s
<1> QED  BY <1>2, <1>3
-----------------------------------------------------------------------------
\* The initial lists: the blobs, and nothing else.
LEMMA InitIInv == Init => IInv
<1> SUFFICES ASSUME Init PROVE IInv
  OBVIOUS
<1> USE DEF Init
<1>1. TypeOK
  <2>1. NPages \in Int /\ 0 \in Orders
    BY Sizes DEF Orders
  <2>2. order \in [PageIdx -> 0..(MaxOrder + 1)]
    OBVIOUS
  <2>3. private \subseteq PageIdx
    OBVIOUS
  <2>4. freeList \in [0..(MaxOrder + 1) -> SUBSET PageIdx]
    OBVIOUS
  <2>5. staged \in [Threads -> PageIdx \cup {None}]
    OBVIOUS
  <2> QED  BY <2>1, <2>2, <2>3, <2>4, <2>5 DEF TypeOK, Phases
<1>2. Descriptors
  <2>1. \A p \in PageIdx : ~IsStaged(p)
    BY NoneAssumption DEF IsStaged, NoneAssumption
  <2>2. \A o \in 0..(MaxOrder + 1) : \A b \in freeList[o] :
           o = MaxOrder /\ b \in PageIdx /\ Aligned(b, MaxOrder)
    OBVIOUS
  <2>3. \A p \in PageIdx : p \in private <=> Aligned(p, MaxOrder)
    OBVIOUS
  <2>4. \A p \in PageIdx : Aligned(p, MaxOrder) =>
           order[p] = MaxOrder /\ p \in freeList[MaxOrder]
    OBVIOUS
  <2>5. held = {} /\ private \subseteq PageIdx
    OBVIOUS
  <2> HIDE DEF Init
  <2> QED  BY <2>1, <2>2, <2>3, <2>4, <2>5 DEF Descriptors
<1>3. \A p \in PageIdx, o \in 0..(MaxOrder + 1) :
        IsBlock(p, o) => o = MaxOrder /\ Aligned(p, MaxOrder)
  BY NoneAssumption DEF IsBlock, IsStaged, IsOuter, NoneAssumption
<1>4. Placed
  BY <1>3, WholeBlock DEF Placed, Fits, Orders
<1>5. Separate
  <2> SUFFICES ASSUME NEW p \in PageIdx, NEW q \in PageIdx,
                      NEW o \in Orders, NEW r \in Orders,
                      IsBlock(p, o), IsBlock(q, r), p # q
               PROVE  p + Size[o] <= q \/ q + Size[r] <= p
    BY DEF Separate
  <2>1. /\ o = MaxOrder /\ r = MaxOrder
        /\ Aligned(p, MaxOrder) /\ Aligned(q, MaxOrder)
    BY <1>3 DEF Orders
  <2>2. p \in Nat /\ q \in Nat /\ MaxOrder \in Orders
    BY DEF PageIdx, Orders
  <2>3. p < q \/ q < p
    BY <2>2
  <2> QED  BY <2>1, <2>2, <2>3, MultiplesApart
<1>6. Control
  BY NoneAssumption DEF Control, NoneAssumption
<1> QED  BY <1>1, <1>2, <1>4, <1>5, <1>6 DEF IInv, NeverBroken

\* A step that leaves the lists, the page descriptors and the owners alone
\* keeps everything the invariant says about them.
LEMMA SameBlocks ==
    ASSUME IInv, UNCHANGED <<order, private, freeList, held, staged, outer>>
    PROVE  Descriptors' /\ Placed' /\ Separate'
<1>1. \A p, o : IsBlock(p, o)' <=> IsBlock(p, o)
  BY DEF IsBlock, IsStaged, IsOuter
<1>2. Descriptors'
  BY DEF IInv, Descriptors, IsStaged, IsOuter
<1>3. Placed'
  BY <1>1 DEF IInv, Placed
<1>4. Separate'
  BY <1>1 DEF IInv, Separate
<1> QED  BY <1>2, <1>3, <1>4

\* size2order finds an order for every size a caller asks for.
LEMMA OrderOfRequest ==
    ASSUME NEW n \in Requests
    PROVE  size2order(n) \in Orders
  BY RequestAssumption DEF RequestAssumption, size2order

\* buddy_alloc takes the lock and notes the order it wants.
LEMMA AllocPreserves ==
    ASSUME SafeUse, IInv, NEW t \in Threads, NEW n \in Requests, buddy_alloc(t, n)
    PROVE  IInv'
<1> USE DEF buddy_alloc, lists, owners
<1>1. Descriptors' /\ Placed' /\ Separate'
  BY SameBlocks
<1>2. want' \in Orders
  BY OrderOfRequest
<1>3. TypeOK'
  BY <1>2, NoneAssumption DEF IInv, TypeOK, Phases, NoneAssumption
<1>4. Control'
  <2>1. \A u \in Threads : staged[u] = None
    BY DEF SafeUse
  <2>2. "grow" \in MetaOutcomes => SlabOrder <= want'
    BY DEF SafeUse
  <2> QED  BY <2>1, <2>2 DEF IInv, Control
<1> QED  BY <1>1, <1>3, <1>4 DEF IInv, NeverBroken

\* An empty list only changes where buddy_alloc_nolock goes on.
LEMMA MissPreserves ==
    ASSUME SafeUse, IInv, Miss
    PROVE  IInv'
<1> USE DEF Miss, return, lists, owners
<1>1. Descriptors' /\ Placed' /\ Separate'
  BY SameBlocks
<1>2. TypeOK'
  BY NoneAssumption DEF IInv, TypeOK, Phases, Orders, NoneAssumption
<1>3. Control'
  BY DEF IInv, Control, TypeOK, Orders
<1> QED  BY <1>1, <1>2, <1>3 DEF IInv, NeverBroken

\* While a buddy_alloc call runs, no block is staged by buddy_free.
LEMMA NothingStaged ==
    ASSUME IInv, phase # "idle"
    PROVE  lock # None /\ \A p \in PageIdx : ~IsStaged(p)
  BY NoneAssumption DEF IInv, TypeOK, Control, IsStaged, NoneAssumption

\* What typing says about the parts most steps touch.
LEMMA Types ==
    ASSUME IInv
    PROVE  /\ order \in [PageIdx -> 0..(MaxOrder + 1)] /\ private \subseteq PageIdx
           /\ freeList \in [0..(MaxOrder + 1) -> SUBSET PageIdx]
           /\ held \subseteq PageIdx \X Orders
           /\ want \in Orders /\ level \in Orders
           /\ want \in 0..(MaxOrder + 1) /\ level \in 0..(MaxOrder + 1)
<1>1. TypeOK
  BY DEF IInv
<1>2. want \in Orders /\ level \in Orders
  BY <1>1 DEF TypeOK
<1>3. want \in 0..(MaxOrder + 1) /\ level \in 0..(MaxOrder + 1)
  BY <1>2 DEF Orders
<1> QED  BY <1>1, <1>2, <1>3, Zenon DEF TypeOK

\* The block of a suspended split is above every order the nested call merges.
LEMMA OuterFacts ==
    ASSUME IInv, outer # None
    PROVE  /\ outer.block \in PageIdx /\ outer.level \in Orders /\ outer.want \in Orders
           /\ want < outer.level /\ order[outer.block] = outer.level
           /\ outer.block \in private /\ outer.block \notin freeList[outer.level]
<1>1. outer \in Frames /\ want \in Orders
  BY DEF IInv, TypeOK
<1>2. outer.block \in PageIdx /\ outer.level \in Orders /\ outer.want \in Orders
  BY <1>1 DEF Frames
<1>3. /\ want = SlabOrder /\ outer.want < outer.level /\ SlabOrder <= outer.want
      /\ order[outer.block] = outer.level /\ outer.block \in private
      /\ outer.block \notin freeList[outer.level]
  BY DEF IInv, Control
<1>4. want < outer.level
  BY <1>1, <1>2, <1>3 DEF Orders
<1> QED  BY <1>2, <1>3, <1>4

\* buddy_alloc_inner moves a block from its list to the caller, or to the
\* slab cache of a nested call.
LEMMA InnerPreserves ==
    ASSUME SafeUse, IInv, buddy_alloc_inner
    PROVE  IInv'
<1> USE Types
<1>1. PICK b \in freeList[want] :
        IF order[b] # want THEN panic("order broken") ELSE
        /\ private' = private \ {b}
        /\ freeList' = [freeList EXCEPT ![want] = @ \ {b}]
        /\ freePages' = freePages - Size[want]
        /\ held' = held \cup {<<b, want>>}
        /\ IF outer = None
             THEN return /\ UNCHANGED slabs
             ELSE /\ slabs' = slabs \cup {<<b, want>>}
                  /\ phase' = "resume"
                  /\ UNCHANGED <<lock, want, level>>
        /\ UNCHANGED <<order, staged, outer, halt>>
  BY DEF buddy_alloc_inner
<1>2. phase # "idle"
  BY DEF buddy_alloc_inner
<1>3. b \in PageIdx
  OBVIOUS
<1>4. order[b] = want /\ b \in private
  BY <1>3 DEF IInv, Descriptors
<1>5. lock # None /\ \A p \in PageIdx : ~IsStaged(p)
  BY <1>2, NothingStaged
<1>6. /\ private' = private \ {b}
      /\ freeList' = [freeList EXCEPT ![want] = @ \ {b}]
      /\ held' = held \cup {<<b, want>>}
      /\ UNCHANGED <<order, staged, outer, halt>>
      /\ want' \in Orders /\ level' \in Orders
  BY <1>1, <1>4 DEF return, Orders
<1>7. TypeOK'
  <2>1. private' \subseteq PageIdx /\ held' \subseteq PageIdx \X Orders
    BY <1>6, <1>3
  <2>2. freeList' \in [0..(MaxOrder + 1) -> SUBSET PageIdx]
    BY <1>6
  <2>3. freePages' \in Int
    <3>1. freePages \in Int /\ Size[want] \in Nat
      BY Sizes DEF IInv, TypeOK
    <3> QED  BY <1>1, <1>4, <3>1
  <2>4. slabs' \subseteq held'
    BY <1>1, <1>4 DEF IInv, TypeOK
  <2>5. /\ lock' \in Threads \cup {None}
        /\ phase' \in Phases /\ (lock' = None <=> phase' = "idle")
    BY <1>1, <1>4, <1>5 DEF IInv, TypeOK, Phases, return
  <2> QED  BY <1>6, <2>1, <2>2, <2>3, <2>4, <2>5 DEF IInv, TypeOK
<1>8. \A p \in PageIdx, o \in 0..(MaxOrder + 1) : IsBlock(p, o)' <=> IsBlock(p, o)
  BY <1>3, <1>6 DEF IsBlock, IsStaged, IsOuter
<1>9. Descriptors'
  <2>1. \A o \in 0..(MaxOrder + 1) : \A c \in freeList'[o] : c # b /\ c \in freeList[o]
    BY <1>4, <1>6 DEF IInv, Descriptors
  <2>2. \A o \in 0..(MaxOrder + 1) : \A c \in freeList'[o] :
          order'[c] = o /\ c \in private'
    BY <1>6, <2>1 DEF IInv, Descriptors
  <2>3. \A p \in private' :
          p \in freeList'[order'[p]] \/ IsStaged(p)' \/ IsOuter(p, order[p])'
    BY <1>6 DEF IInv, Descriptors, IsStaged, IsOuter
  <2>4. \A p \in PageIdx, o \in Orders :
          <<p, o>> \in held' => order'[p] = o /\ p \notin private'
    BY <1>4, <1>6 DEF IInv, Descriptors
  <2>5. \A p \in PageIdx : ~IsStaged(p)'
    BY <1>5, <1>6 DEF IsStaged
  <2> QED  BY <2>2, <2>3, <2>4, <2>5 DEF Descriptors
<1>10. Placed' /\ Separate'
  BY <1>8 DEF IInv, Placed, Separate, Orders
<1>11. Control'
  <2>1. CASE outer = None
    BY <1>1, <1>4, <1>6, <2>1 DEF return, Control
  <2>2. CASE outer # None
    BY <1>1, <1>4, <1>6, <2>2, OuterFacts DEF IInv, Control
  <2> QED  BY <2>1, <2>2
<1> QED  BY <1>6, <1>7, <1>9, <1>10, <1>11 DEF IInv, NeverBroken

\* merge_blocks joins two listed blocks: the buddy it finds through the page
\* descriptor is on the list, because nothing else of that order is marked.
LEMMA MergeEffect ==
    ASSUME IInv, phase = "merge", level < want,
           NEW b \in freeList[level], Mergeable(b, level), Merge(b),
           UNCHANGED <<owners, lock, want, outer, halt>>
    PROVE  \E lo \in PageIdx, hi \in PageIdx :
             /\ hi = lo + Size[level] /\ lo # hi /\ Aligned(lo, level + 1)
             /\ lo \in freeList[level] /\ hi \in freeList[level]
             /\ private' = private \ {hi}
             /\ order' = [order EXCEPT ![hi] = MaxOrder + 1, ![lo] = level + 1]
             /\ freeList' = [freeList EXCEPT ![level] = @ \ {lo, hi},
                                             ![level + 1] = @ \cup {lo}]
             /\ UNCHANGED <<freePages, phase, level, held, slabs, staged, lock, want, outer, halt>>
<1> USE Types
<1>1. /\ b \in PageIdx /\ level \in Nat
      /\ level + 1 \in Orders /\ level + 1 \in 0..(MaxOrder + 1)
  BY DEF Orders
<1>2. order[b] = level /\ b \in private
  BY <1>1 DEF IInv, Descriptors
<1>3. lock # None /\ \A p \in PageIdx : ~IsStaged(p)
  BY NothingStaged
<1>4. IsBlock(b, level) /\ Fits(b, level)
  BY <1>1 DEF IInv, IsBlock, Placed
<1>5. PICK c \in PageIdx :
        /\ c = get_buddy_addr(b, level)
        /\ \/ c = b + Size[level] /\ Aligned(b, level + 1)
           \/ c = b - Size[level] /\ Aligned(c, level + 1)
  BY <1>1, <1>4, BuddyFits DEF Fits, Orders
<1>6. c \in private /\ order[c] = level
  BY <1>2, <1>5 DEF Mergeable
<1>7. c \in freeList[level]
  <2>1. ~IsOuter(c, level)
    <3>1. CASE outer = None
      BY <3>1 DEF IsOuter
    <3>2. CASE outer # None
      <4>1. want < outer.level /\ outer.level \in Orders
        BY <3>2, OuterFacts
      <4> QED  BY <4>1 DEF IsOuter, Orders
    <3> QED  BY <3>1, <3>2
  <2> QED  BY <1>3, <1>5, <1>6, <2>1 DEF IInv, Descriptors
<1>8. /\ Size[level] \in Nat /\ Size[level] >= 1 /\ Size[level + 1] = 2 * Size[level]
      /\ NPages \in Nat /\ b \in Nat /\ c \in Nat
  BY <1>1, <1>5, Sizes DEF PageIdx, Orders
<1>9. PICK lo \in PageIdx, hi \in PageIdx :
        /\ lo = (IF b < c THEN b ELSE c) /\ hi = (IF b < c THEN c ELSE b)
        /\ hi = lo + Size[level] /\ lo # hi
        /\ Aligned(lo, level + 1) /\ {lo, hi} = {b, c}
  <2>1. CASE c = b + Size[level] /\ Aligned(b, level + 1)
    <3>1. b < c /\ b # c
      BY <1>8, <2>1
    <3> WITNESS b \in PageIdx, c \in PageIdx
    <3> QED  BY <2>1, <3>1
  <2>2. CASE c = b - Size[level] /\ Aligned(c, level + 1)
    <3>1. ~(b < c) /\ b # c /\ b = c + Size[level]
      <4> HIDE Types
      <4>1. c = b - Size[level]
        BY <2>2
      <4> QED  BY <1>8, <4>1
    <3> WITNESS c \in PageIdx, b \in PageIdx
    <3> QED  BY <2>2, <3>1
  <2> QED  BY <1>5, <2>1, <2>2
<1>10. /\ private' = private \ {hi}
       /\ order' = [order EXCEPT ![hi] = MaxOrder + 1, ![lo] = level + 1]
       /\ freeList' = [freeList EXCEPT ![level] = @ \ {lo, hi},
                                       ![level + 1] = @ \cup {lo}]
       /\ UNCHANGED <<freePages, phase, level, held, slabs, staged, lock, want, outer, halt>>
  BY <1>2, <1>5, <1>9 DEF Merge, owners
<1>11. lo \in freeList[level] /\ hi \in freeList[level]
  BY <1>7, <1>9
<1> QED  BY <1>9, <1>10, <1>11

\* Joining two blocks keeps the inductive invariant.
LEMMA MergePreserves ==
    ASSUME SafeUse, IInv, phase = "merge", level < want,
           NEW b \in freeList[level], Mergeable(b, level), Merge(b),
           UNCHANGED <<owners, lock, want, outer, halt>>
    PROVE  IInv'
<1> USE Types
<1>1. /\ level \in Nat /\ level + 1 \in Orders /\ level + 1 \in 0..(MaxOrder + 1)
  BY DEF Orders
<1>2. lock # None /\ \A p \in PageIdx : ~IsStaged(p)
  BY NothingStaged
<1>3. PICK lo \in PageIdx, hi \in PageIdx :
        /\ hi = lo + Size[level] /\ lo # hi /\ Aligned(lo, level + 1)
        /\ lo \in freeList[level] /\ hi \in freeList[level]
        /\ private' = private \ {hi}
        /\ order' = [order EXCEPT ![hi] = MaxOrder + 1, ![lo] = level + 1]
        /\ freeList' = [freeList EXCEPT ![level] = @ \ {lo, hi},
                                        ![level + 1] = @ \cup {lo}]
        /\ UNCHANGED <<freePages, phase, level, held, slabs, staged, lock, want, outer, halt>>
  BY MergeEffect
<1>4. /\ Size[level] \in Nat /\ Size[level] >= 1 /\ Size[level + 1] = 2 * Size[level]
      /\ NPages \in Nat
  BY <1>1, Sizes DEF PageIdx, Orders
<1>5. /\ private' = private \ {hi}
      /\ order' = [order EXCEPT ![hi] = MaxOrder + 1, ![lo] = level + 1]
      /\ freeList' = [freeList EXCEPT ![level] = @ \ {lo, hi},
                                      ![level + 1] = @ \cup {lo}]
      /\ UNCHANGED <<freePages, phase, level, held, slabs, staged, lock, want, outer, halt>>
  BY <1>3
<1>6. /\ lo \in freeList[level] /\ hi \in freeList[level]
      /\ order[lo] = level /\ order[hi] = level /\ lo \in private /\ hi \in private
      /\ IsBlock(lo, level) /\ IsBlock(hi, level)
  BY <1>3 DEF IsBlock, IInv, Descriptors
<1>7. /\ level # level + 1
      /\ freeList'[level] = freeList[level] \ {lo, hi}
      /\ freeList'[level + 1] = freeList[level + 1] \cup {lo}
      /\ \A o \in 0..(MaxOrder + 1) :
            o # level /\ o # level + 1 => freeList'[o] = freeList[o]
      /\ order'[lo] = level + 1 /\ order'[hi] = MaxOrder + 1
      /\ \A p \in PageIdx : p # lo /\ p # hi => order'[p] = order[p]
  <2>1. level # level + 1
    BY <1>1
  <2>2. /\ order'[lo] = level + 1 /\ order'[hi] = MaxOrder + 1
        /\ \A p \in PageIdx : p # lo /\ p # hi => order'[p] = order[p]
    BY <1>3, <1>5
  <2>3. /\ freeList'[level] = freeList[level] \ {lo, hi}
        /\ freeList'[level + 1] = freeList[level + 1] \cup {lo}
    BY <1>1, <1>5, <2>1
  <2>4. \A o \in 0..(MaxOrder + 1) :
             o # level /\ o # level + 1 => freeList'[o] = freeList[o]
    BY <1>5
  <2> QED  BY <2>1, <2>2, <2>3, <2>4
<1>8. TypeOK'
  <2>1. order' \in [PageIdx -> 0..(MaxOrder + 1)]
    BY <1>1, <1>3, <1>5
  <2>2. freeList' \in [0..(MaxOrder + 1) -> SUBSET PageIdx]
    BY <1>1, <1>5
  <2>3. private' \subseteq PageIdx
    BY <1>5
  <2> QED  BY <1>5, <2>1, <2>2, <2>3 DEF IInv, TypeOK
<1>9. \A p \in PageIdx, o \in 0..(MaxOrder + 1) :
         p # lo /\ p # hi => (IsBlock(p, o)' <=> IsBlock(p, o))
  <2> SUFFICES ASSUME NEW p \in PageIdx, NEW o \in 0..(MaxOrder + 1), p # lo, p # hi
               PROVE  IsBlock(p, o)' <=> IsBlock(p, o)
    OBVIOUS
  <2>1. p \in freeList'[o] <=> p \in freeList[o]
    BY <1>7
  <2>2. IsOuter(p, o)' <=> IsOuter(p, o)
    BY <1>5 DEF IsOuter
  <2>3. ~IsStaged(p) /\ ~IsStaged(p)'
    BY <1>2, <1>5 DEF IsStaged
  <2> QED  BY <1>5, <2>1, <2>2, <2>3 DEF IsBlock
\* No other block starts at either half.
<1>10. \A o \in 0..(MaxOrder + 1) : \A p \in {lo, hi} :
         (p \in freeList[o] => o = level) /\ ~IsOuter(p, o) /\ <<p, o>> \notin held
  <2>1. \A o \in 0..(MaxOrder + 1) : \A p \in {lo, hi} : p \in freeList[o] => o = level
    BY <1>3, <1>6 DEF IInv, Descriptors
  <2>2. \A o \in 0..(MaxOrder + 1) : \A p \in {lo, hi} : <<p, o>> \notin held
    <3>1. \A o \in Orders : \A p \in {lo, hi} : <<p, o>> \notin held
      BY <1>3, <1>6 DEF IInv, Descriptors
    <3> QED  BY <3>1
  <2>3. \A o \in 0..(MaxOrder + 1) : \A p \in {lo, hi} : ~IsOuter(p, o)
    <3>1. CASE outer = None
      BY <3>1 DEF IsOuter
    <3>2. CASE outer # None
      <4>1. want < outer.level /\ outer.level \in Orders /\ order[outer.block] = outer.level
        BY <3>2, OuterFacts
      <4> QED  BY <4>1, <1>6 DEF IsOuter, Orders
    <3> QED  BY <3>1, <3>2
  <2> QED  BY <2>1, <2>2, <2>3
<1>11. \A o \in 0..(MaxOrder + 1) :
         ~IsBlock(hi, o)' /\ (IsBlock(lo, o)' => o = level + 1)
  <2> TAKE o \in 0..(MaxOrder + 1)
  <2>1. hi \notin freeList'[o] /\ (lo \in freeList'[o] => o = level + 1)
    BY <1>4, <1>3, <1>7, <1>10
  <2>2. ~IsOuter(hi, o)' /\ ~IsOuter(lo, o)'
    BY <1>5, <1>10 DEF IsOuter
  <2>3. ~IsStaged(lo)' /\ ~IsStaged(hi)'
    BY <1>2, <1>3, <1>5 DEF IsStaged
  <2>4. <<lo, o>> \notin held' /\ <<hi, o>> \notin held'
    BY <1>5, <1>10
  <2> QED  BY <2>1, <2>2, <2>3, <2>4 DEF IsBlock
<1>12. Descriptors'
  <2>1. \A o \in 0..(MaxOrder + 1) : \A p \in freeList'[o] : order'[p] = o /\ p \in private'
    <3> TAKE o \in 0..(MaxOrder + 1)
    <3> TAKE p \in freeList'[o]
    <3>1. CASE p = lo
      BY <3>1, <1>4, <1>3, <1>5, <1>6, <1>7, <1>10
    <3>2. CASE p = hi
      BY <3>2, <1>4, <1>3, <1>7, <1>10
    <3>3. CASE p # lo /\ p # hi
      <4>1. p \in freeList[o]
        BY <3>3, <1>7
      <4>2. order[p] = o /\ p \in private /\ p \in PageIdx
        BY <4>1 DEF IInv, Descriptors
      <4> QED  BY <3>3, <4>2, <1>5, <1>7
    <3> QED  BY <3>1, <3>2, <3>3
  <2>2. \A p \in private' : p \in freeList'[order'[p]] \/ IsOuter(p, order[p])'
    <3> TAKE p \in private'
    <3>1. p \in private /\ p # hi /\ p \in PageIdx
      BY <1>5
    <3>2. CASE p = lo
      <4>1. order'[lo] = level + 1 /\ lo \in freeList'[level + 1]
        BY <1>7
      <4> QED  BY <3>2, <4>1
    <3>3. CASE p # lo
      <4>1. order'[p] = order[p] /\ order[p] \in 0..(MaxOrder + 1)
        <5>1. order'[p] = order[p]
          BY <3>1, <3>3, <1>7
        <5> QED  BY <3>1, <5>1
      <4>2. p \in freeList[order[p]] \/ IsOuter(p, order[p])
        BY <3>1, <1>2 DEF IInv, Descriptors
      <4>3. IsOuter(p, order[p])' <=> IsOuter(p, order[p])
        BY <4>1, <1>5 DEF IsOuter
      <4> QED  BY <3>1, <3>3, <4>1, <4>2, <4>3, <1>7
    <3> QED  BY <3>2, <3>3
  <2>3. \A p \in PageIdx, o \in Orders :
          <<p, o>> \in held' => order'[p] = o /\ p \notin private'
    <3> TAKE p \in PageIdx, o \in Orders
    <3> HAVE <<p, o>> \in held'
    <3>1. p # lo /\ p # hi
      <4>1. o \in 0..(MaxOrder + 1) /\ <<p, o>> \in held
        BY <1>5 DEF Orders
      <4> QED  BY <4>1, <1>10
    <3>2. order[p] = o /\ p \notin private
      BY <1>5 DEF IInv, Descriptors
    <3> QED  BY <3>1, <3>2, <1>5, <1>7
  <2>4. \A p \in PageIdx : ~IsStaged(p)'
    BY <1>2, <1>5 DEF IsStaged
  <2> QED  BY <2>1, <2>2, <2>3, <2>4 DEF Descriptors
<1>13. Fits(lo, level + 1)
  <2>1. lo + Size[level + 1] <= NPages
    BY <1>1, <1>3, WholeBlock
  <2> QED  BY <1>1, <1>3, <2>1 DEF Fits
<1>14. Placed'
  <2> SUFFICES ASSUME NEW p \in PageIdx, NEW o \in 0..(MaxOrder + 1), IsBlock(p, o)'
               PROVE  Fits(p, o)
    BY DEF Placed
  <2>1. CASE p = lo \/ p = hi
    BY <2>1, <1>11, <1>13
  <2>2. CASE p # lo /\ p # hi
    BY <2>2, <1>9 DEF IInv, Placed
  <2> QED  BY <2>1, <2>2
<1>15. Separate'
  <2> SUFFICES ASSUME NEW p \in PageIdx, NEW q \in PageIdx,
                      NEW o \in Orders, NEW r \in Orders,
                      IsBlock(p, o)', IsBlock(q, r)', p # q
               PROVE  p + Size[o] <= q \/ q + Size[r] <= p
    BY DEF Separate
  <2>1. p # hi /\ q # hi /\ (p = lo => o = level + 1) /\ (q = lo => r = level + 1)
    BY <1>11 DEF Orders
  <2>2. \A x \in PageIdx, y \in Orders : IsBlock(x, y) /\ x # lo /\ x # hi =>
          x + Size[y] <= lo \/ lo + Size[level + 1] <= x
    <3> TAKE x \in PageIdx, y \in Orders
    <3> HAVE IsBlock(x, y) /\ x # lo /\ x # hi
    <3>1. /\ x + Size[y] <= lo \/ lo + Size[level] <= x
          /\ x + Size[y] <= hi \/ hi + Size[level] <= x
      BY <1>3, <1>6 DEF IInv, Separate
    <3>2. Size[y] \in Nat /\ Size[y] >= 1
      BY Sizes DEF Orders
    <3>3. x \in Nat /\ lo \in Nat
      BY <1>3 DEF PageIdx
    <3> HIDE Types
    <3> QED  BY <3>1, <3>2, <3>3, <1>4, <1>3
  <2>3. o \in 0..(MaxOrder + 1) /\ r \in 0..(MaxOrder + 1)
    BY DEF Orders
  <2>4. CASE p = lo
    BY <1>9, <2>1, <2>2, <2>3, <2>4
  <2>5. CASE q = lo
    BY <1>9, <2>1, <2>2, <2>3, <2>5
  <2>6. CASE p # lo /\ q # lo
    <3>1. IsBlock(p, o) /\ IsBlock(q, r)
      BY <1>9, <2>1, <2>3, <2>6
    <3> QED  BY <3>1 DEF IInv, Separate
  <2> QED  BY <2>4, <2>5, <2>6
<1>16. Control'
  <2>1. CASE outer = None
    BY <2>1, <1>5, <1>1 DEF IInv, Control
  <2>2. CASE outer # None
    <3>1. /\ outer.block \in PageIdx /\ outer.level \in 0..(MaxOrder + 1)
          /\ outer.block \in private /\ outer.block \notin freeList[outer.level]
      BY <2>2, OuterFacts DEF Orders
    <3>2. outer.block # lo /\ outer.block # hi
      BY <2>2, <3>1, <1>10 DEF IsOuter
    <3>3. /\ order'[outer.block] = order[outer.block] /\ outer.block \in private'
          /\ outer.block \notin freeList'[outer.level]
      BY <3>1, <3>2, <1>5, <1>7
    <3> QED  BY <3>3, <1>5 DEF IInv, Control
  <2> QED  BY <2>1, <2>2
<1> QED  BY <1>5, <1>8, <1>12, <1>14, <1>15, <1>16 DEF IInv, NeverBroken

\* Halving a block that has just left its list keeps the blocks apart, whether
\* split_blocks had it all along or resumes with the block of its frame.
LEMMA HalvePreserves ==
    ASSUME IInv, phase # "idle", NEW b \in PageIdx, NEW o \in Orders, o >= 1,
           IsBlock(b, o), order[b] = o, b \in private,
           Halve(b, o), UNCHANGED <<held, staged>>,
           \/ outer' = outer /\ b \in freeList[o]
           \/ outer # None /\ outer' = None /\ b = outer.block /\ o = outer.level
    PROVE  /\ Descriptors' /\ Placed' /\ Separate'
           /\ order' \in [PageIdx -> 0..(MaxOrder + 1)] /\ private' \subseteq PageIdx
           /\ freeList' \in [0..(MaxOrder + 1) -> SUBSET PageIdx]
           /\ level' \in Orders
           /\ outer' # None =>
                /\ order'[outer.block] = outer.level /\ outer.block \in private'
                /\ outer.block \notin freeList'[outer.level]
<1> USE Types
<1>1. /\ o - 1 \in Orders /\ o - 1 \in 0..(MaxOrder + 1) /\ o \in 0..(MaxOrder + 1)
      /\ o # o - 1 /\ b \in Nat
  BY DEF Orders, PageIdx
<1>2. Fits(b, o)
  BY <1>1 DEF IInv, Placed
<1>3. PICK c : c = b + Size[o - 1]
  OBVIOUS
<1>4. /\ Aligned(b, o - 1) /\ Aligned(c, o - 1) /\ get_buddy_addr(b, o - 1) = c
      /\ Size[o] = 2 * Size[o - 1] /\ Size[o - 1] \in Nat /\ Size[o - 1] >= 1
      /\ NPages \in Nat
  BY <1>1, <1>2, <1>3, HalvesAligned, Sizes DEF Fits
<1>5. c \in PageIdx /\ c # b /\ b + Size[o - 1] <= NPages /\ c + Size[o - 1] <= NPages
  <2> HIDE Types
  <2>1. b + Size[o] <= NPages
    BY <1>2 DEF Fits
  <2> QED  BY <1>1, <1>3, <1>4, <2>1 DEF PageIdx
\* No block starts at the right half.
<1>6. \A r \in 0..(MaxOrder + 1) : ~IsBlock(c, r)
  <2> SUFFICES ASSUME NEW r \in 0..(MaxOrder + 1), IsBlock(c, r) PROVE FALSE
    OBVIOUS
  <2>1. r \in Orders
    BY <1>5 DEF IInv, Placed, Fits
  <2>2. b + Size[o] <= c \/ c + Size[r] <= b
    BY <1>5, <2>1 DEF IInv, Separate
  <2>3. Size[r] \in Nat
    BY <2>1, Sizes DEF Orders
  <2> HIDE Types
  <2> QED  BY <1>1, <1>3, <1>4, <2>2, <2>3
<1>7. /\ order' = [order EXCEPT ![b] = o - 1, ![c] = o - 1]
      /\ private' = private \cup {c}
      /\ freeList' = [freeList EXCEPT ![o] = @ \ {b}, ![o - 1] = @ \cup {b, c}]
      /\ level' = o - 1
  BY <1>4 DEF Halve
<1>8. /\ order' \in [PageIdx -> 0..(MaxOrder + 1)] /\ private' \subseteq PageIdx
      /\ freeList' \in [0..(MaxOrder + 1) -> SUBSET PageIdx]
      /\ level' \in Orders
  <2>1. order' \in [PageIdx -> 0..(MaxOrder + 1)]
    BY <1>1, <1>5, <1>7
  <2>2. freeList' \in [0..(MaxOrder + 1) -> SUBSET PageIdx]
    BY <1>1, <1>5, <1>7
  <2> QED  BY <1>1, <1>5, <1>7, <2>1, <2>2
<1>9. /\ freeList'[o] = freeList[o] \ {b}
      /\ freeList'[o - 1] = freeList[o - 1] \cup {b, c}
      /\ \A r \in 0..(MaxOrder + 1) : r # o /\ r # o - 1 => freeList'[r] = freeList[r]
      /\ order'[b] = o - 1 /\ order'[c] = o - 1
      /\ \A p \in PageIdx : p # b /\ p # c => order'[p] = order[p]
  <2>1. /\ order'[b] = o - 1 /\ order'[c] = o - 1
        /\ \A p \in PageIdx : p # b /\ p # c => order'[p] = order[p]
    BY <1>5, <1>7
  <2>2. /\ freeList'[o] = freeList[o] \ {b}
        /\ freeList'[o - 1] = freeList[o - 1] \cup {b, c}
    BY <1>1, <1>7
  <2>3. \A r \in 0..(MaxOrder + 1) : r # o /\ r # o - 1 => freeList'[r] = freeList[r]
    BY <1>7
  <2> QED  BY <2>1, <2>2, <2>3
<1>10. \A p \in PageIdx : ~IsStaged(p) /\ ~IsStaged(p)'
  <2>1. \A p \in PageIdx : ~IsStaged(p)
    BY NothingStaged
  <2> QED  BY <2>1 DEF IsStaged
<1>11. \A p \in PageIdx, r \in 0..(MaxOrder + 1) :
         p # b => (IsOuter(p, r)' <=> IsOuter(p, r))
  BY DEF IsOuter
<1>12. \A r \in 0..(MaxOrder + 1) : ~IsOuter(b, r)'
  <2>1. CASE outer' = None
    BY <2>1 DEF IsOuter
  <2>2. CASE outer' # None
    <3>1. outer' = outer /\ b \in freeList[o] /\ outer # None
      BY <2>2
    <3>2. order[outer.block] = outer.level /\ outer.block \notin freeList[outer.level]
      BY <3>1, OuterFacts
    <3> QED  BY <3>1, <3>2 DEF IsOuter
  <2> QED  BY <2>1, <2>2
<1>13. \A p \in PageIdx, r \in 0..(MaxOrder + 1) :
         p # b /\ p # c => (IsBlock(p, r)' <=> IsBlock(p, r))
  <2> SUFFICES ASSUME NEW p \in PageIdx, NEW r \in 0..(MaxOrder + 1), p # b, p # c
               PROVE  IsBlock(p, r)' <=> IsBlock(p, r)
    OBVIOUS
  <2>1. p \in freeList'[r] <=> p \in freeList[r]
    BY <1>9
  <2> QED  BY <1>10, <1>11, <2>1 DEF IsBlock
<1>14. \A r \in 0..(MaxOrder + 1) :
         (IsBlock(b, r)' => r = o - 1) /\ (IsBlock(c, r)' => r = o - 1)
  <2> TAKE r \in 0..(MaxOrder + 1)
  <2>1. b \in freeList'[r] => r = o - 1
    <3>1. b \in freeList[r] => r = o
      BY DEF IInv, Descriptors
    <3> QED  BY <3>1, <1>9
  <2>2. c \in freeList'[r] => r = o - 1
    <3>1. c \notin freeList[r]
      BY <1>6 DEF IsBlock
    <3> QED  BY <3>1, <1>9
  <2>3. <<b, r>> \notin held'
    BY DEF IInv, Descriptors
  <2>4. <<c, r>> \notin held' /\ ~IsOuter(c, r)'
    BY <1>5, <1>6, <1>11 DEF IsBlock
  <2> QED  BY <1>5, <1>10, <1>12, <2>1, <2>2, <2>3, <2>4 DEF IsBlock
<1>15. Descriptors'
  <2>1. \A r \in 0..(MaxOrder + 1) : \A p \in freeList'[r] : order'[p] = r /\ p \in private'
    <3> TAKE r \in 0..(MaxOrder + 1)
    <3> TAKE p \in freeList'[r]
    <3>1. p \in PageIdx
      BY <1>8
    <3>2. CASE p = b \/ p = c
      <4>1. r = o - 1
        BY <3>2, <1>14 DEF IsBlock
      <4> QED  BY <3>2, <4>1, <1>7, <1>9
    <3>3. CASE p # b /\ p # c
      <4>1. p \in freeList[r]
        BY <3>3, <1>9
      <4>2. order[p] = r /\ p \in private
        BY <4>1 DEF IInv, Descriptors
      <4> QED  BY <3>1, <3>3, <4>2, <1>7, <1>9
    <3> QED  BY <3>2, <3>3
  <2>2. \A p \in private' : p \in freeList'[order'[p]] \/ IsOuter(p, order[p])'
    <3> TAKE p \in private'
    <3>1. CASE p = b \/ p = c
      BY <3>1, <1>9
    <3>2. CASE p # b /\ p # c
      <4>1. p \in private /\ p \in PageIdx
        BY <3>2, <1>7
      <4>2. order'[p] = order[p] /\ order[p] \in 0..(MaxOrder + 1)
        BY <3>2, <4>1, <1>9
      <4>3. p \in freeList[order[p]] \/ IsOuter(p, order[p])
        BY <4>1, <1>10 DEF IInv, Descriptors
      <4>4. p \in freeList[order[p]] => p \in freeList'[order[p]]
        BY <3>2, <4>2, <1>9
      <4>5. IsOuter(p, order[p]) => IsOuter(p, order[p])'
        BY <3>2, <4>1, <4>2 DEF IsOuter
      <4> QED  BY <4>2, <4>3, <4>4, <4>5
    <3> QED  BY <3>1, <3>2
  <2>3. \A p \in PageIdx, r \in Orders :
          <<p, r>> \in held' => order'[p] = r /\ p \notin private'
    <3> TAKE p \in PageIdx, r \in Orders
    <3> HAVE <<p, r>> \in held'
    <3>1. order[p] = r /\ p \notin private
      BY DEF IInv, Descriptors
    <3>2. p # b /\ p # c
      <4>1. IsBlock(p, r) /\ r \in 0..(MaxOrder + 1)
        BY DEF IsBlock, Orders
      <4> QED  BY <3>1, <4>1, <1>6
    <3> QED  BY <3>1, <3>2, <1>7, <1>9
  <2> QED  BY <1>10, <2>1, <2>2, <2>3 DEF Descriptors
<1>16. Placed'
  <2> SUFFICES ASSUME NEW p \in PageIdx, NEW r \in 0..(MaxOrder + 1), IsBlock(p, r)'
               PROVE  Fits(p, r)
    BY DEF Placed
  <2>1. CASE p = b \/ p = c
    BY <2>1, <1>1, <1>4, <1>5, <1>14 DEF Fits
  <2>2. CASE p # b /\ p # c
    BY <2>2, <1>13 DEF IInv, Placed
  <2> QED  BY <2>1, <2>2
<1>17. Separate'
  <2> SUFFICES ASSUME NEW p \in PageIdx, NEW q \in PageIdx,
                      NEW v \in Orders, NEW r \in Orders,
                      IsBlock(p, v)', IsBlock(q, r)', p # q
               PROVE  p + Size[v] <= q \/ q + Size[r] <= p
    BY DEF Separate
  <2>1. v \in 0..(MaxOrder + 1) /\ r \in 0..(MaxOrder + 1)
    BY DEF Orders
  <2>2. \A x \in PageIdx, y \in Orders : IsBlock(x, y) /\ x # b /\ x # c =>
          /\ x + Size[y] <= b \/ b + Size[o - 1] <= x
          /\ x + Size[y] <= c \/ c + Size[o - 1] <= x
    <3> TAKE x \in PageIdx, y \in Orders
    <3> HAVE IsBlock(x, y) /\ x # b /\ x # c
    <3>1. x + Size[y] <= b \/ b + Size[o] <= x
      BY DEF IInv, Separate
    <3>2. Size[y] \in Nat
      <4>1. y \in 0..(MaxOrder + 1)
        BY DEF Orders
      <4> QED  BY <4>1, Sizes
    <3>3. x \in Nat
      BY DEF PageIdx
    <3> HIDE Types
    <3> QED  BY <3>1, <3>2, <3>3, <1>1, <1>3, <1>4
  <2>3. b + Size[o - 1] <= c
    <3> HIDE Types
    <3> QED  BY <1>1, <1>3, <1>4
  <2>4. CASE p \in {b, c} /\ q \in {b, c}
    <3>1. v = o - 1 /\ r = o - 1
      BY <2>1, <2>4, <1>14
    <3> QED  BY <2>3, <2>4, <3>1
  <2>5. CASE p \notin {b, c} /\ q \in {b, c}
    BY <2>1, <2>2, <2>5, <1>13, <1>14
  <2>6. CASE p \in {b, c} /\ q \notin {b, c}
    BY <2>1, <2>2, <2>6, <1>13, <1>14
  <2>7. CASE p \notin {b, c} /\ q \notin {b, c}
    <3>1. IsBlock(p, v) /\ IsBlock(q, r)
      BY <2>1, <2>7, <1>13
    <3> QED  BY <3>1 DEF IInv, Separate
  <2> QED  BY <2>4, <2>5, <2>6, <2>7
<1>18. outer' # None =>
         /\ order'[outer.block] = outer.level /\ outer.block \in private'
         /\ outer.block \notin freeList'[outer.level]
  <2> SUFFICES ASSUME outer' # None
               PROVE  /\ order'[outer.block] = outer.level /\ outer.block \in private'
                      /\ outer.block \notin freeList'[outer.level]
    OBVIOUS
  <2>1. outer' = outer /\ outer # None
    OBVIOUS
  <2>2. /\ outer.block \in PageIdx /\ outer.level \in 0..(MaxOrder + 1)
        /\ order[outer.block] = outer.level /\ outer.block \in private
        /\ outer.block \notin freeList[outer.level]
    BY <2>1, OuterFacts DEF Orders
  <2>3. outer.block # b
    BY <2>1, <2>2, <1>12 DEF IsOuter
  <2>4. outer.block # c
    BY <2>1, <2>2, <1>6 DEF IsBlock, IsOuter
  <2> QED  BY <2>2, <2>3, <2>4, <1>7, <1>9
<1> QED  BY <1>8, <1>15, <1>16, <1>17, <1>18

\* One turn of the loops of merge_blocks.
LEMMA MergeLoopPreserves ==
    ASSUME SafeUse, IInv, merge_blocks
    PROVE  IInv'
<1>1. /\ phase = "merge" /\ level <= want /\ UNCHANGED <<owners, lock, want, outer, halt>>
      /\ level \in Orders /\ want \in Orders
  BY Types DEF merge_blocks, IInv, Control
<1>2. CASE \E b \in freeList[level] : level # want /\ Mergeable(b, level) /\ Merge(b)
  <2>1. level < want
    BY <1>1, <1>2 DEF Orders
  <2> QED  BY <1>1, <1>2, <2>1, MergePreserves
<1>3. CASE \/ level = want /\ phase' = "second" /\ UNCHANGED <<lists, level>>
           \/ level # want /\ level' = level + 1 /\ UNCHANGED <<lists, phase>>
  <2>1. Descriptors' /\ Placed' /\ Separate'
    BY <1>1, <1>3, SameBlocks DEF lists, owners
  <2>2. level' \in Orders /\ (phase' = "merge" => level' <= want)
    BY <1>1, <1>3 DEF Orders
  <2>3. TypeOK'
    BY <1>1, <1>3, <2>2 DEF IInv, TypeOK, lists, owners, Phases
  <2>4. Control'
    BY <1>1, <1>3, <2>2 DEF IInv, Control, lists, owners
  <2> QED  BY <1>1, <2>1, <2>3, <2>4 DEF IInv, NeverBroken
<1> QED  BY <1>2, <1>3 DEF merge_blocks

\* One turn of the loop of split_blocks, with its three ways to go.
LEMMA SplitPreserves ==
    ASSUME SafeUse, IInv, split_blocks
    PROVE  IInv'
<1>1. /\ phase = "split" /\ UNCHANGED <<owners, lock>> /\ phase # "idle"
      /\ level \in Orders /\ want \in Orders /\ level >= want
      /\ level \in 0..(MaxOrder + 1)
  BY Types DEF split_blocks, IInv, Control
<1>2. CASE UNCHANGED <<lists, want, level, outer>> /\ halt' # "order broken"
           /\ halt' \in {halt, "metadata OOM"} /\ phase' \in {"split", "third"}
  <2>1. Descriptors' /\ Placed' /\ Separate'
    BY <1>1, <1>2, SameBlocks DEF lists, owners
  <2>2. TypeOK'
    BY <1>1, <1>2 DEF IInv, TypeOK, lists, owners, Phases
  <2>3. Control'
    BY <1>1, <1>2 DEF IInv, Control, lists, owners
  <2> QED  BY <1>2, <2>1, <2>2, <2>3 DEF IInv, NeverBroken
<1>3. ASSUME level > want, NEW b \in freeList[level], Halve(b, level),
             UNCHANGED <<phase, want, outer, halt>>
      PROVE  IInv'
  <2>1. /\ b \in PageIdx /\ IsBlock(b, level) /\ order[b] = level /\ b \in private
        /\ level >= 1
    BY <1>1, <1>3, Types DEF IsBlock, IInv, Descriptors, Orders
  <2>2. UNCHANGED <<held, staged, slabs, lock, freePages>> /\ level' = level - 1
    BY <1>1, <1>3 DEF owners, Halve
  <2>3. /\ Descriptors' /\ Placed' /\ Separate'
        /\ order' \in [PageIdx -> 0..(MaxOrder + 1)] /\ private' \subseteq PageIdx
        /\ freeList' \in [0..(MaxOrder + 1) -> SUBSET PageIdx]
        /\ level' \in Orders
        /\ outer' # None =>
             /\ order'[outer.block] = outer.level /\ outer.block \in private'
             /\ outer.block \notin freeList'[outer.level]
    BY <1>1, <1>3, <2>1, <2>2, HalvePreserves
  <2>4. TypeOK'
    BY <1>3, <2>2, <2>3 DEF IInv, TypeOK
  <2>5. level' >= want
    BY <1>1, <1>3, <2>2 DEF Orders
  <2>6. Control'
    BY <1>1, <1>3, <2>2, <2>3, <2>5 DEF IInv, Control
  <2> QED  BY <1>3, <2>3, <2>4, <2>6 DEF IInv, NeverBroken
<1>4. ASSUME level > want, NEW b \in freeList[level],
             "grow" \in MetaOutcomes, outer = None,
             freeList' = [freeList EXCEPT ![level] = @ \ {b}],
             outer' = [want |-> want, level |-> level, block |-> b],
             phase' = "first", want' = SlabOrder,
             UNCHANGED <<order, private, freePages, level, halt>>
      PROVE  IInv'
  <2> USE Types
  <2>1. /\ b \in PageIdx /\ order[b] = level /\ b \in private
    BY <1>1, <1>4 DEF IInv, Descriptors
  <2>2. outer' \in Frames /\ outer' # None /\ outer'.block = b /\ outer'.level = level
        /\ outer'.want = want
    <3>1. outer' \in Frames /\ outer'.block = b /\ outer'.level = level
          /\ outer'.want = want
      BY <1>1, <1>4, <2>1 DEF Frames
    <3> QED  BY <3>1, NoneAssumption, Zenon DEF NoneAssumption
  <2>3. UNCHANGED <<held, staged, slabs, lock>>
    BY <1>1 DEF owners
  <2>4. /\ freeList'[level] = freeList[level] \ {b}
        /\ \A r \in 0..(MaxOrder + 1) : r # level => freeList'[r] = freeList[r]
        /\ freeList' \in [0..(MaxOrder + 1) -> SUBSET PageIdx]
    BY <1>1, <1>4
  <2>5. \A p \in PageIdx, r \in 0..(MaxOrder + 1) : IsBlock(p, r)' <=> IsBlock(p, r)
    <3> TAKE p \in PageIdx, r \in 0..(MaxOrder + 1)
    <3>1. ~IsOuter(p, r) /\ (IsOuter(p, r)' <=> p = b /\ r = level)
      BY <1>4, <2>2 DEF IsOuter
    <3>2. p \in freeList[r] <=> p \in freeList'[r] \/ (p = b /\ r = level)
      BY <2>4
    <3>3. IsStaged(p)' <=> IsStaged(p)
      BY <2>3 DEF IsStaged
    <3> QED  BY <1>4, <2>3, <3>1, <3>2, <3>3 DEF IsBlock
  <2>6. Descriptors'
    <3>1. \A r \in 0..(MaxOrder + 1) : \A p \in freeList'[r] :
             order'[p] = r /\ p \in private'
      BY <1>4, <2>4 DEF IInv, Descriptors
    <3>2. \A p \in private' :
             p \in freeList'[order'[p]] \/ IsStaged(p)' \/ IsOuter(p, order[p])'
      <4> TAKE p \in private'
      <4>1. p \in PageIdx /\ p \in private /\ order[p] \in 0..(MaxOrder + 1)
        BY <1>4
      <4>2. p \in freeList[order[p]] \/ IsStaged(p)
        BY <1>4, <4>1 DEF IInv, Descriptors, IsOuter
      <4>3. CASE p = b
        BY <1>4, <2>1, <2>2, <4>3 DEF IsOuter
      <4>4. CASE p # b
        BY <1>4, <2>3, <2>4, <4>1, <4>2, <4>4 DEF IsStaged
      <4> QED  BY <4>3, <4>4
    <3>3. \A p \in PageIdx, r \in Orders :
             <<p, r>> \in held' => order'[p] = r /\ p \notin private'
      BY <1>4, <2>3 DEF IInv, Descriptors
    <3>4. \A p \in PageIdx : ~IsStaged(p)'
      BY <1>1, <2>3, NothingStaged DEF IsStaged
    <3> QED  BY <3>1, <3>2, <3>3, <3>4 DEF Descriptors
  <2>7. Placed' /\ Separate'
    BY <2>5 DEF IInv, Placed, Separate, Orders
  <2>8. TypeOK'
    BY <1>1, <1>4, <2>2, <2>3, <2>4, SlabAssumption
       DEF IInv, TypeOK, Phases, SlabAssumption
  <2>9. SlabOrder <= want
    BY <1>1, <1>4, NothingStaged DEF IInv, Control
  <2>10. Control'
    <3>1. lock' # None /\ \A t \in Threads : staged'[t] = None
      BY <1>1, <2>3, NothingStaged DEF IInv, Control
    <3>2. SlabOrder \in Int /\ want \in Int /\ level \in Int
      BY <1>1, SlabAssumption DEF SlabAssumption, Orders
    <3>3. b \notin freeList'[level]
      BY <2>4
    <3> QED  BY <1>4, <2>1, <2>2, <2>9, <3>1, <3>2, <3>3 DEF Control
  <2> QED  BY <1>4, <2>6, <2>7, <2>8, <2>10 DEF IInv, NeverBroken
<1>5. \A b \in freeList[level] : order[b] = level
  BY <1>1 DEF IInv, Descriptors
<1> QED
  <2>1. CASE level = want /\ phase' = "third" /\ UNCHANGED <<lists, want, level, outer, halt>>
    BY <2>1, <1>2 DEF IInv, NeverBroken
  <2>2. CASE \E b \in freeList[level] :
               halt' = "metadata OOM" /\ UNCHANGED <<lists, phase, want, level, outer>>
    BY <2>2, <1>1, <1>2
  <2> QED  BY <1>1, <1>3, <1>4, <1>5, <2>1, <2>2 DEF split_blocks

\* The suspended split_blocks halves the block it had off its list.
LEMMA ResumePreserves ==
    ASSUME SafeUse, IInv, resume
    PROVE  IInv'
<1>1. phase = "resume" /\ phase # "idle" /\ outer # None /\ UNCHANGED <<owners, lock>>
  BY DEF resume, IInv, Control
<1>2. CASE /\ Halve(outer.block, outer.level)
           /\ phase' = "split" /\ want' = outer.want /\ outer' = None
           /\ UNCHANGED halt
  <2>1. /\ outer.block \in PageIdx /\ outer.level \in Orders /\ outer.want \in Orders
        /\ order[outer.block] = outer.level /\ outer.block \in private
        /\ outer.want < outer.level /\ SlabOrder <= outer.want
    BY <1>1, OuterFacts DEF IInv, Control
  <2>2. outer.level >= 1 /\ outer.level - 1 >= outer.want
    BY <2>1 DEF Orders
  <2>3. IsBlock(outer.block, outer.level)
    BY <1>1 DEF IsBlock, IsOuter
  <2>4. UNCHANGED <<held, staged, slabs, lock, freePages>> /\ level' = outer.level - 1
    BY <1>1, <1>2 DEF owners, Halve
  <2>5. \A b \in PageIdx, o \in Orders :
          b = outer.block /\ o = outer.level =>
            /\ Descriptors' /\ Placed' /\ Separate'
            /\ order' \in [PageIdx -> 0..(MaxOrder + 1)] /\ private' \subseteq PageIdx
            /\ freeList' \in [0..(MaxOrder + 1) -> SUBSET PageIdx]
            /\ level' \in Orders
    <3> TAKE b \in PageIdx, o \in Orders
    <3> HAVE b = outer.block /\ o = outer.level
    <3>1. o >= 1 /\ IsBlock(b, o) /\ order[b] = o /\ b \in private /\ Halve(b, o)
      BY <1>2, <2>1, <2>2, <2>3
    <3> QED  BY <1>1, <1>2, <2>4, <3>1, HalvePreserves
  <2>6. TypeOK'
    BY <1>1, <1>2, <2>1, <2>4, <2>5, NothingStaged DEF IInv, TypeOK, Phases
  <2>7. Control'
    BY <1>1, <1>2, <2>1, <2>2, <2>4, NothingStaged DEF IInv, Control
  <2> QED  BY <1>2, <2>1, <2>5, <2>6, <2>7 DEF IInv, NeverBroken
<1>3. CASE halt' = "metadata OOM" /\ UNCHANGED <<lists, phase, want, level, outer>>
  <2>1. Descriptors' /\ Placed' /\ Separate'
    BY <1>1, <1>3, SameBlocks DEF lists, owners
  <2>2. TypeOK'
    BY <1>1, <1>3 DEF IInv, TypeOK, lists, owners
  <2>3. Control'
    BY <1>1, <1>3 DEF IInv, Control, lists, owners
  <2> QED  BY <1>3, <2>1, <2>2, <2>3 DEF IInv, NeverBroken
<1> QED  BY <1>2, <1>3 DEF resume

\* The unlocked part of buddy_free moves a block from its caller to the thread.
LEMMA FreePreserves ==
    ASSUME SafeUse, IInv, NEW t \in Threads, NEW h \in held, buddy_free(t, h[1], h[2])
    PROVE  IInv'
<1> USE Types
<1>1. PICK b \in PageIdx, o \in Orders :
        /\ <<b, o>> \in held \ slabs
        /\ private' = private \cup {b}
        /\ staged' = [staged EXCEPT ![t] = b]
        /\ held' = held \ {<<b, o>>}
  BY DEF buddy_free
<1>2. /\ lock # t /\ staged[t] = None
      /\ UNCHANGED <<order, freeList, freePages, slabs, lock, phase, want, level, outer, halt>>
  BY DEF buddy_free, running
<1>3. lock = None /\ phase = "idle" /\ outer = None
  BY <1>2 DEF SafeUse, IInv, TypeOK, Control
<1>4. order[b] = o /\ b \notin private /\ o \in 0..(MaxOrder + 1)
  BY <1>1 DEF IInv, Descriptors, Orders
<1>5. \A p \in PageIdx : (IsStaged(p)' <=> p = b) /\ ~IsStaged(p)
  <2>1. \A u \in Threads : u = t /\ staged[u] = None
    BY <1>2 DEF SafeUse
  <2>2. staged'[t] = b
    BY <1>1 DEF IInv, TypeOK
  <2> QED  BY <2>1, <2>2, NoneAssumption DEF IsStaged, NoneAssumption
<1>6. TypeOK'
  <2>1. staged' \in [Threads -> PageIdx \cup {None}]
    BY <1>1 DEF IInv, TypeOK
  <2>2. private' \subseteq PageIdx /\ held' \subseteq PageIdx \X Orders /\ slabs' \subseteq held'
    BY <1>1, <1>2 DEF IInv, TypeOK
  <2> QED  BY <1>2, <2>1, <2>2 DEF IInv, TypeOK
<1>7. \A p \in PageIdx, r \in 0..(MaxOrder + 1) : IsBlock(p, r)' <=> IsBlock(p, r)
  <2> TAKE p \in PageIdx, r \in 0..(MaxOrder + 1)
  <2>1. <<p, r>> \in held <=> <<p, r>> \in held' \/ (p = b /\ r = o)
    BY <1>1
  <2>2. p \in freeList'[r] <=> p \in freeList[r]
    BY <1>2
  <2>3. ~IsOuter(p, r) /\ ~IsOuter(p, r)'
    BY <1>2, <1>3 DEF IsOuter
  <2>4. order'[p] = order[p]
    BY <1>2
  <2> QED  BY <1>4, <1>5, <2>1, <2>2, <2>3, <2>4 DEF IsBlock
<1>8. Descriptors'
  <2>1. \A r \in 0..(MaxOrder + 1) : \A p \in freeList'[r] : order'[p] = r /\ p \in private'
    BY <1>1, <1>2 DEF IInv, Descriptors
  <2>2. \A p \in private' :
           p \in freeList'[order'[p]] \/ IsStaged(p)' \/ IsOuter(p, order[p])'
    <3> TAKE p \in private'
    <3>1. CASE p = b
      BY <3>1, <1>5
    <3>2. CASE p # b
      <4>1. p \in private /\ p \in PageIdx
        BY <3>2, <1>1
      <4>2. p \in freeList[order[p]]
        BY <4>1, <1>3, <1>5 DEF IInv, Descriptors, IsOuter
      <4> QED  BY <4>2, <1>2
    <3> QED  BY <3>1, <3>2
  <2>3. \A p \in PageIdx, r \in Orders :
           <<p, r>> \in held' => order'[p] = r /\ p \notin private'
    BY <1>1, <1>2, <1>4 DEF IInv, Descriptors
  <2>4. \A p \in PageIdx : IsStaged(p)' => p \in private' /\ p \notin freeList'[order'[p]]
    BY <1>1, <1>2, <1>4, <1>5 DEF IInv, Descriptors
  <2> QED  BY <2>1, <2>2, <2>3, <2>4 DEF Descriptors
<1>9. Placed' /\ Separate'
  BY <1>7 DEF IInv, Placed, Separate, Orders
<1>10. Control'
  BY <1>2, <1>3 DEF IInv, Control
<1> QED  BY <1>2, <1>6, <1>8, <1>9, <1>10 DEF IInv, NeverBroken

\* The locked part of buddy_free lists the block.
LEMMA CommitPreserves ==
    ASSUME SafeUse, IInv, NEW t \in Threads, buddy_free_commit(t)
    PROVE  IInv'
<1> USE Types
<1>1. /\ lock = None /\ staged[t] # None
      /\ staged' = [staged EXCEPT ![t] = None]
      /\ UNCHANGED <<order, private, held, slabs, lock, phase, want, level, outer, halt>>
  BY DEF buddy_free_commit, running
<1>2. PICK b \in PageIdx : b = staged[t]
  BY <1>1 DEF IInv, TypeOK
<1>3. PICK o \in 0..(MaxOrder + 1) : o = order[b]
  OBVIOUS
<1>4. /\ freePages' = freePages + Size[o]
      /\ freeList' = [freeList EXCEPT ![o] = @ \cup {b}]
  BY <1>2, <1>3 DEF buddy_free_commit
<1>5. /\ freeList'[o] = freeList[o] \cup {b}
      /\ \A r \in 0..(MaxOrder + 1) : r # o => freeList'[r] = freeList[r]
      /\ freeList' \in [0..(MaxOrder + 1) -> SUBSET PageIdx]
  BY <1>4
<1>6. outer = None
  BY <1>1 DEF IInv, Control
<1>7. \A p \in PageIdx : ~IsStaged(p)' /\ (IsStaged(p) <=> p = b)
  <2>1. \A u \in Threads : u = t
    BY DEF SafeUse
  <2>2. staged'[t] = None
    BY <1>1 DEF IInv, TypeOK
  <2> QED  BY <2>1, <2>2, <1>2, NoneAssumption DEF IsStaged, NoneAssumption
<1>8. \A p \in PageIdx, r \in 0..(MaxOrder + 1) : IsBlock(p, r)' <=> IsBlock(p, r)
  <2> TAKE p \in PageIdx, r \in 0..(MaxOrder + 1)
  <2>1. p \in freeList'[r] <=> p \in freeList[r] \/ (p = b /\ r = o)
    BY <1>5
  <2>2. ~IsOuter(p, r) /\ ~IsOuter(p, r)'
    BY <1>1, <1>6 DEF IsOuter
  <2> QED  BY <1>1, <1>3, <1>7, <2>1, <2>2 DEF IsBlock
<1>9. b \in private
  BY <1>7 DEF IInv, Descriptors
<1>10. Descriptors'
  <2>1. \A r \in 0..(MaxOrder + 1) : \A p \in freeList'[r] : order'[p] = r /\ p \in private'
    BY <1>1, <1>3, <1>5, <1>9 DEF IInv, Descriptors
  <2>2. \A p \in private' : p \in freeList'[order'[p]]
    <3> TAKE p \in private'
    <3>1. p \in private /\ p \in PageIdx /\ order[p] \in 0..(MaxOrder + 1)
      BY <1>1
    <3>2. p \in freeList[order[p]] \/ p = b
      BY <3>1, <1>6, <1>7 DEF IInv, Descriptors, IsOuter
    <3> QED  BY <3>1, <3>2, <1>1, <1>3, <1>5
  <2>3. \A p \in PageIdx, r \in Orders :
           <<p, r>> \in held' => order'[p] = r /\ p \notin private'
    BY <1>1 DEF IInv, Descriptors
  <2> QED  BY <1>7, <2>1, <2>2, <2>3 DEF Descriptors
<1>11. Placed' /\ Separate'
  BY <1>8 DEF IInv, Placed, Separate, Orders
<1>12. TypeOK'
  <2>1. freePages' \in Int
    <3>1. freePages \in Int /\ Size[o] \in Nat
      BY Sizes DEF IInv, TypeOK
    <3> QED  BY <1>4, <3>1
  <2>2. staged' \in [Threads -> PageIdx \cup {None}]
    BY <1>1 DEF IInv, TypeOK
  <2> QED  BY <1>1, <1>5, <2>1, <2>2 DEF IInv, TypeOK
<1>13. Control'
  BY <1>1, <1>6 DEF IInv, Control
<1> QED  BY <1>1, <1>10, <1>11, <1>12, <1>13 DEF IInv, NeverBroken

\* Every step keeps the inductive invariant.
LEMMA NextPreserves ==
    ASSUME SafeUse, IInv, [Next]_vars
    PROVE  IInv'
<1>1. CASE UNCHANGED vars
  <2>1. Descriptors' /\ Placed' /\ Separate'
    BY <1>1, SameBlocks DEF vars
  <2>2. TypeOK' /\ NeverBroken'
    BY <1>1 DEF IInv, TypeOK, NeverBroken, vars
  <2>3. Control'
    BY <1>1 DEF IInv, Control, vars
  <2> QED  BY <2>1, <2>2, <2>3 DEF IInv
<1>2. CASE \E t \in Threads, n \in Requests : buddy_alloc(t, n)
  BY <1>2, AllocPreserves
<1>3. CASE buddy_alloc_inner
  BY <1>3, InnerPreserves
<1>4. CASE Miss
  BY <1>4, MissPreserves
<1>5. CASE merge_blocks
  BY <1>5, MergeLoopPreserves
<1>6. CASE split_blocks
  BY <1>6, SplitPreserves
<1>7. CASE resume
  BY <1>7, ResumePreserves
<1>8. CASE \E t \in Threads, h \in held : buddy_free(t, h[1], h[2])
  BY <1>8, FreePreserves
<1>9. CASE \E t \in Threads : buddy_free_commit(t)
  BY <1>9, CommitPreserves
<1> QED  BY <1>1, <1>2, <1>3, <1>4, <1>5, <1>6, <1>7, <1>8, <1>9 DEF Next, Halted

\* The lists, the page descriptors and the call in progress stay coherent.
THEOREM Invariance ==
    ASSUME SafeUse
    PROVE  Spec => []IInv
<1>1. Init => IInv
  BY InitIInv
<1>2. IInv /\ [Next]_vars => IInv'
  BY NextPreserves
<1> QED  BY <1>1, <1>2, PTL DEF Spec

\* Every variable of the buddy system keeps its type; in particular the orders
\* that index buddy_free_list stay in range.
THEOREM TypeCorrect ==
    ASSUME SafeUse
    PROVE  Spec => []TypeOK
<1>1. IInv => TypeOK
  BY DEF IInv
<1> QED  BY <1>1, Invariance, PTL

\* The order checks of buddy_alloc_inner and split_blocks never panic.
THEOREM ChecksNeverFire ==
    ASSUME SafeUse
    PROVE  Spec => []NeverBroken
<1>1. IInv => NeverBroken
  BY DEF IInv
<1> QED  BY <1>1, Invariance, PTL

\* A page heads at most one block, whose order is in its descriptor.
LEMMA BlockOrder ==
    ASSUME IInv, NEW p \in PageIdx, NEW o \in 0..(MaxOrder + 1), IsBlock(p, o)
    PROVE  o \in Orders /\ order[p] = o
<1>1. o \in Orders
  BY DEF IInv, Placed, Fits
<1>2. CASE p \in freeList[o] \/ <<p, o>> \in held
  BY <1>1, <1>2 DEF IInv, Descriptors
<1>3. CASE IsStaged(p) /\ o = order[p]
  BY <1>3, <1>1
<1>4. CASE IsOuter(p, o)
  BY <1>4, <1>1, OuterFacts DEF IsOuter
<1> QED  BY <1>1, <1>2, <1>3, <1>4 DEF IsBlock

\* Blocks that start at different pages share no page.
LEMMA BlocksDisjoint ==
    ASSUME IInv, NEW p \in PageIdx, NEW q \in PageIdx,
           NEW o \in 0..(MaxOrder + 1), NEW r \in 0..(MaxOrder + 1),
           IsBlock(p, o), IsBlock(q, r), p # q
    PROVE  Span(p, o) \cap Span(q, r) = {}
<1>1. o \in Orders /\ r \in Orders
  BY BlockOrder
<1>2. p + Size[o] <= q \/ q + Size[r] <= p
  BY <1>1 DEF IInv, Separate
<1>3. Size[o] \in Nat /\ Size[r] \in Nat
  BY Sizes
<1>4. p \in Nat /\ q \in Nat
  BY DEF PageIdx
<1> QED  BY <1>2, <1>3, <1>4 DEF Span

\* No page belongs to two blocks.
THEOREM MemoryNeverShared ==
    ASSUME SafeUse
    PROVE  Spec => []NoDoubleUse
<1>1. ASSUME IInv PROVE NoDoubleUse
  <2> USE <1>1
  <2>1. \A x \in Listed \cup OffList \cup InUse :
          \E p \in PageIdx, o \in 0..(MaxOrder + 1) : x = <<p, o>> /\ IsBlock(p, o)
    <3>1. \A x \in Listed : \E p \in PageIdx, o \in 0..(MaxOrder + 1) :
             x = <<p, o>> /\ IsBlock(p, o)
      BY DEF Listed, IsBlock
    <3>2. \A x \in OffList : \E p \in PageIdx, o \in 0..(MaxOrder + 1) :
             x = <<p, o>> /\ IsBlock(p, o)
      <4> TAKE x \in OffList
      <4>1. outer # None /\ x = <<outer.block, outer.level>>
        BY DEF OffList
      <4>2. outer.block \in PageIdx /\ outer.level \in 0..(MaxOrder + 1)
        BY <4>1, OuterFacts DEF Orders
      <4>3. IsBlock(outer.block, outer.level)
        BY <4>1 DEF IsBlock, IsOuter
      <4> QED  BY <4>1, <4>2, <4>3
    <3>3. \A x \in held : \E p \in PageIdx, o \in 0..(MaxOrder + 1) :
             x = <<p, o>> /\ IsBlock(p, o)
      <4> TAKE x \in held
      <4>1. PICK p \in PageIdx, o \in Orders : x = <<p, o>>
        BY Types
      <4>2. o \in 0..(MaxOrder + 1) /\ IsBlock(p, o)
        BY <4>1 DEF IsBlock, Orders
      <4> QED  BY <4>1, <4>2
    <3>4. \A x \in Staged : \E p \in PageIdx, o \in 0..(MaxOrder + 1) :
             x = <<p, o>> /\ IsBlock(p, o)
      <4> TAKE x \in Staged
      <4>1. PICK t \in Threads : staged[t] # None /\ x = <<staged[t], order[staged[t]]>>
        BY DEF Staged
      <4>2. staged[t] \in PageIdx /\ order[staged[t]] \in 0..(MaxOrder + 1)
        BY <4>1 DEF IInv, TypeOK
      <4>3. IsBlock(staged[t], order[staged[t]])
        BY DEF IsBlock, IsStaged
      <4> QED  BY <4>1, <4>2, <4>3
    <3> QED  BY <3>1, <3>2, <3>3, <3>4 DEF InUse
  <2>2. Disjoint(Listed \cup OffList \cup InUse)
    <3> SUFFICES ASSUME NEW x \in Listed \cup OffList \cup InUse,
                        NEW y \in Listed \cup OffList \cup InUse, x # y
                 PROVE  ~Overlap(x, y)
      BY DEF Disjoint
    <3>1. PICK p \in PageIdx, o \in 0..(MaxOrder + 1) : x = <<p, o>> /\ IsBlock(p, o)
      BY <2>1
    <3>2. PICK q \in PageIdx, r \in 0..(MaxOrder + 1) : y = <<q, r>> /\ IsBlock(q, r)
      BY <2>1
    <3>3. p # q
      BY <3>1, <3>2, BlockOrder
    <3>4. Span(p, o) \cap Span(q, r) = {}
      BY <3>1, <3>2, <3>3, BlocksDisjoint
    <3> QED  BY <3>1, <3>2, <3>4 DEF Overlap
  <2>3. \A x \in Listed : x \notin held /\ x \notin Staged /\ x \notin OffList
    <3> TAKE x \in Listed
    <3>1. PICK p \in PageIdx, o \in 0..(MaxOrder + 1) : x = <<p, o>> /\ p \in freeList[o]
      BY DEF Listed
    <3>2. p \in private /\ order[p] = o /\ o \in Orders
      BY <3>1, BlockOrder DEF IInv, Descriptors, IsBlock
    <3>3. x \notin held
      BY <3>1, <3>2 DEF IInv, Descriptors
    <3>4. x \notin Staged
      BY <3>1, <3>2 DEF IInv, Descriptors, Staged, IsStaged
    <3>5. x \notin OffList
      BY <3>1, <3>2, OuterFacts DEF OffList
    <3> QED  BY <3>3, <3>4, <3>5
  <2>4. \A x \in OffList : x \notin held /\ x \notin Staged
    <3> TAKE x \in OffList
    <3>1. outer # None /\ x = <<outer.block, outer.level>>
      BY DEF OffList
    <3>2. /\ outer.block \in PageIdx /\ outer.level \in Orders
          /\ outer.block \in private /\ \A t \in Threads : staged[t] = None
      BY <3>1, OuterFacts DEF IInv, Control
    <3> QED  BY <3>1, <3>2 DEF IInv, Descriptors, Staged
  <2> QED  BY <2>2, <2>3, <2>4 DEF NoDoubleUse, InUse
<1> QED  BY <1>1, Invariance, PTL

\* Every step of the buddy system is a step of PageAllocator or leaves the
\* blocks of the callers alone.
THEOREM Refinement ==
    ASSUME SafeUse
    PROVE  Spec => Implements
<1>1. Init => Abstract!Init
  BY DEF Init, Abstract!Init
<1>2. IInv /\ [Next]_vars => [Abstract!Next]_held
  <2> SUFFICES ASSUME IInv, [Next]_vars, held' # held PROVE Abstract!Next
    OBVIOUS
  <2>1. CASE buddy_alloc_inner
    <3>1. PICK b \in freeList[want] : held' = held \cup {<<b, want>>}
      BY <2>1 DEF buddy_alloc_inner, panic, owners
    <3>2. b \in PageIdx /\ want \in Orders /\ want \in 0..(MaxOrder + 1) /\ IsBlock(b, want)
      BY Types DEF IsBlock
    <3>3. Fits(b, want)
      BY <3>2 DEF IInv, Placed
    <3>4. Span(b, want) \subseteq PageIdx
      <4>1. b + Size[want] <= NPages /\ Size[want] \in Nat /\ NPages \in Nat
        BY <3>2, <3>3, Sizes DEF Fits
      <4> QED  BY <3>2, <4>1 DEF Span, PageIdx
    <3>5. \A h \in held : ~Overlap(<<b, want>>, h)
      <4> TAKE h \in held
      <4>1. PICK q \in PageIdx, r \in Orders : h = <<q, r>> /\ r \in 0..(MaxOrder + 1)
        BY Types DEF Orders
      <4>2. IsBlock(q, r)
        BY <4>1 DEF IsBlock
      <4>3. q # b
        BY <3>2, <4>1 DEF IInv, Descriptors
      <4>4. Span(b, want) \cap Span(q, r) = {}
        BY <3>2, <4>1, <4>2, <4>3, BlocksDisjoint
      <4> QED  BY <4>1, <4>4 DEF Overlap
    <3> QED  BY <3>1, <3>2, <3>3, <3>4, <3>5
              DEF Fits, Abstract!Next, Abstract!Alloc, Abstract!Aligned, Abstract!Span,
                  Abstract!Overlap, Abstract!PageIdx, Abstract!Orders, Abstract!NPages,
                  Aligned, Span, Overlap, PageIdx, Orders, NPages
  <2>2. CASE \E t \in Threads, h \in held : buddy_free(t, h[1], h[2])
    <3>1. PICK b \in PageIdx, o \in Orders : <<b, o>> \in held /\ held' = held \ {<<b, o>>}
      BY <2>2, Types DEF buddy_free
    <3> QED  BY <3>1 DEF Abstract!Next, Abstract!Free, Abstract!PageIdx, Abstract!Orders,
                         Abstract!NPages, PageIdx, Orders, NPages
  <2>3. CASE UNCHANGED vars \/ Miss \/ merge_blocks \/ split_blocks \/ resume \/ Halted
    BY <2>3 DEF vars, owners, Miss, merge_blocks, split_blocks, resume, Halted
  <2>4. CASE \E t \in Threads, n \in Requests : buddy_alloc(t, n)
    BY <2>4 DEF buddy_alloc, owners
  <2>5. CASE \E t \in Threads : buddy_free_commit(t)
    BY <2>5 DEF buddy_free_commit
  <2> QED  BY <2>1, <2>2, <2>3, <2>4, <2>5 DEF Next
<1> QED  BY <1>1, <1>2, Invariance, PTL DEF Spec, Implements, Abstract!Spec

-----------------------------------------------------------------------------
(* Completeness: the pages of the free blocks, and how each step changes them. *)

\* A block is the union of its halves.
LEMMA SpanHalves ==
    ASSUME NEW b \in Nat, NEW o \in Orders, o >= 1
    PROVE  Span(b, o) = Span(b, o - 1) \cup Span(b + Size[o - 1], o - 1)
<1>1. Size[o] = 2 * Size[o - 1] /\ Size[o - 1] \in Nat
  BY Sizes DEF Orders
<1>2. PICK s \in Nat : s = Size[o - 1]
  BY <1>1
<1>3. Span(b, o) = b..(b + 2 * s - 1) /\ Span(b, o - 1) = b..(b + s - 1)
      /\ Span(b + Size[o - 1], o - 1) = (b + s)..(b + s + s - 1)
  BY <1>1, <1>2 DEF Span
<1>4. b..(b + 2 * s - 1) = (b..(b + s - 1)) \cup ((b + s)..(b + s + s - 1))
  OBVIOUS
<1> QED  BY <1>3, <1>4

\* A step that leaves the lists and the suspended split alone.
LEMMA FreeSame ==
    ASSUME UNCHANGED <<freeList, outer>>
    PROVE  Free' = Free
<1>1. \A b, o : IsFree(b, o)' <=> IsFree(b, o)
  BY DEF IsFree, IsOuter
<1> QED  BY <1>1 DEF Free

\* A free block is not the suspended one, and is on the list of its order.
LEMMA FreeOnce ==
    ASSUME IInv, NEW b \in PageIdx, NEW o \in Orders, b \in freeList[o]
    PROVE  order[b] = o /\ b \in private /\ \A r \in Orders : ~IsOuter(b, r)
<1>1. order[b] = o /\ b \in private
  BY DEF IInv, Descriptors, Orders
<1>2. ASSUME NEW r \in Orders, IsOuter(b, r) PROVE FALSE
  BY <1>1, <1>2, OuterFacts DEF IsOuter
<1> QED  BY <1>1, <1>2

\* Joining two buddies leaves the set of free pages alone.
LEMMA FreeMerge ==
    ASSUME IInv, phase = "merge", level < want,
           NEW b \in freeList[level], Mergeable(b, level), Merge(b),
           UNCHANGED <<owners, lock, want, outer, halt>>
    PROVE  Free' = Free
<1>1. PICK lo \in PageIdx, hi \in PageIdx :
        /\ hi = lo + Size[level] /\ lo \in freeList[level] /\ hi \in freeList[level]
        /\ freeList' = [freeList EXCEPT ![level] = @ \ {lo, hi},
                                        ![level + 1] = @ \cup {lo}]
        /\ outer' = outer
  BY MergeEffect
<1>2. level \in Orders /\ level + 1 \in Orders /\ level # level + 1 /\ level \in Nat
  BY Types DEF Orders
<1>3. freeList \in [0..(MaxOrder + 1) -> SUBSET PageIdx] /\ Orders \subseteq 0..(MaxOrder + 1)
  BY Types DEF Orders
<1>4. /\ freeList'[level] = freeList[level] \ {lo, hi}
      /\ freeList'[level + 1] = freeList[level + 1] \cup {lo}
      /\ \A o \in Orders : o # level /\ o # level + 1 => freeList'[o] = freeList[o]
  BY <1>1, <1>2, <1>3
<1>5. Span(lo, level + 1) = Span(lo, level) \cup Span(hi, level)
  <2>1. lo \in Nat /\ level + 1 >= 1 /\ (level + 1) - 1 = level
    BY <1>2 DEF PageIdx
  <2>2. Span(lo, level + 1) = Span(lo, (level + 1) - 1) \cup Span(lo + Size[(level + 1) - 1], (level + 1) - 1)
    BY <1>2, <2>1, SpanHalves
  <2> QED  BY <1>1, <2>1, <2>2
<1>6. \A q \in PageIdx, o \in Orders :
        IsFree(q, o)' <=> \/ IsFree(q, o) /\ ~(q \in {lo, hi} /\ o = level)
                          \/ q = lo /\ o = level + 1
  <2> TAKE q \in PageIdx, o \in Orders
  <2>1. IsOuter(q, o)' <=> IsOuter(q, o)
    BY <1>1 DEF IsOuter
  <2>2. IsOuter(q, o) => ~(q \in {lo, hi})
    BY <1>1, <1>2, FreeOnce
  <2>3. q \in freeList'[o] <=> \/ q \in freeList[o] /\ ~(q \in {lo, hi} /\ o = level)
                               \/ q = lo /\ o = level + 1
    BY <1>2, <1>4
  <2> QED  BY <2>1, <2>2, <2>3 DEF IsFree
<1>7. IsFree(lo, level) /\ IsFree(hi, level)
  BY <1>1 DEF IsFree
<1>8. \A p \in PageIdx : p \in Free => p \in Free'
  <2> SUFFICES ASSUME NEW p \in PageIdx, NEW q \in PageIdx, NEW o \in Orders,
                      IsFree(q, o), p \in Span(q, o)
               PROVE  \E c \in PageIdx, r \in Orders : IsFree(c, r)' /\ p \in Span(c, r)
    BY DEF Free
  <2>1. CASE q \in {lo, hi} /\ o = level
    BY <2>1, <1>2, <1>5, <1>6
  <2>2. CASE ~(q \in {lo, hi} /\ o = level)
    BY <2>2, <1>6
  <2> QED  BY <2>1, <2>2
<1>9. \A p \in PageIdx : p \in Free' => p \in Free
  <2> SUFFICES ASSUME NEW p \in PageIdx, NEW q \in PageIdx, NEW o \in Orders,
                      IsFree(q, o)', p \in Span(q, o)
               PROVE  \E c \in PageIdx, r \in Orders : IsFree(c, r) /\ p \in Span(c, r)
    BY DEF Free
  <2>1. CASE q = lo /\ o = level + 1
    BY <2>1, <1>2, <1>5, <1>7
  <2>2. CASE ~(q = lo /\ o = level + 1)
    BY <2>2, <1>6
  <2> QED  BY <2>1, <2>2
<1> QED  BY <1>8, <1>9 DEF Free

\* Nor does halving a block, listed or suspended.
LEMMA FreeHalve ==
    ASSUME IInv, NEW b \in PageIdx, NEW o \in Orders, o >= 1, IsFree(b, o), Halve(b, o),
           \/ outer' = outer /\ b \in freeList[o]
           \/ outer # None /\ outer' = None /\ b = outer.block /\ o = outer.level
    PROVE  Free' = Free
<1>1. /\ o - 1 \in Orders /\ o # o - 1 /\ b \in Nat /\ Orders \subseteq 0..(MaxOrder + 1)
  BY DEF Orders, PageIdx
<1>2. Fits(b, o)
  BY <1>1 DEF IInv, Placed, IsFree, IsBlock
<1>3. PICK c : c = b + Size[o - 1]
  OBVIOUS
<1>4. get_buddy_addr(b, o - 1) = c
  BY <1>1, <1>2, <1>3, HalvesAligned DEF Fits
<1>5. c \in PageIdx
  <2>1. Size[o] = 2 * Size[o - 1] /\ Size[o - 1] \in Nat /\ Size[o - 1] >= 1 /\ NPages \in Nat
    BY <1>1, Sizes DEF Orders
  <2>2. b + Size[o] <= NPages
    BY <1>2 DEF Fits
  <2> QED  BY <1>1, <1>3, <2>1, <2>2 DEF PageIdx
<1>6. freeList' = [freeList EXCEPT ![o] = @ \ {b}, ![o - 1] = @ \cup {b, c}]
  BY <1>4 DEF Halve
<1>7. /\ freeList'[o] = freeList[o] \ {b}
      /\ freeList'[o - 1] = freeList[o - 1] \cup {b, c}
      /\ \A r \in Orders : r # o /\ r # o - 1 => freeList'[r] = freeList[r]
  BY <1>1, <1>6, Types
<1>8. Span(b, o) = Span(b, o - 1) \cup Span(c, o - 1)
  BY <1>1, <1>3, SpanHalves
<1>9. \A q \in PageIdx, r \in Orders :
        IsOuter(q, r)' <=> IsOuter(q, r) /\ ~(q = b /\ r = o)
  <2>1. CASE outer' = outer /\ b \in freeList[o]
    BY <2>1, FreeOnce DEF IsOuter
  <2>2. CASE outer # None /\ outer' = None /\ b = outer.block /\ o = outer.level
    BY <2>2 DEF IsOuter
  <2> QED  BY <2>1, <2>2
<1>10. \A q \in PageIdx, r \in Orders :
        IsFree(q, r)' <=> \/ IsFree(q, r) /\ ~(q = b /\ r = o)
                          \/ q \in {b, c} /\ r = o - 1
  <2> TAKE q \in PageIdx, r \in Orders
  <2>1. q \in freeList'[r] <=> \/ q \in freeList[r] /\ ~(q = b /\ r = o)
                               \/ q \in {b, c} /\ r = o - 1
    BY <1>1, <1>7
  <2> QED  BY <1>9, <2>1 DEF IsFree
<1>11. \A p \in PageIdx : p \in Free => p \in Free'
  <2> SUFFICES ASSUME NEW p \in PageIdx, NEW q \in PageIdx, NEW r \in Orders,
                      IsFree(q, r), p \in Span(q, r)
               PROVE  \E d \in PageIdx, k \in Orders : IsFree(d, k)' /\ p \in Span(d, k)
    BY DEF Free
  <2>1. CASE q = b /\ r = o
    BY <2>1, <1>1, <1>5, <1>8, <1>10
  <2>2. CASE ~(q = b /\ r = o)
    BY <2>2, <1>10
  <2> QED  BY <2>1, <2>2
<1>12. \A p \in PageIdx : p \in Free' => p \in Free
  <2> SUFFICES ASSUME NEW p \in PageIdx, NEW q \in PageIdx, NEW r \in Orders,
                      IsFree(q, r)', p \in Span(q, r)
               PROVE  \E d \in PageIdx, k \in Orders : IsFree(d, k) /\ p \in Span(d, k)
    BY DEF Free
  <2>1. CASE q \in {b, c} /\ r = o - 1
    BY <2>1, <1>8
  <2>2. CASE ~(q \in {b, c} /\ r = o - 1)
    BY <2>2, <1>10
  <2> QED  BY <2>1, <2>2
<1> QED  BY <1>11, <1>12 DEF Free

\* A block of the region is a set of pages, as many as its size.
LEMMA SpanPages ==
    ASSUME NEW b \in PageIdx, NEW o \in Orders, Fits(b, o)
    PROVE  /\ Span(b, o) \subseteq PageIdx
           /\ IsFiniteSet(Span(b, o)) /\ Cardinality(Span(b, o)) = Size[o]
<1>1. b \in Nat /\ Size[o] \in Nat /\ Size[o] >= 1 /\ NPages \in Nat /\ b + Size[o] <= NPages
  BY Sizes DEF PageIdx, Orders, Fits
<1>2. Span(b, o) \subseteq PageIdx
  BY <1>1 DEF Span, PageIdx
<1>3. b \in Int /\ b + Size[o] - 1 \in Int /\ b + Size[o] - 1 >= b
  BY <1>1
<1>4. IsFiniteSet(b..(b + Size[o] - 1)) /\ Cardinality(b..(b + Size[o] - 1)) = (b + Size[o] - 1) - b + 1
  BY <1>3, FS_Interval
<1> QED  BY <1>1, <1>2, <1>4 DEF Span

\* No free page is in a block that starts elsewhere than the free blocks do.
LEMMA FreeApart ==
    ASSUME IInv, NEW b \in PageIdx, NEW o \in Orders, IsBlock(b, o),
           \A r \in Orders : ~IsFree(b, r)
    PROVE  Span(b, o) \cap Free = {}
<1> SUFFICES ASSUME NEW p \in Span(b, o), NEW q \in PageIdx, NEW r \in Orders,
                    IsFree(q, r), p \in Span(q, r)
             PROVE  FALSE
  BY DEF Free
<1>1. q # b /\ IsBlock(q, r)
  BY DEF IsFree, IsBlock
<1>2. o \in 0..(MaxOrder + 1) /\ r \in 0..(MaxOrder + 1)
  BY DEF Orders
<1>3. Span(b, o) \cap Span(q, r) = {}
  BY <1>1, <1>2, BlocksDisjoint
<1> QED  BY <1>3

\* buddy_alloc_inner takes exactly the pages of the block it serves.
LEMMA FreeServed ==
    ASSUME IInv, NEW b \in PageIdx, NEW o \in Orders, b \in freeList[o],
           freeList' = [freeList EXCEPT ![o] = @ \ {b}], outer' = outer
    PROVE  Span(b, o) \subseteq Free /\ Free' = Free \ Span(b, o)
<1>1. Orders \subseteq 0..(MaxOrder + 1)
  BY DEF Orders
<1>2. /\ freeList'[o] = freeList[o] \ {b}
      /\ \A r \in Orders : r # o => freeList'[r] = freeList[r]
  BY <1>1, Types
<1>3. \A r \in Orders : IsFree(b, r) => r = o
  BY FreeOnce DEF IsFree
<1>4. \A q \in PageIdx, r \in Orders : IsFree(q, r)' <=> IsFree(q, r) /\ q # b
  <2> TAKE q \in PageIdx, r \in Orders
  <2>1. q \in freeList'[r] <=> q \in freeList[r] /\ ~(q = b /\ r = o)
    BY <1>2
  <2>2. IsOuter(q, r)' <=> IsOuter(q, r)
    BY DEF IsOuter
  <2>3. q = b => ~IsOuter(q, r) /\ (q \in freeList[r] => r = o)
    BY FreeOnce
  <2> QED  BY <2>1, <2>2, <2>3 DEF IsFree
<1>5. IsFree(b, o) /\ IsBlock(b, o) /\ o \in 0..(MaxOrder + 1)
  BY <1>1 DEF IsFree, IsBlock
<1>6. Fits(b, o)
  BY <1>5 DEF IInv, Placed
<1>7. Span(b, o) \subseteq Free
  BY <1>5, <1>6, SpanPages DEF Free
<1>8. \A p \in Free' : p \in Free /\ p \notin Span(b, o)
  <2> SUFFICES ASSUME NEW p \in PageIdx, NEW q \in PageIdx, NEW r \in Orders,
                      IsFree(q, r)', p \in Span(q, r)
               PROVE  p \in Free /\ p \notin Span(b, o)
    BY DEF Free
  <2>1. IsFree(q, r) /\ q # b /\ IsBlock(q, r) /\ r \in 0..(MaxOrder + 1)
    BY <1>1, <1>4 DEF IsFree, IsBlock
  <2>2. Span(b, o) \cap Span(q, r) = {}
    BY <1>5, <2>1, BlocksDisjoint
  <2> QED  BY <2>1, <2>2 DEF Free
<1>9. \A p \in Free : p \notin Span(b, o) => p \in Free'
  <2> SUFFICES ASSUME NEW p \in PageIdx, NEW q \in PageIdx, NEW r \in Orders,
                      IsFree(q, r), p \in Span(q, r), p \notin Span(b, o)
               PROVE  \E c \in PageIdx, k \in Orders : IsFree(c, k)' /\ p \in Span(c, k)
    BY DEF Free
  <2>1. q # b
    BY <1>3
  <2> QED  BY <1>4, <2>1
<1> QED  BY <1>7, <1>8, <1>9

\* What a step does to the free pages, to buddy_free_pages and to the blocks that
\* callers own.
LEMMA FreeStep ==
    ASSUME SafeUse, IInv, [Next]_vars
    PROVE  \/ /\ Free' = Free /\ freePages' = freePages
              /\ \A q \in PageIdx, r \in Orders : Owned(q, r) => Owned(q, r)'
           \/ \E b \in PageIdx, o \in Orders :
                /\ Fits(b, o) /\ Span(b, o) \subseteq Free /\ Free' = Free \ Span(b, o)
                /\ freePages' = freePages - Size[o] /\ Owned(b, o)'
                /\ \A q \in PageIdx, r \in Orders : Owned(q, r) => Owned(q, r)'
           \/ \E b \in PageIdx, o \in Orders :
                /\ Fits(b, o) /\ Span(b, o) \cap Free = {} /\ Free' = Free \cup Span(b, o)
                /\ freePages' = freePages + Size[o]
                /\ \A q \in PageIdx, r \in Orders : Owned(q, r) => Owned(q, r)' \/ (q = b /\ r = o)
<1> DEFINE Kept == \A q \in PageIdx, r \in Orders : Owned(q, r) => Owned(q, r)'
<1>1. ASSUME UNCHANGED <<freeList, outer, freePages, held, staged, order>>
      PROVE  Free' = Free /\ freePages' = freePages /\ Kept
  BY <1>1, FreeSame DEF Owned, IsStaged
<1>2. ASSUME phase # "idle", UNCHANGED <<held, staged>> PROVE Kept
  BY <1>2, NothingStaged DEF Owned, IsStaged
<1>3. CASE UNCHANGED vars \/ Halted
  BY <1>1, <1>3 DEF vars, Halted
<1>4. CASE Miss \/ \E t \in Threads, n \in Requests : buddy_alloc(t, n)
  BY <1>1, <1>4 DEF Miss, buddy_alloc, lists, owners
<1>5. CASE buddy_alloc_inner
  <2>1. PICK b \in freeList[want] :
          \/ order[b] # want
          \/ /\ freeList' = [freeList EXCEPT ![want] = @ \ {b}]
             /\ freePages' = freePages - Size[want]
             /\ held' = held \cup {<<b, want>>}
             /\ UNCHANGED <<order, staged, outer, halt>>
    BY <1>5 DEF buddy_alloc_inner
  <2>2. b \in PageIdx /\ want \in Orders /\ order[b] = want /\ Fits(b, want)
    <3>1. b \in PageIdx /\ want \in Orders /\ want \in 0..(MaxOrder + 1)
      BY Types
    <3> QED  BY <3>1, FreeOnce DEF IInv, Placed, IsBlock
  <2>3. Span(b, want) \subseteq Free /\ Free' = Free \ Span(b, want)
    BY <2>1, <2>2, FreeServed
  <2>4. Kept
    BY <2>1, <2>2 DEF Owned, IsStaged
  <2>5. PICK w \in Orders : w = want
    BY <2>2
  <2>6. Owned(b, w)'
    BY <2>1, <2>2, <2>5 DEF Owned
  <2>7. /\ Fits(b, w) /\ Span(b, w) \subseteq Free /\ Free' = Free \ Span(b, w)
        /\ freePages' = freePages - Size[w]
    BY <2>1, <2>2, <2>3, <2>5
  <2> QED  BY <2>2, <2>4, <2>6, <2>7
<1>6. CASE merge_blocks
  <2>1. phase = "merge" /\ UNCHANGED <<owners, lock, want, outer, halt>> /\ level <= want
        /\ level \in Orders /\ want \in Orders
    BY <1>6, Types DEF merge_blocks, IInv, Control
  <2>2. Kept
    BY <1>2, <2>1 DEF owners
  <2>3. CASE \E b \in freeList[level] : level # want /\ Mergeable(b, level) /\ Merge(b)
    <3>1. level < want
      BY <2>1, <2>3 DEF Orders
    <3>2. freePages' = freePages
      BY <2>3 DEF Merge
    <3> QED  BY <2>1, <2>2, <2>3, <3>1, <3>2, FreeMerge
  <2>4. CASE UNCHANGED lists
    BY <2>1, <2>2, <2>4, FreeSame DEF lists
  <2> QED  BY <1>6, <2>3, <2>4 DEF merge_blocks
<1>7. CASE split_blocks
  <2>1. phase = "split" /\ UNCHANGED <<held, staged>> /\ level \in Orders /\ want \in Orders
    BY <1>7, Types DEF split_blocks, owners
  <2>2. Kept
    BY <1>2, <2>1
  <2>3. CASE UNCHANGED lists /\ outer' = outer
    BY <2>2, <2>3, FreeSame DEF lists
  <2>4. ASSUME level > want, NEW b \in freeList[level], Halve(b, level), outer' = outer
        PROVE  Free' = Free /\ freePages' = freePages
    <3>1. b \in PageIdx /\ IsFree(b, level) /\ level >= 1
      BY <2>1, <2>4, Types DEF IsFree, Orders
    <3> QED  BY <2>1, <2>4, <3>1, FreeHalve DEF Halve
  <2>5. ASSUME NEW b \in freeList[level], outer = None,
               freeList' = [freeList EXCEPT ![level] = @ \ {b}],
               outer' = [want |-> want, level |-> level, block |-> b],
               UNCHANGED freePages
        PROVE  Free' = Free /\ freePages' = freePages
    <3>1. b \in PageIdx /\ Orders \subseteq 0..(MaxOrder + 1)
      BY <2>1, <2>5, Types DEF Orders
    <3>2. outer' # None /\ outer'.block = b /\ outer'.level = level
      <4>1. outer' \in Frames /\ outer'.block = b /\ outer'.level = level
        BY <2>1, <2>5, <3>1 DEF Frames
      <4> QED  BY <4>1, NoneAssumption, Zenon DEF NoneAssumption
    <3>3. /\ freeList'[level] = freeList[level] \ {b}
          /\ \A r \in Orders : r # level => freeList'[r] = freeList[r]
      BY <2>1, <2>5, <3>1, Types
    <3>4. \A q \in PageIdx, r \in Orders : IsFree(q, r)' <=> IsFree(q, r)
      <4> TAKE q \in PageIdx, r \in Orders
      <4>1. ~IsOuter(q, r) /\ (IsOuter(q, r)' <=> q = b /\ r = level)
        BY <2>5, <3>2 DEF IsOuter
      <4>2. q \in freeList[r] <=> q \in freeList'[r] \/ (q = b /\ r = level)
        BY <2>5, <3>3
      <4> QED  BY <4>1, <4>2 DEF IsFree
    <3> QED  BY <2>5, <3>4 DEF Free
  <2>6. \A b \in freeList[level] : order[b] = level
    BY <2>1, Types, FreeOnce
  <2> QED  BY <1>7, <2>1, <2>2, <2>3, <2>4, <2>5, <2>6 DEF split_blocks, lists
<1>8. CASE resume
  <2>1. phase = "resume" /\ outer # None /\ UNCHANGED <<held, staged>>
    BY <1>8 DEF resume, IInv, Control, owners
  <2>2. Kept
    BY <1>2, <2>1
  <2>3. CASE UNCHANGED <<lists, outer>>
    BY <2>2, <2>3, FreeSame DEF lists
  <2>4. CASE Halve(outer.block, outer.level) /\ outer' = None
    <3>1. outer.block \in PageIdx /\ outer.level \in Orders /\ want < outer.level /\ want \in Orders
      BY <2>1, OuterFacts, Types
    <3>2. PICK b \in PageIdx, o \in Orders : b = outer.block /\ o = outer.level
      BY <3>1
    <3>3. o >= 1 /\ IsFree(b, o) /\ Halve(b, o)
      BY <2>1, <2>4, <3>1, <3>2 DEF IsFree, IsOuter, Orders
    <3>4. Free' = Free
      BY <2>1, <2>4, <3>2, <3>3, FreeHalve
    <3> QED  BY <2>2, <3>3, <3>4 DEF Halve
  <2> QED  BY <1>8, <2>3, <2>4 DEF resume, lists
<1>9. CASE \E t \in Threads, h \in held : buddy_free(t, h[1], h[2])
  <2>1. PICK t \in Threads, b \in PageIdx, o \in Orders :
          /\ staged[t] = None /\ <<b, o>> \in held
          /\ staged' = [staged EXCEPT ![t] = b]
          /\ held' = held \ {<<b, o>>}
          /\ UNCHANGED <<order, freeList, freePages, outer>>
    BY <1>9, Types DEF buddy_free, running
  <2>2. order[b] = o
    BY <2>1 DEF IInv, Descriptors
  <2>3. Kept
    <3> SUFFICES ASSUME NEW q \in PageIdx, NEW r \in Orders, Owned(q, r) PROVE Owned(q, r)'
      OBVIOUS
    <3>1. staged'[t] = b /\ \A u \in Threads : u = t
      BY <2>1 DEF SafeUse, IInv, TypeOK
    <3>2. ~IsStaged(q)
      BY <2>1, <3>1, NoneAssumption DEF IsStaged, NoneAssumption
    <3>3. <<q, r>> \in held
      BY <3>2 DEF Owned
    <3>4. CASE q = b /\ r = o
      BY <3>1, <3>4, <2>1, <2>2 DEF Owned, IsStaged
    <3>5. CASE ~(q = b /\ r = o)
      <4>1. <<q, r>> \in held'
        BY <2>1, <3>3, <3>5
      <4> QED  BY <4>1 DEF Owned
    <3> QED  BY <3>4, <3>5
  <2> QED  BY <2>1, <2>3, FreeSame
<1>10. CASE \E t \in Threads : buddy_free_commit(t)
  <2>1. PICK t \in Threads : /\ lock = None /\ staged[t] # None
                             /\ staged' = [staged EXCEPT ![t] = None]
                             /\ freePages' = freePages + Size[order[staged[t]]]
                             /\ freeList' = [freeList EXCEPT ![order[staged[t]]] = @ \cup {staged[t]}]
                             /\ UNCHANGED <<order, held, outer>>
    BY <1>10 DEF buddy_free_commit, running
  <2>2. PICK b \in PageIdx : b = staged[t]
    BY <2>1 DEF IInv, TypeOK
  <2>3. PICK o \in 0..(MaxOrder + 1) : o = order[b]
    BY Types
  <2>4. IsStaged(b) /\ IsBlock(b, o) /\ o \in Orders /\ Fits(b, o) /\ outer = None
    <3>1. IsStaged(b) /\ IsBlock(b, o) /\ outer = None
      BY <2>1, <2>2, <2>3 DEF IsStaged, IsBlock, IInv, Control
    <3> QED  BY <3>1, BlockOrder DEF IInv, Placed
  <2>5. \A r \in Orders : ~IsFree(b, r)
    <3>1. b \notin freeList[order[b]]
      BY <2>4 DEF IInv, Descriptors
    <3> QED  BY <2>4, <3>1, FreeOnce DEF IsFree, IsOuter
  <2>6. Span(b, o) \cap Free = {}
    BY <2>4, <2>5, FreeApart
  <2>7. \A q \in PageIdx, r \in Orders : IsFree(q, r)' <=> IsFree(q, r) \/ (q = b /\ r = o)
    <3>1. /\ freeList'[o] = freeList[o] \cup {b}
          /\ \A r \in Orders : r # o => freeList'[r] = freeList[r]
      BY <2>1, <2>2, <2>3, Types DEF Orders
    <3> QED  BY <2>1, <2>4, <3>1 DEF IsFree, IsOuter
  <2>8. Free' = Free \cup Span(b, o)
    <3>1. Span(b, o) \subseteq PageIdx
      BY <2>4, SpanPages
    <3> QED  BY <2>4, <2>7, <3>1 DEF Free
  <2>9. \A q \in PageIdx, r \in Orders : Owned(q, r) => Owned(q, r)' \/ (q = b /\ r = o)
    <3>1. \A u \in Threads : u = t
      BY DEF SafeUse
    <3> TAKE q \in PageIdx, r \in Orders
    <3>2. <<q, r>> \in held => Owned(q, r)'
      BY <2>1 DEF Owned
    <3>3. IsStaged(q) => q = b
      BY <2>2, <3>1 DEF IsStaged
    <3> QED  BY <2>3, <3>2, <3>3 DEF Owned
  <2> QED  BY <2>1, <2>2, <2>3, <2>4, <2>6, <2>8, <2>9
<1> QED  BY <1>3, <1>4, <1>5, <1>6, <1>7, <1>8, <1>9, <1>10 DEF Next

\* Cardinalities under the two changes of the free pages.
LEMMA CountStep ==
    ASSUME NEW S, IsFiniteSet(S), NEW T, IsFiniteSet(T)
    PROVE  /\ T \subseteq S => Cardinality(S \ T) = Cardinality(S) - Cardinality(T)
           /\ T \cap S = {} => Cardinality(S \cup T) = Cardinality(S) + Cardinality(T)
<1>1. Cardinality(S) \in Nat /\ Cardinality(T) \in Nat
  BY FS_CardinalityType
<1>2. ASSUME T \subseteq S PROVE Cardinality(S \ T) = Cardinality(S) - Cardinality(T)
  <2>1. S \cap T = T
    BY <1>2
  <2> QED  BY <2>1, FS_Difference
<1>3. ASSUME T \cap S = {} PROVE Cardinality(S \cup T) = Cardinality(S) + Cardinality(T)
  <2>1. S \cap T = {}
    BY <1>3
  <2>2. Cardinality(S \cap T) = 0
    BY <2>1, FS_EmptySet
  <2> QED  BY <1>1, <2>2, FS_Union
<1> QED  BY <1>2, <1>3

LEMMA FreeFinite == IsFiniteSet(Free) /\ Free \subseteq PageIdx
<1>1. IsFiniteSet(PageIdx)
  BY Sizes, FS_Interval DEF PageIdx
<1> QED  BY <1>1, FS_Subset DEF Free

LEMMA LeastExists ==
    ASSUME NEW T, T \subseteq Nat, T # {}
    PROVE  \E x \in T : \A y \in T : x <= y
<1>1. \E x \in T : \A y \in T : ~(<<y, x>> \in OpToRel(<, Nat))
  BY NatLessThanWellFounded, WFMin
<1>2. \E x \in T : \A y \in T : ~(y < x)
  BY <1>1 DEF OpToRel
<1> QED  BY <1>2

\* The multiple of s below p.
LEMMA Quotient ==
    ASSUME NEW p \in Nat, NEW s \in Nat, s >= 1
    PROVE  \E m \in Nat : m * s <= p /\ p <= m * s + s - 1
<1> DEFINE T == {k \in Nat : p < k * s}
<1>1. p + 1 \in T
  <2>1. (p + 1) * s = p * s + s /\ p * s >= p
    <3>1. PICK d \in Nat : s = d + 1
      BY s - 1 \in Nat
    <3>2. p * s = p * d + p /\ p * d \in Nat
      BY <3>1
    <3> QED  BY <3>2
  <2> QED  BY <2>1
<1>2. PICK k \in T : \A y \in T : k <= y
  <2>1. T \subseteq Nat /\ T # {}
    BY <1>1
  <2> HIDE DEF T
  <2> QED  BY <2>1, LeastExists
<1>3. k \in Nat /\ p < k * s /\ k # 0
  BY <1>2
<1>4. PICK m \in Nat : k = m + 1
  BY <1>3, k - 1 \in Nat
<1>5. m \notin T
  <2>1. ~(k <= m)
    BY <1>4
  <2> HIDE DEF T
  <2> QED  BY <1>2, <2>1
<1>6. k * s = m * s + s /\ m * s \in Nat
  BY <1>4
<1> QED  BY <1>3, <1>5, <1>6

\* Every page is in a block that starts at the multiple of the blob size below it.
LEMMA InitFree == Init => Free = PageIdx
<1> SUFFICES ASSUME Init, NEW p \in PageIdx PROVE p \in Free
  BY DEF Free
<1>1. PICK s \in Nat : s = Size[MaxOrder] /\ s >= 1
  BY Sizes DEF Orders
<1>2. PICK m \in Nat : m * s <= p /\ p <= m * s + s - 1
  <2>1. p \in Nat
    BY DEF PageIdx
  <2> QED  BY <1>1, <2>1, Quotient
<1>3. PICK b : b = m * s
  OBVIOUS
<1>4. b \in Nat /\ b <= p /\ p <= b + s - 1 /\ m <= b
  <2>1. PICK d \in Nat : s = d + 1
    BY <1>1, s - 1 \in Nat
  <2>2. m * s = m * d + m /\ m * d \in Nat
    BY <2>1
  <2> QED  BY <1>2, <1>3, <2>2
<1>5. b \in PageIdx /\ Aligned(b, MaxOrder)
  BY <1>1, <1>3, <1>4, Sizes DEF PageIdx, Aligned
<1>6. b \in freeList[MaxOrder] /\ MaxOrder \in Orders
  BY <1>5 DEF Init, Orders
<1>7. p \in Span(b, MaxOrder)
  BY <1>1, <1>4 DEF Span, PageIdx
<1> QED  BY <1>5, <1>6, <1>7 DEF Free, IsFree

\* Free pages are counted, and a page that is not free is in somebody's block.
LEMMA Complete ==
    ASSUME SafeUse
    PROVE  Spec => [](IInv /\ Counted /\ Covered)
<1>1. Init => Counted /\ Covered
  <2> SUFFICES ASSUME Init PROVE Counted /\ Covered
    OBVIOUS
  <2>1. Free = PageIdx
    BY InitFree
  <2>2. Cardinality(PageIdx) = NPages
    BY Sizes, FS_Interval DEF PageIdx
  <2> QED  BY <2>1, <2>2 DEF Init, Counted, Covered
<1>2. IInv /\ Counted /\ Covered /\ [Next]_vars => Counted' /\ Covered'
  <2> SUFFICES ASSUME IInv, Counted, Covered, [Next]_vars PROVE Counted' /\ Covered'
    OBVIOUS
  <2>1. CASE /\ Free' = Free /\ freePages' = freePages
             /\ \A q \in PageIdx, r \in Orders : Owned(q, r) => Owned(q, r)'
    BY <2>1 DEF Counted, Covered
  <2>2. ASSUME NEW b \in PageIdx, NEW o \in Orders,
               Fits(b, o), Span(b, o) \subseteq Free, Free' = Free \ Span(b, o),
               freePages' = freePages - Size[o], Owned(b, o)',
               \A q \in PageIdx, r \in Orders : Owned(q, r) => Owned(q, r)'
        PROVE  Counted' /\ Covered'
    <3>1. Cardinality(Free') = Cardinality(Free) - Size[o]
      BY <2>2, SpanPages, FreeFinite, CountStep
    <3> QED  BY <2>2, <3>1 DEF Counted, Covered
  <2>3. ASSUME NEW b \in PageIdx, NEW o \in Orders,
               Fits(b, o), Span(b, o) \cap Free = {}, Free' = Free \cup Span(b, o),
               freePages' = freePages + Size[o],
               \A q \in PageIdx, r \in Orders : Owned(q, r) => Owned(q, r)' \/ (q = b /\ r = o)
        PROVE  Counted' /\ Covered'
    <3>1. Cardinality(Free') = Cardinality(Free) + Size[o]
      BY <2>3, SpanPages, FreeFinite, CountStep
    <3> QED  BY <2>3, <3>1 DEF Counted, Covered
  <2> QED  BY <2>1, <2>2, <2>3, FreeStep
<1> QED  BY <1>1, <1>2, Invariance, PTL DEF Spec

\* No page is lost: a page that no list covers belongs to a caller, to a thread
\* that frees it or to the split in progress, whatever was merged and split.
THEOREM PagesKept ==
    ASSUME SafeUse
    PROVE  Spec => []NoPageLost
<1>1. ASSUME IInv, Covered, NEW p \in PageIdx
      PROVE  \E x \in Listed \cup OffList \cup InUse : p \in Span(x[1], x[2])
  <2>1. PICK b \in PageIdx, o \in Orders : (IsFree(b, o) \/ Owned(b, o)) /\ p \in Span(b, o)
    BY <1>1 DEF Covered, Free
  <2>2. <<b, o>> \in Listed \cup OffList \cup InUse
    <3>1. CASE b \in freeList[o]
      BY <3>1 DEF Listed, Orders
    <3>2. CASE IsOuter(b, o)
      BY <3>2 DEF IsOuter, OffList
    <3>3. CASE <<b, o>> \in held
      BY <3>3 DEF InUse
    <3>4. CASE IsStaged(b) /\ o = order[b]
      <4>1. PICK t \in Threads : staged[t] = b
        BY <3>4 DEF IsStaged
      <4>2. b # None
        BY NoneAssumption DEF NoneAssumption
      <4> QED  BY <3>4, <4>1, <4>2 DEF InUse, Staged
    <3> QED  BY <2>1, <3>1, <3>2, <3>3, <3>4 DEF IsFree, Owned
  <2> QED  BY <2>1, <2>2
<1>2. IInv /\ Covered => NoPageLost
  BY <1>1 DEF NoPageLost
<1> QED  BY <1>2, Complete, PTL

\* buddy_free_pages is the number of free pages whenever the lock is free, though
\* allocation, splitting and both parts of buddy_free touch it or the lists alone.
THEOREM PagesCounted ==
    ASSUME SafeUse
    PROVE  Spec => []Accounting
<1>1. ASSUME IInv, Counted, lock = None
      PROVE  freePages = Cardinality({p \in PageIdx : \E x \in Listed : p \in Span(x[1], x[2])})
  <2>1. outer = None
    BY <1>1 DEF IInv, Control
  <2>2. \A p \in PageIdx : p \in Free => \E x \in Listed : p \in Span(x[1], x[2])
    <3> SUFFICES ASSUME NEW p \in PageIdx, NEW b \in PageIdx, NEW o \in Orders,
                        IsFree(b, o), p \in Span(b, o)
                 PROVE  \E x \in Listed : p \in Span(x[1], x[2])
      BY DEF Free
    <3>1. <<b, o>> \in Listed
      BY <2>1 DEF IsFree, IsOuter, Listed, Orders
    <3> QED  BY <3>1
  <2>3. \A p \in PageIdx : (\E x \in Listed : p \in Span(x[1], x[2])) => p \in Free
    <3> SUFFICES ASSUME NEW p \in PageIdx, NEW x \in Listed, p \in Span(x[1], x[2])
                 PROVE  p \in Free
      OBVIOUS
    <3>1. PICK b \in PageIdx, o \in 0..(MaxOrder + 1) : x = <<b, o>> /\ b \in freeList[o]
      BY DEF Listed
    <3>2. IsFree(b, o) /\ o \in Orders
      BY <1>1, <3>1, BlockOrder DEF IsFree, IsBlock
    <3> QED  BY <3>1, <3>2 DEF Free
  <2>4. Free = {p \in PageIdx : \E x \in Listed : p \in Span(x[1], x[2])}
    BY <2>2, <2>3 DEF Free
  <2> QED  BY <1>1, <2>4 DEF Counted
<1>2. IInv /\ Counted => Accounting
  BY <1>1 DEF Accounting
<1> QED  BY <1>2, Complete, PTL

-----------------------------------------------------------------------------
(* NULL means fragmented: what is left after merging and splitting. *)

\* A larger block is a number of smaller ones.
LEMMA SizeDivides ==
    ASSUME NEW r \in Orders, NEW k \in Orders, r <= k
    PROVE  \E m \in Nat : Size[k] = m * Size[r]
<1> DEFINE T == {o \in Orders : r <= o /\ ~\E m \in Nat : Size[o] = m * Size[r]}
<1> SUFFICES ASSUME T # {} PROVE FALSE
  OBVIOUS
<1>1. T \subseteq Nat
  BY DEF Orders
<1>2. PICK o \in T : \A q \in T : o <= q
  <2> HIDE DEF T
  <2> QED  BY <1>1, LeastExists
<1>3. o \in Orders /\ r <= o /\ Size[r] \in Nat
  BY <1>2, Sizes DEF Orders
<1>4. CASE o = r
  <2>1. Size[o] = 1 * Size[r] /\ 1 \in Nat
    BY <1>3, <1>4
  <2> QED  BY <1>2, <2>1
<1>5. CASE o # r
  <2>1. o - 1 \in Orders /\ r <= o - 1 /\ ~(o <= o - 1) /\ (o - 1) + 1 = o
    BY <1>3, <1>5 DEF Orders
  <2>2. o - 1 \notin T
    <3> HIDE DEF T
    <3> QED  BY <1>2, <2>1
  <2>3. PICK m \in Nat : Size[o - 1] = m * Size[r]
    BY <2>1, <2>2
  <2>4. Size[o] = 2 * Size[o - 1]
    BY <2>1, Sizes
  <2>5. 2 * (m * Size[r]) = (2 * m) * Size[r] /\ 2 * m \in Nat
    BY <1>3
  <2> QED  BY <1>2, <2>3, <2>4, <2>5
<1> QED  BY <1>4, <1>5

\* A multiple of a block size is aligned to it.
LEMMA MultipleAligned ==
    ASSUME NEW o \in Orders, NEW k \in Nat
    PROVE  Aligned(k * Size[o], o)
<1>1. PICK s \in Nat : s = Size[o] /\ s >= 1
  BY Sizes DEF Orders
<1>2. PICK d \in Nat : s = d + 1
  BY <1>1, s - 1 \in Nat
<1>3. k * Size[o] = k * d + k /\ k * d \in Nat
  BY <1>1, <1>2
<1> QED  BY <1>3 DEF Aligned

\* Of two aligned blocks that share a page the smaller lies in the larger.
LEMMA Nested ==
    ASSUME NEW r \in Orders, NEW k \in Orders, r <= k, NEW p \in Nat, NEW q \in Nat,
           Aligned(p, r), Aligned(q, k), Span(p, r) \cap Span(q, k) # {}
    PROVE  q <= p /\ p + Size[r] <= q + Size[k]
<1>1. Size[r] \in Nat /\ Size[r] >= 1 /\ Size[k] \in Nat /\ Size[k] >= 1
  BY Sizes DEF Orders
<1>2. p < q + Size[k] /\ q < p + Size[r]
  <2>1. PICK x : x \in p..(p + Size[r] - 1) /\ x \in q..(q + Size[k] - 1)
    BY DEF Span
  <2> QED  BY <1>1, <2>1
<1>3. PICK m \in Nat : Size[k] = m * Size[r]
  BY SizeDivides
<1>4. PICK i \in Nat : q = i * Size[k]
  BY DEF Aligned
<1>5. q = (i * m) * Size[r] /\ q + Size[k] = (i * m + m) * Size[r]
  BY <1>1, <1>3, <1>4
<1>6. Aligned(q, r) /\ Aligned(q + Size[k], r)
  <2>1. i * m \in Nat /\ i * m + m \in Nat
    OBVIOUS
  <2>2. Aligned((i * m) * Size[r], r) /\ Aligned((i * m + m) * Size[r], r)
    BY <2>1, MultipleAligned
  <2> QED  BY <1>5, <2>2
<1>7. q <= p
  <2> SUFFICES ASSUME p < q PROVE FALSE
    OBVIOUS
  <2>1. p + Size[r] <= q
    BY <1>6, MultiplesApart
  <2> QED  BY <1>1, <1>2, <2>1
<1>8. p + Size[r] <= q + Size[k]
  <2>1. q + Size[k] \in Nat
    BY <1>1
  <2> QED  BY <1>2, <1>6, <2>1, MultiplesApart
<1> QED  BY <1>7, <1>8

\* A list that is left alone, with its page descriptors, has the pairs it had.
LEMMA PairsSame ==
    ASSUME UNCHANGED <<freeList, order, private>>, NEW i, NoPair(i)
    PROVE  NoPair(i)'
  BY DEF NoPair, Mergeable

\* Joining two blocks makes no new pair below their order.
LEMMA PairsBelow ==
    ASSUME IInv, phase = "merge", level < want,
           NEW b \in freeList[level], Mergeable(b, level), Merge(b),
           UNCHANGED <<owners, lock, want, outer, halt>>,
           NEW i \in 0..(level - 1), NoPair(i)
    PROVE  NoPair(i)'
<1>1. PICK lo \in PageIdx, hi \in PageIdx :
        /\ lo \in freeList[level] /\ hi \in freeList[level]
        /\ private' = private \ {hi}
        /\ order' = [order EXCEPT ![hi] = MaxOrder + 1, ![lo] = level + 1]
        /\ freeList' = [freeList EXCEPT ![level] = @ \ {lo, hi},
                                        ![level + 1] = @ \cup {lo}]
  BY MergeEffect
<1>2. level \in Nat /\ level + 1 \in Nat /\ MaxOrder + 1 > i /\ i < level /\ i \in Orders
      /\ i \in 0..(MaxOrder + 1)
  BY Types DEF Orders
<1>3. freeList'[i] = freeList[i]
  BY <1>1, <1>2, Types
<1>4. order'[hi] # i /\ order'[lo] # i /\ \A p \in PageIdx : p # lo /\ p # hi => order'[p] = order[p]
  BY <1>1, <1>2, Types
<1> SUFFICES ASSUME NEW q \in freeList'[i], Mergeable(q, i)' PROVE FALSE
  BY DEF NoPair
<1>5. q \in freeList[i] /\ q \in PageIdx /\ order[q] = i
  BY <1>2, <1>3, Types, FreeOnce
<1>6. q # lo /\ q # hi
  BY <1>1, <1>2, <1>5, Types, FreeOnce
<1>7. order'[q] = order[q]
  BY <1>4, <1>5, <1>6
<1>8. PICK c : c = get_buddy_addr(q, order[q])
  OBVIOUS
<1>9. c \in private' /\ order'[c] = i
  BY <1>7, <1>8 DEF Mergeable
<1>10. c \in private /\ c \in PageIdx /\ c # lo /\ c # hi
  BY <1>1, <1>4, <1>9, Types
<1>11. order[c] = i
  BY <1>4, <1>9, <1>10
<1> QED  BY <1>5, <1>8, <1>10, <1>11 DEF NoPair, Mergeable

\* The loops establish what Exhausted says of each phase.
LEMMA ExhaustedStep ==
    ASSUME SafeUse, IInv, Exhausted, [Next]_vars
    PROVE  Exhausted'
<1>1. want \in Orders /\ level \in Orders /\ Orders \subseteq Nat
  BY Types DEF Orders
<1>2. CASE UNCHANGED <<freeList, order, private, phase, want, level>>
  BY <1>2, PairsSame DEF Exhausted
<1>3. CASE phase' \in {"idle", "first", "resume"}
  BY <1>3 DEF Exhausted
<1>4. CASE Miss
  <2>1. UNCHANGED <<freeList, order, private>>
    BY <1>4 DEF Miss, lists
  <2>2. CASE phase = "first" /\ phase' = "merge" /\ level' = 0
    BY <2>2 DEF Exhausted
  <2>3. CASE phase = "second" /\ want' = want
    <3>1. \A i \in 0..(want - 1) : NoPair(i)'
      BY <2>1, <2>3, PairsSame DEF Exhausted
    <3>2. PICK S : S = {o \in Orders : o > want /\ freeList[o] # {}}
      OBVIOUS
    <3>3. IF S = {} THEN phase' = "third" ELSE phase' = "split" /\ level' \in S
      BY <1>4, <2>3, <3>2 DEF Miss
    <3>4. CASE S = {}
      BY <2>1, <2>3, <3>1, <3>2, <3>3, <3>4 DEF Exhausted
    <3>5. CASE S # {}
      BY <2>1, <3>2, <3>3, <3>5 DEF Exhausted
    <3> QED  BY <3>4, <3>5
  <2>4. CASE phase = "third"
    BY <1>3, <1>4, <2>4 DEF Miss, return
  <2> QED  BY <1>4, <2>2, <2>3, <2>4 DEF Miss
<1>5. CASE merge_blocks
  <2>1. /\ phase = "merge" /\ UNCHANGED <<owners, lock, want, outer, halt>> /\ level <= want
        /\ \A i \in 0..(level - 1) : NoPair(i)
    BY <1>5 DEF merge_blocks, IInv, Control, Exhausted
  <2>2. CASE level = want /\ phase' = "second" /\ UNCHANGED lists
    <3>1. \A i \in 0..(want - 1) : NoPair(i)'
      BY <2>1, <2>2, PairsSame DEF lists
    <3> QED  BY <2>1, <2>2, <3>1 DEF Exhausted
  <2>3. CASE \E b \in freeList[level] : level # want /\ Mergeable(b, level) /\ Merge(b)
    <3>1. level < want
      BY <1>1, <2>1, <2>3
    <3>2. UNCHANGED <<phase, level>>
      BY <2>3 DEF Merge
    <3>3. \A i \in 0..(level - 1) : NoPair(i)'
      BY <2>1, <2>3, <3>1, PairsBelow
    <3> QED  BY <2>1, <3>2, <3>3 DEF Exhausted
  <2>4. CASE NoPair(level) /\ level' = level + 1 /\ UNCHANGED <<lists, phase>>
    <3>1. \A i \in 0..level : NoPair(i)
      BY <1>1, <2>1, <2>4
    <3>2. \A i \in 0..level : NoPair(i)'
      BY <2>4, <3>1, PairsSame DEF lists
    <3> QED  BY <1>1, <2>1, <2>4, <3>2 DEF Exhausted
  <2> QED  BY <1>5, <2>2, <2>3, <2>4 DEF merge_blocks, NoPair
\* A block that was halved is on the list of its halves.
<1>6. ASSUME NEW b \in PageIdx, NEW o \in Orders, o >= 1, Halve(b, o), phase' = "split"
      PROVE  Exhausted'
  <2>1. o - 1 \in 0..(MaxOrder + 1) /\ level' = o - 1
    BY <1>6 DEF Halve, Orders
  <2>2. b \in freeList'[o - 1]
    BY <1>6, <2>1, Types DEF Halve
  <2> QED  BY <1>6, <2>1, <2>2 DEF Exhausted
<1>7. CASE split_blocks
  <2>1. phase = "split" /\ freeList[level] # {}
    BY <1>7 DEF split_blocks, Exhausted
  <2>2. CASE level = want /\ phase' = "third" /\ UNCHANGED <<lists, want>>
    BY <2>1, <2>2 DEF Exhausted, lists
  <2>3. CASE UNCHANGED <<lists, phase, want, level>>
    BY <1>2, <2>3 DEF lists
  <2>4. ASSUME level > want, NEW b \in freeList[level], Halve(b, level), phase' = phase
        PROVE  Exhausted'
    <3>1. b \in PageIdx /\ level >= 1
      BY <1>1, <2>4, Types
    <3> QED  BY <1>1, <1>6, <2>1, <2>4, <3>1
  <2> QED  BY <1>3, <1>7, <2>1, <2>2, <2>3, <2>4 DEF split_blocks
<1>8. CASE resume
  <2>1. phase = "resume" /\ outer # None
    BY <1>8 DEF resume, IInv, Control
  <2>2. CASE Halve(outer.block, outer.level) /\ phase' = "split"
    <3>1. PICK b \in PageIdx, o \in Orders : b = outer.block /\ o = outer.level /\ want < o
      BY <2>1, OuterFacts
    <3>2. o >= 1
      BY <1>1, <3>1 DEF Orders
    <3> QED  BY <1>6, <2>2, <3>1, <3>2
  <2> QED  BY <1>3, <1>8, <2>1, <2>2 DEF resume
<1>9. CASE buddy_alloc_inner
  <2>1. \A b \in freeList[want] : order[b] = want
    BY <1>1, Types, FreeOnce
  <2> QED  BY <1>3, <1>9, <2>1 DEF buddy_alloc_inner, return
<1>10. CASE \E t \in Threads, n \in Requests : buddy_alloc(t, n)
  BY <1>3, <1>10 DEF buddy_alloc
<1>11. CASE \E t \in Threads, h \in held : buddy_free(t, h[1], h[2])
  <2>1. lock = None /\ phase' = phase
    BY <1>11 DEF buddy_free, running, SafeUse, IInv, TypeOK
  <2> QED  BY <1>3, <2>1 DEF IInv, TypeOK
<1>12. CASE \E t \in Threads : buddy_free_commit(t)
  <2>1. lock = None /\ phase' = phase
    BY <1>12 DEF buddy_free_commit, running
  <2> QED  BY <1>3, <2>1 DEF IInv, TypeOK
<1>13. CASE UNCHANGED vars \/ Halted
  BY <1>2, <1>13 DEF vars, Halted
<1> QED  BY <1>4, <1>5, <1>7, <1>8, <1>9, <1>10, <1>11, <1>12, <1>13 DEF Next

\* A page of a free block of the region that no pair and no larger list is left in.
LEMMA NoRunLeft ==
    ASSUME IInv, NEW w \in Orders, freeList[w] = {},
           \A i \in 0..(w - 1) : NoPair(i), \A o \in Orders : o > w => freeList[o] = {},
           NEW b \in PageIdx, Aligned(b, w),
           \A p \in Span(b, w) : \E q \in PageIdx, o \in Orders : q \in freeList[o] /\ p \in Span(q, o)
    PROVE  FALSE
<1>1. /\ Orders \subseteq Nat /\ Orders \subseteq 0..(MaxOrder + 1) /\ PageIdx \subseteq Nat
      /\ \A o \in Orders : Size[o] \in Nat /\ Size[o] >= 1
  BY Sizes DEF Orders, PageIdx
\* All blocks are smaller than the run, so those that meet it lie inside it.
<1>2. \A q \in PageIdx, o \in Orders : q \in freeList[o] => o < w /\ Aligned(q, o) /\ IsBlock(q, o)
  <2> SUFFICES ASSUME NEW q \in PageIdx, NEW o \in Orders, q \in freeList[o]
               PROVE  o < w /\ Aligned(q, o) /\ IsBlock(q, o)
    OBVIOUS
  <2>1. ~(o > w) /\ o # w
    OBVIOUS
  <2>2. IsBlock(q, o)
    BY DEF IsBlock
  <2>3. Fits(q, o)
    BY <1>1, <2>2 DEF IInv, Placed
  <2> QED  BY <1>1, <2>1, <2>2, <2>3 DEF Fits
<1> DEFINE T == {o \in Orders : \E q \in PageIdx : q \in freeList[o] /\ Span(q, o) \cap Span(b, w) # {}}
<1>3. T \subseteq Nat /\ T # {}
  <2>1. b \in Span(b, w)
    BY <1>1 DEF Span
  <2>2. PICK q \in PageIdx, o \in Orders : q \in freeList[o] /\ b \in Span(q, o)
    BY <2>1
  <2>3. o \in T
    BY <2>1, <2>2
  <2> QED  BY <1>1, <2>3
<1>4. PICK r \in T : \A o \in T : r <= o
  <2> HIDE DEF T
  <2> QED  BY <1>3, LeastExists
<1>5. PICK q \in PageIdx : r \in Orders /\ q \in freeList[r] /\ Span(q, r) \cap Span(b, w) # {}
  BY <1>4
<1>6. r < w /\ Aligned(q, r) /\ IsBlock(q, r) /\ order[q] = r
  BY <1>2, <1>5, FreeOnce
<1>7. r < MaxOrder /\ r + 1 \in Orders /\ r + 1 <= w /\ Size[r + 1] = 2 * Size[r]
  BY <1>1, <1>5, <1>6, Sizes DEF Orders
\* The smallest of them and its buddy make a block of the next order in the run.
<1>8. PICK c \in PageIdx : /\ c = get_buddy_addr(q, r)
                           /\ \/ c = q + Size[r] /\ Aligned(q, r + 1)
                              \/ c = q - Size[r] /\ Aligned(c, r + 1)
  BY <1>5, <1>6, <1>7, BuddyFits
<1>9. PICK lo \in PageIdx : /\ Aligned(lo, r + 1)
                            /\ Span(lo, r + 1) = Span(q, r) \cup Span(c, r)
  <2>1. \A x \in Nat : Span(x, r + 1) = Span(x, r) \cup Span(x + Size[r], r)
    <3> TAKE x \in Nat
    <3>1. (r + 1) - 1 = r /\ r + 1 >= 1
      BY <1>1, <1>5
    <3>2. Span(x, r + 1) = Span(x, (r + 1) - 1) \cup Span(x + Size[(r + 1) - 1], (r + 1) - 1)
      BY <1>7, <3>1, SpanHalves
    <3> QED  BY <3>1, <3>2
  <2>2. CASE c = q + Size[r] /\ Aligned(q, r + 1)
    BY <1>1, <2>1, <2>2
  <2>3. CASE c = q - Size[r] /\ Aligned(c, r + 1)
    <3>1. q = c + Size[r]
      BY <1>1, <1>5, <2>3
    <3>2. Span(c, r + 1) = Span(c, r) \cup Span(q, r)
      BY <1>1, <2>1, <3>1
    <3> QED  BY <2>3, <3>2
  <2> QED  BY <1>8, <2>2, <2>3
<1>10. c \in Span(c, r) /\ q \in Span(q, r)
  BY <1>1, <1>5 DEF Span
<1>11. c \in Span(b, w)
  <2>1. Span(lo, r + 1) \cap Span(b, w) # {}
    BY <1>5, <1>9
  <2>2. b <= lo /\ lo + Size[r + 1] <= b + Size[w]
    BY <1>1, <1>7, <1>9, <2>1, Nested
  <2>3. c \in Span(lo, r + 1)
    BY <1>9, <1>10
  <2> QED  BY <1>1, <1>7, <2>2, <2>3 DEF Span
\* The buddy is covered by a block that is not smaller and not larger: itself.
<1>12. PICK d \in PageIdx, k \in Orders : d \in freeList[k] /\ c \in Span(d, k)
  BY <1>11
<1>13. Aligned(d, k) /\ IsBlock(d, k) /\ r <= k
  <2>1. k \in T
    BY <1>11, <1>12
  <2> HIDE DEF T
  <2> QED  BY <1>2, <1>4, <1>12, <2>1
<1>14. k = r
  <2> SUFFICES ASSUME k # r PROVE FALSE
    OBVIOUS
  <2>1. r + 1 <= k
    BY <1>1, <1>5, <1>13
  <2>2. c \in Span(lo, r + 1) /\ q \in Span(lo, r + 1)
    BY <1>9, <1>10
  <2>3. d <= lo /\ lo + Size[r + 1] <= d + Size[k]
    BY <1>1, <1>7, <1>9, <1>12, <1>13, <2>1, <2>2, Nested
  <2>4. q \in Span(d, k)
    BY <1>1, <1>7, <2>2, <2>3 DEF Span
  <2>5. d # q
    BY <1>6, <1>12, FreeOnce
  <2>6. Span(d, k) \cap Span(q, r) = {}
    BY <1>1, <1>5, <1>6, <1>13, <2>5, BlocksDisjoint
  <2> QED  BY <1>10, <2>4, <2>6
<1>15. d = c
  <2>1. c \in Nat /\ d \in Nat /\ q \in Nat /\ Size[r] \in Nat /\ r \in Orders
    BY <1>1, <1>5
  <2>2. r + 1 >= 1 /\ (r + 1) - 1 = r
    BY <1>1, <2>1
  <2>3. \A x \in Nat : Aligned(x, r + 1) => Aligned(x, r) /\ Aligned(x + Size[r], r)
    <3> SUFFICES ASSUME NEW x \in Nat, Aligned(x, r + 1)
                 PROVE  Aligned(x, r) /\ Aligned(x + Size[r], r)
      OBVIOUS
    <3>1. Aligned(x, (r + 1) - 1) /\ Aligned(x + Size[(r + 1) - 1], (r + 1) - 1)
      BY <1>7, <2>2, HalvesAligned
    <3> QED  BY <2>2, <3>1
  <2>4. Aligned(c, r)
    BY <1>8, <2>1, <2>3
  <2>5. c \in Span(d, r) /\ Aligned(d, r)
    BY <1>12, <1>13, <1>14
  <2>6. d <= c /\ c < d + Size[r]
    BY <2>1, <2>5 DEF Span
  <2>7. d < c => d + Size[r] <= c
    BY <2>1, <2>4, <2>5, MultiplesApart
  <2> QED  BY <2>1, <2>6, <2>7
<1>16. c \in private /\ order[c] = r
  BY <1>5, <1>12, <1>14, <1>15, FreeOnce
<1>17. Mergeable(q, r)
  BY <1>5, <1>6, <1>8, <1>16 DEF Mergeable
<1>18. r \in 0..(w - 1)
  BY <1>1, <1>5, <1>6
<1> QED  BY <1>5, <1>17, <1>18 DEF NoPair

\* buddy_alloc returns NULL only when no aligned run of the wanted size is free,
\* however the free pages are cut up: merge_blocks joined what could be joined.
THEOREM NullIsHonest ==
    ASSUME SafeUse
    PROVE  Spec => []NullMeansFragmented
<1>1. Init => Exhausted
  BY DEF Init, Exhausted
<1>2. IInv /\ Exhausted /\ [Next]_vars => Exhausted'
  BY ExhaustedStep
<1>3. IInv /\ Exhausted => NullMeansFragmented
  <2> SUFFICES ASSUME IInv, Exhausted, phase = "third", freeList[want] = {},
                      NEW b \in PageIdx, Aligned(b, want),
                      \A p \in Span(b, want) : \E x \in Listed : p \in Span(x[1], x[2])
               PROVE  FALSE
    BY DEF NullMeansFragmented
  <2>1. \A x \in Listed : \E q \in PageIdx, o \in Orders : x = <<q, o>> /\ q \in freeList[o]
    <3> TAKE x \in Listed
    <3>1. PICK q \in PageIdx, o \in 0..(MaxOrder + 1) : x = <<q, o>> /\ q \in freeList[o]
      BY DEF Listed
    <3>2. o \in Orders
      BY <3>1, BlockOrder DEF IsBlock
    <3> QED  BY <3>1, <3>2
  <2>2. \A p \in Span(b, want) : \E q \in PageIdx, o \in Orders : q \in freeList[o] /\ p \in Span(q, o)
    <3> TAKE p \in Span(b, want)
    <3>1. PICK x \in Listed : p \in Span(x[1], x[2])
      OBVIOUS
    <3>2. PICK q \in PageIdx, o \in Orders : x = <<q, o>> /\ q \in freeList[o]
      BY <2>1
    <3> QED  BY <3>1, <3>2
  <2>3. /\ \A i \in 0..(want - 1) : NoPair(i)
        /\ \A o \in Orders : o > want => freeList[o] = {}
        /\ want \in Orders
    BY Types DEF Exhausted
  <2> QED  BY <2>2, <2>3, NoRunLeft
<1> QED  BY <1>1, <1>2, <1>3, Invariance, PTL DEF Spec

==============================================================================
