-------------------------- MODULE VirtioBlk_proofs ---------------------------
(* Proofs about the virtio block driver and its device, for any number of    *)
(* harts, any size of the queue and any wrap of its indices.                 *)
EXTENDS VirtioBlk, FiniteSetTheorems, WellFoundedInduction, TLAPS

\* A set of naturals has a least element.
LEMMA LeastExists ==
    ASSUME NEW T, T \subseteq Nat, T # {}
    PROVE  \E x \in T : \A y \in T : x <= y
<1>1. \E x \in T : \A y \in T : ~(<<y, x>> \in OpToRel(<, Nat))
    BY NatLessThanWellFounded, WFMin
<1>2. \E x \in T : \A y \in T : ~(y < x)
    BY <1>1 DEF OpToRel
<1> QED
    BY <1>2

\* at begins at the head of the free list and follows the next fields.
Handed(q, n, at) ==
    /\ n > 0 => at[1] = q.free_head
    /\ \A i \in 2..n : at[i] = q.descs[at[i - 1]].next

\* The descriptors that virtq_alloc_desc hands out are those of the free list.
LEMMA AllocDescs ==
    ASSUME NEW q, NEW n \in Nat, NEW S, NEW fl \in [1..n -> S], Handed(q, n, fl)
    PROVE  alloc_descs(q, n) = fl
<1> USE DEF Handed
<1> DEFINE Body(at) == [i \in 1..n |-> IF i = 1 THEN q.free_head ELSE q.descs[at[i - 1]].next]
<1>1. alloc_descs(q, n) = CHOOSE at : at = Body(at)
    BY DEF alloc_descs
<1>2. fl = Body(fl)
    <2>1. ASSUME NEW i \in 1..n
          PROVE  fl[i] = Body(fl)[i]
        <3>1. CASE i = 1
            BY <3>1
        <3>2. CASE i # 1
            <4>1. i \in 2..n
                BY <3>2
            <4>2. fl[i] = q.descs[fl[i - 1]].next
                BY <4>1
            <4> QED
                BY <3>2, <4>2
        <3> QED
            BY <3>1, <3>2
    <2> QED
        BY <2>1
<1>3. PICK at : at = alloc_descs(q, n)
    OBVIOUS
<1>4. at = Body(at)
    <2> HIDE DEF Body
    <2> QED
        BY <1>1, <1>2, <1>3
<1>5. \A i \in 1..n : at[i] = IF i = 1 THEN q.free_head ELSE q.descs[at[i - 1]].next
    BY <1>4
<1>6. \A i \in 1..n : at[i] = fl[i]
    <2> SUFFICES ASSUME \E i \in 1..n : at[i] # fl[i] PROVE FALSE
        OBVIOUS
    <2> DEFINE T == {i \in 1..n : at[i] # fl[i]}
    <2>1. T \subseteq Nat /\ T # {}
        OBVIOUS
    <2> HIDE DEF T
    <2>2. PICK i \in T : \A j \in T : i <= j
        BY <2>1, LeastExists
    <2>3. i \in 1..n /\ at[i] # fl[i]
        BY DEF T
    <2>4. i # 1
        BY <1>5, <2>3
    <2>5. i - 1 \in 1..n /\ i \in 2..n /\ ~(i <= i - 1)
        BY <2>3, <2>4
    <2>6. at[i - 1] = fl[i - 1]
        BY <2>2, <2>5 DEF T
    <2> QED
        BY <1>5, <2>3, <2>4, <2>5, <2>6
<1>7. at = [i \in 1..n |-> at[i]]
    BY <1>4
<1> QED
    BY <1>3, <1>6, <1>7

\* The chain of a request is its three descriptors.
LEMMA ChainOfThree ==
    ASSUME NEW q, q.num \in Nat, q.num >= 3, NEW a, NEW b, NEW c,
           q.descs[a].cont, q.descs[a].next = b, q.descs[b].cont, q.descs[b].next = c,
           ~q.descs[c].cont
    PROVE  chain(q, a) = <<a, b, c>>
<1> DEFINE Grow(s) == IF q.descs[s[Len(s)]].cont THEN Append(s, q.descs[s[Len(s)]].next) ELSE s
<1> DEFINE Body(u) == [n \in 0..(q.num - 1) |-> IF n = 0 THEN <<a>> ELSE Grow(u[n - 1])]
<1>1. chain(q, a) = (CHOOSE u : u = Body(u))[q.num - 1]
    BY DEF chain, Last
<1>2. Grow(<<a>>) = <<a, b>> /\ Grow(<<a, b>>) = <<a, b, c>> /\ Grow(<<a, b, c>>) = <<a, b, c>>
    <2>1. <<a>>[Len(<<a>>)] = a /\ <<a, b>>[Len(<<a, b>>)] = b /\ <<a, b, c>>[Len(<<a, b, c>>)] = c
        OBVIOUS
    <2>2. Append(<<a>>, b) = <<a, b>> /\ Append(<<a, b>>, c) = <<a, b, c>>
        <3>1. PICK S : S = {a, b, c}
            OBVIOUS
        <3>2. <<a>> \in Seq(S) /\ <<a, b>> \in Seq(S) /\ <<a, b, c>> \in Seq(S) /\ b \in S /\ c \in S
            BY <3>1
        <3>3. PICK s : s = Append(<<a>>, b)
            OBVIOUS
        <3>4. s \in Seq(S) /\ Len(s) = 2 /\ s[1] = a /\ s[2] = b
            BY <3>2, <3>3
        <3>5. PICK t : t = Append(<<a, b>>, c)
            OBVIOUS
        <3>6. t \in Seq(S) /\ Len(t) = 3 /\ t[1] = a /\ t[2] = b /\ t[3] = c
            BY <3>2, <3>5
        <3>7. s = <<a, b>>
            BY <3>4
        <3>8. t = <<a, b, c>>
            BY <3>6
        <3> QED
            BY <3>3, <3>5, <3>7, <3>8
    <2>3. Grow(<<a>>) = Append(<<a>>, b)
        BY <2>1
    <2>4. Grow(<<a, b>>) = Append(<<a, b>>, c)
        BY <2>1
    <2>5. Grow(<<a, b, c>>) = <<a, b, c>>
        BY <2>1
    <2> QED
        BY <2>2, <2>3, <2>4, <2>5
<1> DEFINE w == [n \in 0..(q.num - 1) |-> IF n = 0 THEN <<a>> ELSE IF n = 1 THEN <<a, b>> ELSE <<a, b, c>>]
<1> HIDE DEF Grow
<1>3. w = Body(w)
    <2>1. \A n \in 0..(q.num - 1) : w[n] = Body(w)[n]
        <3> TAKE n \in 0..(q.num - 1)
        <3>1. CASE n = 0
            BY <3>1
        <3>2. CASE n = 1
            <4>1. w[1] = <<a, b>> /\ w[0] = <<a>> /\ Body(w)[1] = Grow(w[0])
                BY <3>2
            <4> QED
                BY <1>2, <3>2, <4>1
        <3>3. CASE n = 2
            <4>1. w[2] = <<a, b, c>> /\ w[1] = <<a, b>> /\ Body(w)[2] = Grow(w[1])
                BY <3>3
            <4> QED
                BY <1>2, <3>3, <4>1
        <3>4. CASE n > 2
            <4>1. n - 1 \in 0..(q.num - 1) /\ n - 1 # 0 /\ n - 1 # 1 /\ n # 0 /\ n # 1
                BY <3>4
            <4>2. w[n - 1] = <<a, b, c>> /\ w[n] = <<a, b, c>>
                BY <4>1
            <4> QED
                BY <1>2, <4>1, <4>2
        <3> QED
            BY <3>1, <3>2, <3>3, <3>4
    <2> QED
        BY <2>1
<1>4. PICK u : u = CHOOSE v : v = Body(v)
    OBVIOUS
<1>5. u = Body(u)
    <2> HIDE DEF Body, w
    <2> QED
        BY <1>3, <1>4
<1>6. \A n \in 0..(q.num - 1) : u[n] = IF n = 0 THEN <<a>> ELSE Grow(u[n - 1])
    BY <1>5
<1>7. u[0] = <<a>> /\ u[1] = <<a, b>> /\ u[2] = <<a, b, c>>
    <2>1. 0 \in 0..(q.num - 1) /\ 1 \in 0..(q.num - 1) /\ 2 \in 0..(q.num - 1)
        OBVIOUS
    <2>2. u[0] = <<a>>
        BY <1>6, <2>1
    <2>3. u[1] = Grow(u[0]) /\ u[2] = Grow(u[1])
        BY <1>6, <2>1
    <2> QED
        BY <1>2, <2>2, <2>3
<1>8. \A n \in 2..(q.num - 1) : u[n] = <<a, b, c>>
    <2> SUFFICES ASSUME \E n \in 2..(q.num - 1) : u[n] # <<a, b, c>> PROVE FALSE
        OBVIOUS
    <2> DEFINE T == {n \in 2..(q.num - 1) : u[n] # <<a, b, c>>}
    <2>1. T \subseteq Nat /\ T # {}
        OBVIOUS
    <2> HIDE DEF T
    <2>2. PICK n \in T : \A m \in T : n <= m
        BY <2>1, LeastExists
    <2>3. n \in 2..(q.num - 1) /\ u[n] # <<a, b, c>>
        BY DEF T
    <2>4. n # 2
        BY <1>7, <2>3
    <2>5. n - 1 \in 2..(q.num - 1) /\ n \in 0..(q.num - 1) /\ n # 0 /\ ~(n <= n - 1)
        BY <2>3, <2>4
    <2>6. u[n - 1] = <<a, b, c>>
        BY <2>2, <2>5 DEF T
    <2>7. u[n] = Grow(u[n - 1])
        BY <1>6, <2>5
    <2> QED
        BY <1>2, <2>3, <2>6, <2>7
<1>9. q.num - 1 \in 2..(q.num - 1)
    OBVIOUS
<1> QED
    BY <1>1, <1>4, <1>8, <1>9

LEMMA ThreeDescriptors ==
    ASSUME NEW a, NEW b, NEW c, a # b, b # c, a # c
    PROVE  IsFiniteSet({a, b, c}) /\ Cardinality({a, b, c}) = 3
<1>1. IsFiniteSet({a}) /\ Cardinality({a}) = 1
    BY FS_Singleton
<1>2. {a, b} = {a} \cup {b} /\ {a, b, c} = {a, b} \cup {c}
    OBVIOUS
<1>3. IsFiniteSet({a, b}) /\ Cardinality({a, b}) = Cardinality({a}) + 1
    BY <1>1, <1>2, FS_AddElement
<1>4. IsFiniteSet({a, b, c}) /\ Cardinality({a, b, c}) = Cardinality({a, b}) + 1
    BY <1>2, <1>3, FS_AddElement
<1> QED
    BY <1>1, <1>3, <1>4

LEMMA Constants ==
    /\ IdxMod \in Nat /\ IdxMod > 1 /\ SectorMod \in Nat /\ Capacity \in Nat /\ Capacity < SectorMod /\ Capacity > 0
    /\ VIRTQ_SIZE \in Nat /\ VIRTQ_SIZE > 0 /\ QueueMax \subseteq Nat
    /\ Nobody \notin Harts /\ Nobody \notin Nat
BY VirtioAssumption DEF VirtioAssumption

\* Indices stay below IdxMod, and the next one is another one.
LEMMA NextIdxMoves ==
    ASSUME NEW i \in Idx
    PROVE  NextIdx(i) \in Idx /\ NextIdx(i) # i
<1>1. IdxMod \in Nat /\ IdxMod > 1 /\ i \in Nat /\ i < IdxMod
    BY Constants DEF Idx
<1>2. CASE i + 1 < IdxMod
    <2>1. (i + 1) % IdxMod = i + 1
        BY <1>1, <1>2
    <2> QED
        BY <1>1, <1>2, <2>1 DEF NextIdx, Idx
<1>3. CASE i + 1 = IdxMod
    <2>1. IdxMod % IdxMod = 0
        BY <1>1
    <2> QED
        BY <1>1, <1>3, <2>1 DEF NextIdx, Idx
<1> QED
    BY <1>1, <1>2, <1>3

\* A slot of a ring.
LEMMA SlotInRing ==
    ASSUME NEW i \in Nat, NEW n \in Nat, n > 0
    PROVE  i % n \in 0..(n - 1)
OBVIOUS

\* virtq_create leaves all descriptors on the free list, in order.
LEMMA CreateRest ==
    ASSUME NEW n \in Nat, NEW q, q = virtq_create(n)
    PROVE  /\ q \in Queue(n) /\ q.num = n /\ q.avail_idx = 0 /\ q.used_idx = 0
           /\ q.data = [i \in Descs(q) |-> Nobody] /\ Rest(q, {})
<1>0. IdxMod \in Nat /\ IdxMod > 1 /\ 0 \in Idx
    BY Constants DEF Idx
<1>1. q = [num |-> n, num_free |-> n, free_head |-> 0, avail_idx |-> 0, used_idx |-> 0,
           data |-> [i \in 0..(n - 1) |-> Nobody], ring |-> [i \in 0..(n - 1) |-> 0],
           descs |-> [i \in 0..(n - 1) |->
                       IF i = n - 1 THEN [FreeDesc(0) EXCEPT !.cont = FALSE] ELSE FreeDesc(i + 1)]]
    BY DEF virtq_create
<1>2. /\ q.num = n /\ q.num_free = n /\ q.free_head = 0 /\ q.avail_idx = 0 /\ q.used_idx = 0
      /\ q.data = [i \in 0..(n - 1) |-> Nobody]
      /\ \A i \in 0..(n - 1) : q.descs[i] = IF i = n - 1 THEN [FreeDesc(0) EXCEPT !.cont = FALSE]
                                            ELSE FreeDesc(i + 1)
    BY <1>1
<1>3. \A i \in Nat : FreeDesc(i) \in Desc /\ FreeDesc(i).next = i
    BY DEF FreeDesc, Desc, Kinds
<1>4. [FreeDesc(0) EXCEPT !.cont = FALSE] \in Desc
    BY DEF FreeDesc, Desc, Kinds
<1>5. [i \in 0..(n - 1) |-> IF i = n - 1 THEN [FreeDesc(0) EXCEPT !.cont = FALSE] ELSE FreeDesc(i + 1)]
        \in [0..(n - 1) -> Desc]
    BY <1>3, <1>4
<1>6. q \in Queue(n)
    <2>1. [i \in 0..(n - 1) |-> Nobody] \in [0..(n - 1) -> Harts \cup {Nobody}]
        OBVIOUS
    <2>2. [i \in 0..(n - 1) |-> 0] \in [0..(n - 1) -> Nat]
        OBVIOUS
    <2>3. PICK da, ri, de : /\ da = [i \in 0..(n - 1) |-> Nobody] /\ ri = [i \in 0..(n - 1) |-> 0]
                            /\ de = [i \in 0..(n - 1) |->
                                      IF i = n - 1 THEN [FreeDesc(0) EXCEPT !.cont = FALSE] ELSE FreeDesc(i + 1)]
        OBVIOUS
    <2>4. q = [num |-> n, num_free |-> n, free_head |-> 0, avail_idx |-> 0, used_idx |-> 0,
               data |-> da, ring |-> ri, descs |-> de]
        BY <1>1, <2>3
    <2>5. da \in [0..(n - 1) -> Harts \cup {Nobody}] /\ ri \in [0..(n - 1) -> Nat] /\ de \in [0..(n - 1) -> Desc]
        BY <1>5, <2>1, <2>2, <2>3
    <2> QED
        BY <1>0, <2>4, <2>5 DEF Queue
<1>7. Rest(q, {})
    <2>1. PICK fl : fl = [i \in 1..n |-> i - 1]
        OBVIOUS
    <2>2. fl \in [1..q.num_free -> Descs(q)]
        BY <1>2, <2>1 DEF Descs
    <2>3. \A i \in 2..n : fl[i] = q.descs[fl[i - 1]].next
        <3> TAKE i \in 2..n
        <3>1. i - 1 \in 1..n /\ i - 2 \in 0..(n - 1) /\ i - 2 # n - 1 /\ fl[i] = i - 1 /\ fl[i - 1] = i - 2
            BY <2>1
        <3>2. q.descs[i - 2] = FreeDesc(i - 2 + 1)
            BY <1>2, <3>1
        <3>3. i - 2 + 1 = i - 1 /\ i - 1 \in Nat
            OBVIOUS
        <3> QED
            BY <1>3, <3>1, <3>2, <3>3
    <2>4. FreeList(q, fl, {})
        <3>1. \A i, j \in 1..n : fl[i] = fl[j] => i = j
            BY <2>1
        <3>2. n > 0 => fl[1] = 0
            BY <2>1
        <3> HIDE <2>1
        <3> QED
            BY <1>2, <2>3, <3>1, <3>2 DEF FreeList
    <2>5. Cardinality({}) = 0
        BY FS_EmptySet
    <2> QED
        BY <1>2, <2>2, <2>4, <2>5 DEF Rest
<1> QED
    BY <1>2, <1>6, <1>7 DEF Descs

\* The fields of a queue.
LEMMA QueueFields ==
    ASSUME NEW n \in Nat, NEW q \in Queue(n)
    PROVE  /\ q = [num |-> n, num_free |-> q.num_free, free_head |-> q.free_head,
                   avail_idx |-> q.avail_idx, used_idx |-> q.used_idx,
                   data |-> q.data, ring |-> q.ring, descs |-> q.descs]
           /\ q.num = n /\ q.num_free \in Nat /\ q.free_head \in Nat
           /\ q.avail_idx \in Idx /\ q.used_idx \in Idx
           /\ q.data \in [0..(n - 1) -> Harts \cup {Nobody}] /\ q.ring \in [0..(n - 1) -> Nat]
           /\ q.descs \in [0..(n - 1) -> Desc] /\ Descs(q) = 0..(n - 1)
BY DEF Queue, Descs

\* virtq_add_buf takes three descriptors from the free list, links them in the
\* order header, data, status, and puts the first one in the avail ring.
LEMMA AddFlight ==
    ASSUME NEW n \in Nat, NEW q \in Queue(n), NEW h \in Harts, Rest(q, {}),
           q.data = [i \in Descs(q) |-> Nobody], ~(3 > q.num_free),
           NEW m, m = virtq_add_buf(q, bufs(h), n_in, h)
    PROVE  /\ m \in Queue(n) /\ m.avail_idx = NextIdx(q.avail_idx) /\ m.used_idx = q.used_idx
           /\ \E a, b, c \in 0..(n - 1) :
                 Flight(m, h, a, b, c) /\ m.ring[q.avail_idx % n] = a
<1>1. /\ q = [num |-> n, num_free |-> q.num_free, free_head |-> q.free_head,
              avail_idx |-> q.avail_idx, used_idx |-> q.used_idx,
              data |-> q.data, ring |-> q.ring, descs |-> q.descs]
      /\ q.num = n /\ q.num_free \in Nat /\ q.free_head \in Nat
      /\ q.avail_idx \in Idx /\ q.used_idx \in Idx
      /\ q.data \in [0..(n - 1) -> Harts \cup {Nobody}] /\ q.ring \in [0..(n - 1) -> Nat]
      /\ q.descs \in [0..(n - 1) -> Desc] /\ Descs(q) = 0..(n - 1)
    BY QueueFields
<1>2. Cardinality({}) = 0
    BY FS_EmptySet
<1>3. q.num_free = n /\ n >= 3
    BY <1>1, <1>2 DEF Rest
<1>4. PICK fl \in [1..n -> 0..(n - 1)] : FreeList(q, fl, {})
    BY <1>1, <1>3 DEF Rest
<1>5. /\ \A i, j \in 1..n : fl[i] = fl[j] => i = j
      /\ fl[1] = q.free_head
      /\ \A i \in 2..n : fl[i] = q.descs[fl[i - 1]].next
    <2>1. PICK k : k = q.num_free
        OBVIOUS
    <2>2. /\ \A i, j \in 1..k : fl[i] = fl[j] => i = j
          /\ k > 0 => fl[1] = q.free_head
          /\ \A i \in 2..k : fl[i] = q.descs[fl[i - 1]].next
        BY <1>4, <2>1, Zenon DEF FreeList
    <2>3. k = n /\ n > 0
        BY <1>3, <2>1
    <2> QED
        BY <2>2, <2>3, Zenon
<1>6. PICK a, b, c : a = fl[1] /\ b = fl[2] /\ c = fl[3]
    OBVIOUS
<1>7. 1 \in 1..n /\ 2 \in 1..n /\ 3 \in 1..n
    BY <1>3
<1>8. a \in 0..(n - 1) /\ b \in 0..(n - 1) /\ c \in 0..(n - 1)
    BY <1>4, <1>6, <1>7
<1>9. a # b /\ b # c /\ a # c
    BY <1>5, <1>6, <1>7
<1>10. PICK ds : ds = [i \in 1..3 |-> fl[i]]
    OBVIOUS
<1>11. alloc_descs(q, 3) = ds
    <2>1. ds \in [1..3 -> 0..(n - 1)]
        BY <1>4, <1>7, <1>10
    <2>2. 3 > 0 => ds[1] = q.free_head
        BY <1>5, <1>10
    <2>3. \A i \in 2..3 : ds[i] = q.descs[ds[i - 1]].next
        <3> TAKE i \in 2..3
        <3>1. i \in 2..n /\ i \in 1..3 /\ i - 1 \in 1..3
            BY <1>3
        <3>2. ds[i] = fl[i] /\ ds[i - 1] = fl[i - 1]
            BY <1>10, <3>1
        <3> QED
            BY <1>5, <3>1, <3>2
    <2> HIDE <1>10
    <2>4. PICK k : k = 3
        OBVIOUS
    <2>5. k \in Nat /\ ds \in [1..k -> 0..(n - 1)] /\ Handed(q, k, ds)
        BY <2>1, <2>2, <2>3, <2>4 DEF Handed
    <2>6. alloc_descs(q, k) = ds
        BY <2>5, AllocDescs
    <2> QED
        BY <2>4, <2>6
<1>12. ds[1] = a /\ ds[2] = b /\ ds[3] = c
    BY <1>6, <1>10
<1>13. PICK bs : bs = bufs(h)
    OBVIOUS
<1>14. Len(bs) = 3 /\ bs[1] = <<"hdr", h>> /\ bs[2] = <<"data", h>> /\ bs[3] = <<"status", h>>
    BY <1>13 DEF bufs
<1> DEFINE D == [d \in 0..(n - 1) |->
                   IF \E i \in 1..3 : ds[i] = d
                     THEN LET i == CHOOSE i \in 1..3 : ds[i] = d IN
                          [buf |-> bs[i], cont |-> i < 3, write |-> i > 1,
                           next |-> IF i < 3 THEN ds[i + 1] ELSE 0]
                     ELSE q.descs[d]]
<1>15. PICK de : de = D
    OBVIOUS
<1>16. /\ de[a] = [buf |-> <<"hdr", h>>, cont |-> TRUE, write |-> FALSE, next |-> b]
       /\ de[b] = [buf |-> <<"data", h>>, cont |-> TRUE, write |-> TRUE, next |-> c]
       /\ de[c] = [buf |-> <<"status", h>>, cont |-> FALSE, write |-> TRUE, next |-> 0]
       /\ \A d \in 0..(n - 1) : d \notin {a, b, c} => de[d] = q.descs[d]
       /\ de = [d \in 0..(n - 1) |-> de[d]]
    <2>1. ASSUME NEW k \in 1..3
          PROVE  de[ds[k]] = [buf |-> bs[k], cont |-> k < 3, write |-> k > 1,
                              next |-> IF k < 3 THEN ds[k + 1] ELSE 0]
        <3>1. ds[k] \in 0..(n - 1)
            BY <1>8, <1>12
        <3>2. \A i \in 1..3 : ds[i] = ds[k] => i = k
            BY <1>9, <1>12
        <3>3. (CHOOSE i \in 1..3 : ds[i] = ds[k]) = k
            BY <3>2
        <3> QED
            BY <1>15, <3>1, <3>3
    <2>2. \A d \in 0..(n - 1) : d \notin {a, b, c} => de[d] = q.descs[d]
        BY <1>12, <1>15
    <2>3. de = [d \in 0..(n - 1) |-> de[d]]
        BY <1>15
    <2> HIDE DEF D
    <2>4. de[ds[1]] = [buf |-> bs[1], cont |-> 1 < 3, write |-> 1 > 1, next |-> ds[1 + 1]]
        BY <2>1
    <2>5. de[ds[2]] = [buf |-> bs[2], cont |-> 2 < 3, write |-> 2 > 1, next |-> ds[2 + 1]]
        BY <2>1
    <2>6. de[ds[3]] = [buf |-> bs[3], cont |-> 3 < 3, write |-> 3 > 1, next |-> 0]
        BY <2>1
    <2>7. (1 < 3) = TRUE /\ (1 > 1) = FALSE /\ (2 < 3) = TRUE /\ (2 > 1) = TRUE /\ (3 < 3) = FALSE
          /\ (3 > 1) = TRUE /\ 1 + 1 = 2 /\ 2 + 1 = 3
        OBVIOUS
    <2>8. de[a] = [buf |-> <<"hdr", h>>, cont |-> TRUE, write |-> FALSE, next |-> b]
        BY <1>12, <1>14, <2>4, <2>7
    <2>9. de[b] = [buf |-> <<"data", h>>, cont |-> TRUE, write |-> TRUE, next |-> c]
        BY <1>12, <1>14, <2>5, <2>7
    <2>10. de[c] = [buf |-> <<"status", h>>, cont |-> FALSE, write |-> TRUE, next |-> 0]
        BY <1>12, <1>14, <2>6, <2>7
    <2> QED
        BY <2>2, <2>3, <2>8, <2>9, <2>10
<1>17. m = [num |-> n, num_free |-> n - 3, free_head |-> q.descs[c].next,
            avail_idx |-> NextIdx(q.avail_idx), used_idx |-> q.used_idx,
            data |-> [q.data EXCEPT ![a] = h], ring |-> [q.ring EXCEPT ![q.avail_idx % n] = a], descs |-> de]
    <2>1. m = virtq_add_buf(q, bs, 1, h)
        BY <1>13 DEF n_in
    <2>2. DOMAIN q.descs = 0..(n - 1)
        BY <1>1
    <2>3. virtq_add_buf(q, bs, 1, h) =
             [q EXCEPT !.data[ds[1]] = h, !.num_free = @ - 3, !.free_head = q.descs[ds[3]].next,
                       !.descs = de, !.ring[q.avail_idx % q.num] = ds[1],
                       !.avail_idx = (@ + 1) % IdxMod]
        <3> DEFINE F(k, e) ==
               [q EXCEPT !.data[e[1]] = h, !.num_free = @ - k, !.free_head = q.descs[e[k]].next,
                         !.descs = [d \in DOMAIN @ |->
                            IF \E i \in 1..k : e[i] = d
                              THEN LET i == CHOOSE i \in 1..k : e[i] = d IN
                                   [buf |-> bs[i], cont |-> i < k, write |-> i > 1,
                                    next |-> IF i < k THEN e[i + 1] ELSE 0]
                              ELSE @[d]],
                         !.ring[q.avail_idx % q.num] = e[1], !.avail_idx = (@ + 1) % IdxMod]
        <3>1. virtq_add_buf(q, bs, 1, h) = F(Len(bs), alloc_descs(q, Len(bs)))
            BY DEF virtq_add_buf
        <3>2. F(3, ds) = [q EXCEPT !.data[ds[1]] = h, !.num_free = @ - 3,
                                   !.free_head = q.descs[ds[3]].next,
                                   !.descs = de, !.ring[q.avail_idx % q.num] = ds[1],
                                   !.avail_idx = (@ + 1) % IdxMod]
            BY <1>15, <2>2
        <3> HIDE DEF F
        <3>3. F(Len(bs), alloc_descs(q, Len(bs))) = F(3, ds)
            BY <1>11, <1>14
        <3> QED
            BY <3>1, <3>2, <3>3
    <2> HIDE DEF D
    <2> QED
        BY <1>1, <1>3, <1>12, <2>1, <2>3 DEF NextIdx
<1> HIDE DEF D
<1>18. PICK s : s = q.avail_idx % n
    OBVIOUS
<1>19. s \in 0..(n - 1)
    <2>1. q.avail_idx \in Nat
        BY <1>1, Constants DEF Idx
    <2> QED
        BY <1>3, <1>18, <2>1, SlotInRing
<1>20. PICK da, ri : da = [q.data EXCEPT ![a] = h] /\ ri = [q.ring EXCEPT ![s] = a]
    OBVIOUS
<1>21. /\ da \in [0..(n - 1) -> Harts \cup {Nobody}] /\ ri \in [0..(n - 1) -> Nat] /\ ri[s] = a
       /\ da = [i \in 0..(n - 1) |-> IF i = a THEN h ELSE Nobody]
    <2>1. da \in [0..(n - 1) -> Harts \cup {Nobody}]
        BY <1>1, <1>8, <1>20
    <2>2. ri \in [0..(n - 1) -> Nat] /\ ri[s] = a
        BY <1>1, <1>8, <1>19, <1>20
    <2>3. q.data = [i \in 0..(n - 1) |-> Nobody]
        BY <1>1
    <2>4. da = [i \in 0..(n - 1) |-> IF i = a THEN h ELSE Nobody]
        BY <1>8, <1>20, <2>3
    <2> QED
        BY <2>1, <2>2, <2>4
<1>22. /\ m = [num |-> n, num_free |-> n - 3, free_head |-> q.descs[c].next,
               avail_idx |-> NextIdx(q.avail_idx), used_idx |-> q.used_idx,
               data |-> da, ring |-> ri, descs |-> de]
       /\ m.num = n /\ m.num_free = n - 3 /\ m.free_head = q.descs[c].next /\ m.descs = de
       /\ m.avail_idx = NextIdx(q.avail_idx) /\ m.used_idx = q.used_idx
       /\ m.data = da /\ m.ring = ri
    BY <1>17, <1>18, <1>20
<1>23. m \in Queue(n)
    <2>1. de \in [0..(n - 1) -> Desc]
        <3>1. \A d \in 0..(n - 1) : q.descs[d] \in Desc
            BY <1>1
        <3>2. de[a] \in Desc /\ de[b] \in Desc /\ de[c] \in Desc
            BY <1>8, <1>16 DEF Desc, Kinds
        <3>3. \A d \in 0..(n - 1) : de[d] \in Desc
            BY <1>16, <3>1, <3>2
        <3> QED
            BY <1>16, <3>3
    <2>2. q.descs[c].next \in Nat /\ n - 3 \in Nat /\ NextIdx(q.avail_idx) \in Idx
        <3>1. q.descs[c] \in Desc
            BY <1>1, <1>8
        <3> QED
            BY <1>1, <1>3, <3>1, NextIdxMoves DEF Desc
    <2> QED
        BY <1>1, <1>21, <1>22, <2>1, <2>2 DEF Queue
<1>24. Rest(m, {a, b, c})
    <2>1. PICK k : k = n - 3
        OBVIOUS
    <2>2. k \in Nat /\ m.num_free = k /\ k + 3 = n
        BY <1>3, <1>22, <2>1
    <2>3. PICK gl : gl = [i \in 1..k |-> fl[i + 3]]
        OBVIOUS
    <2>4. \A i \in 1..k : i + 3 \in 1..n /\ gl[i] = fl[i + 3] /\ i + 3 # 1 /\ i + 3 # 2 /\ i + 3 # 3
        BY <2>2, <2>3
    <2>5. gl \in [1..k -> 0..(n - 1)]
        BY <1>4, <2>3, <2>4
    <2>6. \A i \in 1..k : gl[i] \notin {a, b, c}
        <3> TAKE i \in 1..k
        <3>1. i + 3 \in 1..n /\ gl[i] = fl[i + 3] /\ i + 3 # 1 /\ i + 3 # 2 /\ i + 3 # 3
            BY <2>4
        <3>2. PICK j : j = i + 3
            OBVIOUS
        <3>3. fl[j] # fl[1] /\ fl[j] # fl[2] /\ fl[j] # fl[3]
            BY <1>5, <1>7, <3>1, <3>2, Zenon
        <3> QED
            BY <1>6, <3>1, <3>2, <3>3, Zenon
    <2>7. \A i, j \in 1..k : gl[i] = gl[j] => i = j
        <3> SUFFICES ASSUME NEW i \in 1..k, NEW j \in 1..k, gl[i] = gl[j] PROVE i = j
            OBVIOUS
        <3>1. i + 3 \in 1..n /\ j + 3 \in 1..n /\ fl[i + 3] = fl[j + 3]
            BY <2>4
        <3>2. i + 3 = j + 3
            BY <1>5, <3>1
        <3> QED
            BY <2>2, <3>2
    <2>8. k > 0 => gl[1] = q.descs[c].next
        <3> SUFFICES ASSUME k > 0 PROVE gl[1] = q.descs[c].next
            OBVIOUS
        <3>1. 1 \in 1..k /\ 1 + 3 = 4 /\ 4 \in 2..n /\ 4 - 1 = 3
            BY <2>2
        <3>2. gl[1] = fl[4]
            BY <2>4, <3>1
        <3>3. fl[4] = q.descs[fl[3]].next
            BY <1>5, <3>1
        <3> QED
            BY <1>6, <3>2, <3>3
    <2>9. \A i \in 2..k : gl[i] = de[gl[i - 1]].next
        <3> TAKE i \in 2..k
        <3>1. i \in 1..k /\ i - 1 \in 1..k /\ i + 3 \in 2..n /\ (i - 1) + 3 = (i + 3) - 1
            BY <2>2
        <3>2. gl[i] = fl[i + 3] /\ gl[i - 1] = fl[(i + 3) - 1]
            BY <2>4, <3>1
        <3>3. fl[i + 3] = q.descs[fl[(i + 3) - 1]].next
            BY <1>5, <3>1
        <3>4. gl[i - 1] \in 0..(n - 1) /\ gl[i - 1] \notin {a, b, c}
            BY <2>5, <2>6, <3>1
        <3>5. de[gl[i - 1]] = q.descs[gl[i - 1]]
            BY <1>16, <3>4
        <3> QED
            BY <3>2, <3>3, <3>5
    <2>10. FreeList(m, gl, {a, b, c})
        BY <1>22, <2>2, <2>6, <2>7, <2>8, <2>9 DEF FreeList
    <2>11. Cardinality({a, b, c}) = 3
        BY <1>9, ThreeDescriptors
    <2>12. gl \in [1..m.num_free -> Descs(m)]
        BY <1>22, <2>2, <2>5 DEF Descs
    <2> QED
        BY <1>22, <2>2, <2>10, <2>11, <2>12 DEF Rest
<1>25. Flight(m, h, a, b, c)
    BY <1>9, <1>16, <1>21, <1>22, <1>24 DEF Flight, Descs
<1> QED
    BY <1>8, <1>18, <1>21, <1>22, <1>23, <1>25

\* virtq_get_buf gives the three descriptors of a request back to the free list,
\* the last one of the chain at its head.
LEMMA GetBuf ==
    ASSUME NEW n \in Nat, NEW q \in Queue(n), NEW h \in Harts,
           NEW a \in 0..(n - 1), NEW b \in 0..(n - 1), NEW c \in 0..(n - 1),
           Flight(q, h, a, b, c), taken(q) = a, NEW m, m = virtq_get_buf(q)
    PROVE  /\ m \in Queue(n) /\ m.avail_idx = q.avail_idx /\ m.used_idx = NextIdx(q.used_idx)
           /\ m.data = [i \in 0..(n - 1) |-> Nobody] /\ Rest(m, {})
<1>1. /\ q = [num |-> n, num_free |-> q.num_free, free_head |-> q.free_head,
              avail_idx |-> q.avail_idx, used_idx |-> q.used_idx,
              data |-> q.data, ring |-> q.ring, descs |-> q.descs]
      /\ q.num = n /\ q.num_free \in Nat /\ q.free_head \in Nat
      /\ q.avail_idx \in Idx /\ q.used_idx \in Idx
      /\ q.data \in [0..(n - 1) -> Harts \cup {Nobody}] /\ q.ring \in [0..(n - 1) -> Nat]
      /\ q.descs \in [0..(n - 1) -> Desc] /\ Descs(q) = 0..(n - 1)
    BY QueueFields
<1>2. /\ a # b /\ b # c /\ a # c /\ Rest(q, {a, b, c})
      /\ q.data = [i \in 0..(n - 1) |-> IF i = a THEN h ELSE Nobody]
      /\ q.descs[a] = [buf |-> <<"hdr", h>>, cont |-> TRUE, write |-> FALSE, next |-> b]
      /\ q.descs[b] = [buf |-> <<"data", h>>, cont |-> TRUE, write |-> TRUE, next |-> c]
      /\ q.descs[c] = [buf |-> <<"status", h>>, cont |-> FALSE, write |-> TRUE, next |-> 0]
    BY <1>1 DEF Flight
<1>3. Cardinality({a, b, c}) = 3
    <2>1. a # b /\ b # c /\ a # c
        BY <1>2
    <2> QED
        BY <2>1, ThreeDescriptors
<1>4. PICK k : k = q.num_free
    OBVIOUS
<1>5. k \in Nat /\ k + 3 = n
    BY <1>1, <1>2, <1>3, <1>4 DEF Rest
<1>6. PICK fl \in [1..k -> 0..(n - 1)] : FreeList(q, fl, {a, b, c})
    BY <1>1, <1>2, <1>4 DEF Rest
<1>7. /\ \A i, j \in 1..k : fl[i] = fl[j] => i = j
      /\ \A i \in 1..k : fl[i] \notin {a, b, c}
      /\ k > 0 => fl[1] = q.free_head
      /\ \A i \in 2..k : fl[i] = q.descs[fl[i - 1]].next
    BY <1>4, <1>6, Zenon DEF FreeList
<1>8. chain(q, a) = <<a, b, c>>
    <2>1. /\ q.descs[a].cont /\ q.descs[a].next = b /\ q.descs[b].cont /\ q.descs[b].next = c
          /\ ~q.descs[c].cont
        BY <1>2
    <2>2. q.num \in Nat /\ q.num >= 3
        BY <1>1, <1>5
    <2> QED
        BY <2>1, <2>2, ChainOfThree
<1>9. PICK cs : cs = <<a, b, c>>
    OBVIOUS
<1>10. cs[1] = a /\ cs[2] = b /\ cs[3] = c /\ Len(cs) = 3 /\ DOMAIN cs = 1..3 /\ Last(cs) = c
    BY <1>9 DEF Last
<1> DEFINE D == [d \in 0..(n - 1) |->
                   IF \E i \in 1..3 : cs[i] = d
                     THEN LET i == CHOOSE i \in 1..3 : cs[i] = d IN
                          FreeDesc(IF i = 1 THEN q.free_head ELSE cs[i - 1])
                     ELSE q.descs[d]]
<1>11. PICK de : de = D
    OBVIOUS
<1>12. /\ de[a] = FreeDesc(q.free_head) /\ de[b] = FreeDesc(a) /\ de[c] = FreeDesc(b)
       /\ \A d \in 0..(n - 1) : d \notin {a, b, c} => de[d] = q.descs[d]
       /\ de = [d \in 0..(n - 1) |-> de[d]]
    <2>1. ASSUME NEW j \in 1..3
          PROVE  de[cs[j]] = FreeDesc(IF j = 1 THEN q.free_head ELSE cs[j - 1])
        <3>1. cs[j] \in 0..(n - 1)
            BY <1>10
        <3>2. \A i \in 1..3 : cs[i] = cs[j] => i = j
            BY <1>2, <1>10
        <3>3. (CHOOSE i \in 1..3 : cs[i] = cs[j]) = j
            BY <3>2
        <3> QED
            BY <1>11, <3>1, <3>3
    <2>2. \A d \in 0..(n - 1) : d \notin {a, b, c} => de[d] = q.descs[d]
        BY <1>10, <1>11
    <2>3. de = [d \in 0..(n - 1) |-> de[d]]
        BY <1>11
    <2> HIDE DEF D
    <2>4. de[cs[1]] = FreeDesc(q.free_head) /\ de[cs[2]] = FreeDesc(cs[2 - 1]) /\ de[cs[3]] = FreeDesc(cs[3 - 1])
        BY <2>1
    <2>5. 2 - 1 = 1 /\ 3 - 1 = 2
        OBVIOUS
    <2> QED
        BY <1>10, <2>2, <2>3, <2>4, <2>5
<1>13. m = [num |-> n, num_free |-> n, free_head |-> c,
            avail_idx |-> q.avail_idx, used_idx |-> NextIdx(q.used_idx),
            data |-> [q.data EXCEPT ![a] = Nobody], ring |-> q.ring, descs |-> de]
    <2>1. m = [free_descs(q, cs) EXCEPT !.data[a] = Nobody, !.used_idx = (@ + 1) % IdxMod]
        BY <1>8, <1>9 DEF virtq_get_buf
    <2>2. DOMAIN q.descs = 0..(n - 1)
        BY <1>1
    <2>3. free_descs(q, cs) = [q EXCEPT !.num_free = @ + 3, !.free_head = c, !.descs = de]
        <3> DEFINE F(l, dom, top) ==
               [q EXCEPT !.num_free = @ + l, !.free_head = top,
                         !.descs = [d \in DOMAIN @ |->
                            IF \E i \in dom : cs[i] = d
                              THEN LET i == CHOOSE i \in dom : cs[i] = d IN
                                   FreeDesc(IF i = 1 THEN q.free_head ELSE cs[i - 1])
                              ELSE @[d]]]
        <3>1. free_descs(q, cs) = F(Len(cs), DOMAIN cs, Last(cs))
            BY DEF free_descs
        <3>2. F(3, 1..3, c) = [q EXCEPT !.num_free = @ + 3, !.free_head = c, !.descs = de]
            BY <1>11, <2>2
        <3> HIDE DEF F
        <3>3. F(Len(cs), DOMAIN cs, Last(cs)) = F(3, 1..3, c)
            BY <1>10
        <3> QED
            BY <3>1, <3>2, <3>3
    <2> HIDE DEF D
    <2>4. q.num_free + 3 = n
        BY <1>4, <1>5
    <2>5. free_descs(q, cs) = [num |-> n, num_free |-> n, free_head |-> c,
              avail_idx |-> q.avail_idx, used_idx |-> q.used_idx,
              data |-> q.data, ring |-> q.ring, descs |-> de]
        BY <1>1, <2>3, <2>4
    <2>6. PICK f : f = free_descs(q, cs)
        OBVIOUS
    <2>7. /\ f = [num |-> n, num_free |-> n, free_head |-> c,
                  avail_idx |-> q.avail_idx, used_idx |-> q.used_idx,
                  data |-> q.data, ring |-> q.ring, descs |-> de]
          /\ m = [f EXCEPT !.data[a] = Nobody, !.used_idx = (@ + 1) % IdxMod]
        BY <2>1, <2>5, <2>6
    <2> QED
        BY <2>7 DEF NextIdx
<1> HIDE DEF D
<1>14. PICK da : da = [q.data EXCEPT ![a] = Nobody]
    OBVIOUS
<1>15. da \in [0..(n - 1) -> Harts \cup {Nobody}] /\ da = [i \in 0..(n - 1) |-> Nobody]
    BY <1>2, <1>14
<1>16. /\ m = [num |-> n, num_free |-> n, free_head |-> c,
               avail_idx |-> q.avail_idx, used_idx |-> NextIdx(q.used_idx),
               data |-> da, ring |-> q.ring, descs |-> de]
       /\ m.num = n /\ m.num_free = n /\ m.free_head = c /\ m.descs = de
       /\ m.avail_idx = q.avail_idx /\ m.used_idx = NextIdx(q.used_idx) /\ m.data = da
    BY <1>13, <1>14
<1>17. \A i \in Nat : FreeDesc(i) \in Desc /\ FreeDesc(i).next = i
    BY DEF FreeDesc, Desc, Kinds
<1>18. m \in Queue(n)
    <2>1. de \in [0..(n - 1) -> Desc]
        <3>1. \A d \in 0..(n - 1) : q.descs[d] \in Desc
            BY <1>1
        <3>2. de[a] \in Desc /\ de[b] \in Desc /\ de[c] \in Desc
            BY <1>1, <1>12, <1>17
        <3>3. \A d \in 0..(n - 1) : de[d] \in Desc
            BY <1>12, <3>1, <3>2
        <3> QED
            BY <1>12, <3>3
    <2>2. NextIdx(q.used_idx) \in Idx /\ c \in Nat
        BY <1>1, NextIdxMoves
    <2> QED
        BY <1>1, <1>15, <1>16, <2>1, <2>2 DEF Queue
<1>19. Rest(m, {})
    <2>1. PICK gl : gl = [i \in 1..n |-> IF i = 1 THEN c ELSE IF i = 2 THEN b ELSE IF i = 3 THEN a ELSE fl[i - 3]]
        OBVIOUS
    <2>2. gl[1] = c /\ gl[2] = b /\ gl[3] = a
        BY <1>5, <2>1
    <2>3. \A i \in 4..n : i - 3 \in 1..k /\ gl[i] = fl[i - 3] /\ gl[i] \in 0..(n - 1)
        <3> TAKE i \in 4..n
        <3>1. i - 3 \in 1..k /\ i \in 1..n /\ i # 1 /\ i # 2 /\ i # 3
            BY <1>5
        <3>2. gl[i] = fl[i - 3]
            BY <2>1, <3>1
        <3> QED
            BY <1>6, <3>1, <3>2
    <2>4. \A i \in 1..n : i = 1 \/ i = 2 \/ i = 3 \/ i \in 4..n
        OBVIOUS
    <2>5. gl \in [1..n -> 0..(n - 1)]
        <3>1. \A i \in 1..n : gl[i] \in 0..(n - 1)
            BY <2>2, <2>3, <2>4
        <3> QED
            BY <2>1, <3>1
    <2> HIDE <2>1
    <2>6. \A i \in 4..n : gl[i] # a /\ gl[i] # b /\ gl[i] # c
        BY <1>7, <2>3
    <2>7. \A i, j \in 1..n : gl[i] = gl[j] => i = j
        <3> SUFFICES ASSUME NEW i \in 1..n, NEW j \in 1..n, gl[i] = gl[j] PROVE i = j
            OBVIOUS
        <3>1. CASE i \in 4..n /\ j \in 4..n
            <4>1. i - 3 \in 1..k /\ j - 3 \in 1..k /\ fl[i - 3] = fl[j - 3]
                BY <2>3, <3>1
            <4>2. i - 3 = j - 3
                BY <1>7, <4>1
            <4> QED
                BY <4>2
        <3>2. CASE i \in 4..n /\ j \notin 4..n
            BY <2>2, <2>4, <2>6, <3>2
        <3>3. CASE i \notin 4..n /\ j \in 4..n
            BY <2>2, <2>4, <2>6, <3>3
        <3>4. CASE i \notin 4..n /\ j \notin 4..n
            BY <1>2, <2>2, <2>4, <3>4
        <3> QED
            BY <3>1, <3>2, <3>3, <3>4
    <2>8. \A i \in 2..n : gl[i] = de[gl[i - 1]].next
        <3> TAKE i \in 2..n
        <3>1. CASE i = 2
            <4>1. i - 1 = 1 /\ b \in Nat
                BY <3>1
            <4> QED
                BY <1>12, <1>17, <2>2, <3>1, <4>1
        <3>2. CASE i = 3
            <4>1. i - 1 = 2 /\ a \in Nat
                BY <3>2
            <4> QED
                BY <1>12, <1>17, <2>2, <3>2, <4>1
        <3>3. CASE i = 4
            <4>1. i - 1 = 3 /\ i - 3 = 1 /\ i \in 4..n /\ k > 0
                BY <1>5, <3>3
            <4>2. gl[i] = q.free_head
                BY <1>7, <2>3, <4>1
            <4> QED
                BY <1>1, <1>12, <1>17, <2>2, <4>1, <4>2
        <3>4. CASE i > 4
            <4>1. i \in 4..n /\ i - 1 \in 4..n /\ i - 3 \in 2..k /\ (i - 1) - 3 = (i - 3) - 1
                BY <1>5, <3>4
            <4>2. gl[i] = fl[i - 3] /\ gl[i - 1] = fl[(i - 3) - 1] /\ gl[i - 1] \in 0..(n - 1)
                BY <2>3, <4>1
            <4>3. fl[i - 3] = q.descs[fl[(i - 3) - 1]].next
                BY <1>7, <4>1
            <4>4. gl[i - 1] \notin {a, b, c}
                BY <2>6, <4>1
            <4>5. de[gl[i - 1]] = q.descs[gl[i - 1]]
                BY <1>12, <4>2, <4>4
            <4> QED
                BY <4>2, <4>3, <4>5
        <3> QED
            BY <3>1, <3>2, <3>3, <3>4
    <2>9. FreeList(m, gl, {})
        BY <1>16, <2>2, <2>7, <2>8 DEF FreeList
    <2>10. Cardinality({}) = 0
        BY FS_EmptySet
    <2>11. gl \in [1..m.num_free -> Descs(m)]
        BY <1>16, <2>5 DEF Descs
    <2> QED
        BY <1>16, <2>9, <2>10, <2>11 DEF Rest
<1> QED
    BY <1>15, <1>16, <1>18, <1>19
-----------------------------------------------------------------------------
(* The invariant holds at the start. *)
LEMMA InitIInv == Init => IInv
<1> SUFFICES ASSUME Init PROVE IInv
    OBVIOUS
<1>1. PICK q : q = virtq_create(0)
    OBVIOUS
<1>2. vq = q
    BY <1>1 DEF Init
<1>3. /\ q \in Queue(0) /\ q.num = 0 /\ q.avail_idx = 0 /\ q.used_idx = 0
      /\ q.data = [i \in Descs(q) |-> Nobody] /\ Rest(q, {})
    <2>1. 0 \in Nat
        OBVIOUS
    <2> QED
        BY <1>1, <2>1, CreateRest
<1>4. dev_lock = Nobody /\ dev_lock \notin Harts
    BY Constants DEF Init
<1>5. 0 \in Idx /\ 0 \in Sectors
    BY Constants DEF Idx, Sectors
<1>6. TypeOK
    <2>1. vq.num \in Nat /\ vq \in Queue(vq.num)
        BY <1>2, <1>3
    <2>2. used \in [idx : Idx, ring : [Descs(vq) -> Nat]]
        <3>1. Descs(vq) = {}
            BY <1>2, <1>3 DEF Descs
        <3>2. <<>> \in [{} -> Nat]
            OBVIOUS
        <3> QED
            BY <1>5, <3>1, <3>2 DEF Init
    <2>3. dev \in [idx : Idx, notified : BOOLEAN, serving : Nat \cup {Nobody}]
        BY <1>5 DEF Init
    <2>4. NoReq \in [live : BOOLEAN, write : BOOLEAN, sector : Sectors,
                     status : {"OK", "IOERR"}, completed : BOOLEAN]
        BY <1>5 DEF NoReq
    <2>5. req \in [Harts -> [live : BOOLEAN, write : BOOLEAN, sector : Sectors,
                             status : {"OK", "IOERR"}, completed : BOOLEAN]]
        BY <2>4 DEF Init
    <2>6. pc \in [Harts -> Labels] /\ done \in [Harts -> Harts \cup {Nobody}]
        BY DEF Init, Labels, Owning
    <2>7. buf \in [Harts -> Values \cup {Nobody}] /\ disk \in [0..(Capacity - 1) -> Values]
        BY DEF Init
    <2>8. irq \in [raised : BOOLEAN, claimed : BOOLEAN]
        BY DEF Init
    <2>9. boot \in {"probe", "mmio", "features", "vq", "config", "done", "failed"}
        BY DEF Init
    <2> QED
        BY <1>4, <2>1, <2>2, <2>3, <2>5, <2>6, <2>7, <2>8, <2>9 DEF TypeOK
<1>7. Booting
    <2>1. \A h \in Harts : pc[h] = "idle"
        BY DEF Init
    <2>2. ~irq.raised /\ ~dev.notified /\ used.idx = 0 /\ dev.idx = 0
        BY DEF Init
    <2>3. vq = virtq_create(vq.num)
        BY <1>1, <1>2, <1>3
    <2> QED
        BY <2>1, <2>2, <2>3 DEF Booting
<1>8. Locking
    BY <1>4 DEF Init, Locking, Owning
<1>9. Settled
    <2>1. Empty
        BY <1>2, <1>3 DEF Init, Empty
    <2> QED
        BY <1>4, <2>1 DEF Settled, Init
<1> QED
    BY <1>6, <1>7, <1>8, <1>9 DEF IInv

\* Whatever a hart does that is not in a request and changes nothing but its own
\* place in the code and the state of the interrupt.
LEMMA Elsewhere ==
    ASSUME IInv, boot = "done", NEW h \in Harts, pc[h] \notin Owning \cup {"isr_mark"},
           NEW l \in Labels, l \notin Owning \cup {"isr_mark"}, Goto(h, l),
           irq' \in [raised : BOOLEAN, claimed : BOOLEAN],
           UNCHANGED <<bootv, vq, used, dev, disk, req, buf, done, dev_lock>>
    PROVE  IInv'
<1>1. TypeOK /\ Booting /\ Locking /\ (Submitted \/ Taken \/ Settled)
    BY DEF IInv
<1>2. /\ boot' = boot /\ vq' = vq /\ used' = used /\ dev' = dev /\ disk' = disk /\ req' = req
      /\ buf' = buf /\ done' = done /\ dev_lock' = dev_lock
    BY DEF bootv
<1>3. pc \in [Harts -> Labels] /\ pc' = [pc EXCEPT ![h] = l]
    BY <1>1 DEF TypeOK, Goto
<1>4. dev_lock # h /\ done[h] = Nobody
    BY <1>1 DEF Locking, Owning
<1>5. \A g \in Harts : pc'[g] = IF g = h THEN l ELSE pc[g]
    BY <1>3
<1>6. dev_lock \in Harts => pc'[dev_lock] = pc[dev_lock]
    BY <1>4, <1>5
<1>7. TypeOK'
    <2>1. pc' \in [Harts -> Labels]
        BY <1>3
    <2> QED
        BY <1>1, <1>2, <2>1 DEF TypeOK, Descs
<1>8. Booting'
    BY <1>2 DEF Booting
<1>9. Locking'
    BY <1>1, <1>2, <1>4, <1>5 DEF Locking, Owning
<1>10. Empty => Empty'
    BY <1>2 DEF Empty, Descs
<1>11. \A g \in Harts : Result(g)' <=> Result(g)
    BY <1>2 DEF Result
<1>12. CASE Submitted
    <2>1. Submitted'
        BY <1>2, <1>6, <1>11, <1>12 DEF Submitted, Queued, Serving, Answered, Descs
    <2> QED
        BY <1>7, <1>8, <1>9, <2>1 DEF IInv
<1>13. CASE Taken
    <2>1. Taken'
        BY <1>2, <1>6, <1>10, <1>11, <1>13 DEF Taken
    <2> QED
        BY <1>7, <1>8, <1>9, <2>1 DEF IInv
<1>14. CASE Settled
    <2>1. Settled'
        BY <1>2, <1>6, <1>10, <1>11, <1>14 DEF Settled
    <2> QED
        BY <1>7, <1>8, <1>9, <2>1 DEF IInv
<1> QED
    BY <1>1, <1>12, <1>13, <1>14

\* A hart that is not idle, the doorbell and a chain that the device serves all
\* mean that the device is registered.
LEMMA Registered ==
    ASSUME IInv
    PROVE  /\ \A h \in Harts : pc[h] # "idle" => boot = "done"
           /\ irq.raised => boot = "done"
           /\ dev.notified => boot = "done"
           /\ dev.serving # Nobody => boot = "done"
<1>1. TypeOK /\ Booting /\ Locking /\ (Submitted \/ Taken \/ Settled)
    BY DEF IInv
<1>2. dev.serving # Nobody => \E h \in Harts : pc[h] # "idle"
    BY <1>1 DEF Submitted, Taken, Settled, Empty
<1> QED
    BY <1>1, <1>2 DEF Booting

\* blk_lookup, the trap, the claim, the acknowledgement and the loop's test.
LEMMA ElsewhereSteps ==
    ASSUME IInv, NEW h \in Harts,
           blk_call(h) \/ trap(h) \/ handle_external(h) \/ virtio_irq_handler(h) \/ virtio_blk_isr(h)
    PROVE  IInv'
<1>1. irq \in [raised : BOOLEAN, claimed : BOOLEAN]
    BY DEF IInv, TypeOK
<1>2. boot = "done"
    <2>1. boot = "done" \/ pc[h] # "idle" \/ irq.raised
        BY DEF blk_call, trap, pending, handle_external, virtio_irq_handler, virtio_blk_isr
    <2> QED
        BY <2>1, Registered
<1>3. pc[h] \notin Owning \cup {"isr_mark"}
    BY DEF blk_call, trap, handle_external, virtio_irq_handler, virtio_blk_isr, Owning
<1>4. UNCHANGED <<bootv, vq, used, dev, disk, req, buf, done, dev_lock>>
    BY DEF blk_call, trap, handle_external, virtio_irq_handler, virtio_blk_isr, bootv
<1>5. irq' \in [raised : BOOLEAN, claimed : BOOLEAN]
    BY <1>1 DEF blk_call, trap, handle_external, virtio_irq_handler, virtio_blk_isr
<1>6. \E l \in Labels : l \notin Owning \cup {"isr_mark"} /\ Goto(h, l)
    <2>1. \A l \in {"lock", "claim", "ack", "idle", "isr", "isr_take"} :
             l \in Labels /\ l \notin Owning \cup {"isr_mark"}
        BY DEF Labels, Owning
    <2>2. \E l \in {"lock", "claim", "ack", "idle", "isr", "isr_take"} : Goto(h, l)
        BY DEF blk_call, trap, handle_external, virtio_irq_handler, virtio_blk_isr
    <2> QED
        BY <2>1, <2>2
<1>7. PICK l \in Labels : l \notin Owning \cup {"isr_mark"} /\ Goto(h, l)
    BY <1>6
<1> QED
    BY <1>2, <1>3, <1>4, <1>5, <1>7, Elsewhere

\* The owner of the device's lock is the only hart in a request.
LEMMA OwnerIs ==
    ASSUME IInv, NEW h \in Harts, pc[h] \in Owning
    PROVE  /\ dev_lock = h /\ boot = "done"
           /\ \A g \in Harts : g # h => pc[g] \notin Owning
BY Registered DEF IInv, Locking, Owning

\* The lock is taken: with a request, or with an error.
LEMMA StartStep ==
    ASSUME IInv, NEW h \in Harts, start(h)
    PROVE  IInv'
<1>1. TypeOK /\ Booting /\ Locking /\ (Submitted \/ Taken \/ Settled)
    BY DEF IInv
<1>2. pc[h] = "lock" /\ dev_lock = Nobody /\ dev_lock' = h /\ h # Nobody /\ dev_lock \notin Harts
    BY Constants DEF start
<1>3. boot = "done"
    BY <1>2, Registered
<1>4. /\ boot' = boot /\ vq' = vq /\ used' = used /\ dev' = dev /\ disk' = disk /\ done' = done /\ irq' = irq
    BY DEF start, bootv
<1>5. Settled
    BY <1>1, <1>2 DEF Submitted, Taken
<1>6. PICK w \in BOOLEAN, s \in Sectors, v \in Values :
          /\ buf' = [buf EXCEPT ![h] = IF w THEN v ELSE Nobody]
          /\ \/ /\ req' = [req EXCEPT ![h] = [NoReq EXCEPT !.live = TRUE, !.write = w, !.sector = s]]
                /\ Goto(h, "add")
             \/ Goto(h, "error") /\ UNCHANGED req
    BY DEF start
<1>7. PICK r : r = [NoReq EXCEPT !.live = TRUE, !.write = w, !.sector = s]
    OBVIOUS
<1>8. /\ r \in [live : BOOLEAN, write : BOOLEAN, sector : Sectors,
                status : {"OK", "IOERR"}, completed : BOOLEAN]
      /\ r.live /\ ~r.completed
    BY <1>7 DEF NoReq
<1>9. PICK l \in {"add", "error"} : /\ pc' = [pc EXCEPT ![h] = l]
                                    /\ \/ l = "add" /\ req' = [req EXCEPT ![h] = r]
                                       \/ l = "error" /\ req' = req
    BY <1>6, <1>7 DEF Goto
<1>10. /\ pc \in [Harts -> Labels] /\ buf \in [Harts -> Values \cup {Nobody}]
       /\ req \in [Harts -> [live : BOOLEAN, write : BOOLEAN, sector : Sectors,
                             status : {"OK", "IOERR"}, completed : BOOLEAN]]
    BY <1>1 DEF TypeOK
<1>11. \A g \in Harts : pc'[g] = IF g = h THEN l ELSE pc[g]
    BY <1>9, <1>10
<1>12. l = "add" => req'[h] = r
    BY <1>9, <1>10
<1>13. TypeOK'
    <2>1. pc' \in [Harts -> Labels]
        BY <1>9, <1>10 DEF Labels, Owning
    <2>2. buf' \in [Harts -> Values \cup {Nobody}]
        BY <1>6, <1>10
    <2>3. req' \in [Harts -> [live : BOOLEAN, write : BOOLEAN, sector : Sectors,
                             status : {"OK", "IOERR"}, completed : BOOLEAN]]
        BY <1>8, <1>9, <1>10
    <2> QED
        BY <1>1, <1>2, <1>4, <2>1, <2>2, <2>3 DEF TypeOK, Descs
<1>14. Booting'
    BY <1>3, <1>4 DEF Booting
<1>15. Locking'
    <2>1. \A g \in Harts : pc[g] \notin Owning
        BY <1>1, <1>2 DEF Locking
    <2> QED
        BY <1>1, <1>2, <1>4, <1>9, <1>11, <2>1 DEF Locking, Owning
<1>16. Settled'
    <2>1. Empty'
        BY <1>4, <1>5 DEF Settled, Empty, Descs
    <2>2. \A g \in Harts : done'[g] = Nobody
        BY <1>4, <1>5 DEF Settled
    <2>3. \/ pc'[h] = "add" /\ req'[h].live /\ ~req'[h].completed
          \/ pc'[h] = "error"
        BY <1>8, <1>9, <1>11, <1>12
    <2> QED
        BY <1>2, <2>1, <2>2, <2>3 DEF Settled
<1> QED
    BY <1>13, <1>14, <1>15, <1>16 DEF IInv

\* The owner of the lock goes on to another label of the request and nothing else
\* of the type and the locking changes.
LEMMA OwnerMoves ==
    ASSUME IInv, NEW h \in Harts, pc[h] \in Owning, NEW l \in Owning, Goto(h, l),
           dev_lock' = dev_lock, done' = done, done[h] = Nobody, l # "mark"
    PROVE  /\ Locking' /\ pc' \in [Harts -> Labels] /\ pc'[h] = l
           /\ \A g \in Harts : g # h => pc'[g] = pc[g]
<1>1. Locking /\ pc \in [Harts -> Labels] /\ pc' = [pc EXCEPT ![h] = l]
    BY DEF IInv, TypeOK, Goto
<1>2. pc'[h] = l /\ \A g \in Harts : g # h => pc'[g] = pc[g]
    BY <1>1
<1>3. pc' \in [Harts -> Labels]
    BY <1>1 DEF Labels
<1>4. Locking'
    <2> SUFFICES ASSUME NEW g \in Harts
                 PROVE  /\ dev_lock' = g <=> pc'[g] \in Owning
                        /\ done'[g] # Nobody <=> pc'[g] \in {"mark", "isr_mark"}
        BY DEF Locking
    <2>1. CASE g = h
        <3>1. l # "isr_mark"
            BY DEF Owning
        <3> QED
            BY <1>1, <1>2, <2>1, <3>1 DEF Locking
    <2>2. CASE g # h
        BY <1>1, <1>2, <2>2 DEF Locking
    <2> QED
        BY <2>1, <2>2
<1> QED
    BY <1>2, <1>3, <1>4

\* virtq_add_buf, or an error when it has no room.
LEMMA AddStep ==
    ASSUME IInv, NEW h \in Harts, add(h)
    PROVE  IInv'
<1>1. TypeOK /\ Booting /\ Locking /\ (Submitted \/ Taken \/ Settled)
    BY DEF IInv
<1>2. pc[h] = "add" /\ pc[h] \in Owning
    BY DEF add, Owning
<1>3. dev_lock = h /\ boot = "done"
    BY <1>2, OwnerIs
<1>4. /\ boot' = boot /\ used' = used /\ dev' = dev /\ disk' = disk /\ done' = done /\ irq' = irq
      /\ buf' = buf /\ dev_lock' = dev_lock
    BY DEF add, bootv
<1>5. Settled
    BY <1>1, <1>2, <1>3 DEF Submitted, Taken
<1>6. req[h].live /\ ~req[h].completed /\ Empty /\ \A g \in Harts : done[g] = Nobody
    BY <1>2, <1>3, <1>5 DEF Settled
<1>7. Len(bufs(h)) = 3
    BY DEF bufs
<1>8. Booting'
    BY <1>3, <1>4 DEF Booting
<1>9. CASE 3 > vq.num_free
    <2>1. req' = [req EXCEPT ![h].live = FALSE] /\ Goto(h, "error") /\ vq' = vq
        BY <1>7, <1>9 DEF add
    <2>2. "error" \in Owning /\ "error" # "mark"
        BY DEF Owning
    <2>3. Locking' /\ pc' \in [Harts -> Labels] /\ pc'[h] = "error"
        BY <1>2, <1>4, <1>6, <2>1, <2>2, OwnerMoves
    <2>4. TypeOK'
        BY <1>1, <1>4, <2>1, <2>3 DEF TypeOK, Descs
    <2>5. Empty'
        BY <1>4, <1>6, <2>1 DEF Empty, Descs
    <2>6. Settled'
        BY <1>3, <1>4, <1>6, <2>3, <2>5 DEF Settled
    <2> QED
        BY <1>8, <2>3, <2>4, <2>6 DEF IInv
<1>10. CASE ~(3 > vq.num_free)
    <2>1. vq' = virtq_add_buf(vq, bufs(h), n_in, h) /\ Goto(h, "kick") /\ req' = req
        BY <1>7, <1>10 DEF add
    <2>2. "kick" \in Owning /\ "kick" # "mark"
        BY DEF Owning
    <2>3. Locking' /\ pc' \in [Harts -> Labels] /\ pc'[h] = "kick"
        BY <1>2, <1>4, <1>6, <2>1, <2>2, OwnerMoves
    <2>4. PICK q, n, m : q = vq /\ n = vq.num /\ m = vq'
        OBVIOUS
    <2>5. n \in Nat /\ q \in Queue(n) /\ q.num = n
        BY <1>1, <2>4 DEF TypeOK
    <2>6. Rest(q, {}) /\ q.data = [i \in Descs(q) |-> Nobody] /\ ~(3 > q.num_free)
        BY <1>6, <1>10, <2>4 DEF Empty
    <2>7. m = virtq_add_buf(q, bufs(h), n_in, h)
        BY <2>1, <2>4
    <2>8. /\ m \in Queue(n) /\ m.avail_idx = NextIdx(q.avail_idx) /\ m.used_idx = q.used_idx
          /\ \E a, b, c \in 0..(n - 1) :
                Flight(m, h, a, b, c) /\ m.ring[q.avail_idx % n] = a
        BY <2>5, <2>6, <2>7, AddFlight
    <2>9. m.num = n
        BY <2>5, <2>8, QueueFields
    <2>10. vq'.num = n /\ Descs(vq)' = Descs(vq)
        BY <2>4, <2>5, <2>9 DEF Descs
    <2>11. TypeOK'
        <3>1. vq'.num \in Nat /\ vq' \in Queue(vq'.num)
            BY <2>4, <2>5, <2>8, <2>10
        <3> QED
            BY <1>1, <1>4, <2>1, <2>3, <2>10, <3>1 DEF TypeOK
    <2>12. Submitted'
        <3>1. PICK a \in 0..(n - 1), b \in 0..(n - 1), c \in 0..(n - 1) :
                 Flight(m, h, a, b, c) /\ m.ring[q.avail_idx % n] = a
            BY <2>8
        <3>2. Queued(a)'
            <4>1. /\ dev.serving = Nobody /\ vq.used_idx = vq.avail_idx /\ used.idx = vq.avail_idx
                  /\ dev.idx = vq.avail_idx
                BY <1>6 DEF Empty
            <4>2. vq'.avail_idx = NextIdx(dev.idx) /\ vq'.used_idx = dev.idx /\ vq'.ring[dev.idx % vq'.num] = a
                BY <2>4, <2>8, <2>10, <3>1, <4>1
            <4> QED
                BY <1>4, <4>1, <4>2 DEF Queued, NextIdx
        <3>3. Flight(vq', dev_lock', a, b, c) /\ a \in Descs(vq)' /\ b \in Descs(vq)' /\ c \in Descs(vq)'
            BY <1>3, <1>4, <2>4, <2>9, <3>1 DEF Descs
        <3>4. /\ dev_lock' \in Harts /\ pc'[dev_lock'] = "kick"
              /\ req'[dev_lock'].live /\ ~req'[dev_lock'].completed
              /\ \A g \in Harts : done'[g] = Nobody
            BY <1>3, <1>4, <1>6, <2>1, <2>3
        <3> QED
            BY <3>2, <3>3, <3>4 DEF Submitted
    <2> QED
        BY <1>8, <2>3, <2>11, <2>12 DEF IInv
<1> QED
    BY <1>9, <1>10

\* The doorbell: nothing depends on dev.notified.
LEMMA Doorbell ==
    ASSUME TypeOK, NEW x \in BOOLEAN, dev' = [dev EXCEPT !.notified = x]
    PROVE  /\ dev' \in [idx : Idx, notified : BOOLEAN, serving : Nat \cup {Nobody}]
           /\ dev'.idx = dev.idx /\ dev'.serving = dev.serving
BY DEF TypeOK

\* The owner of the lock goes round its loop, and may have rung the doorbell.
LEMMA MidStep ==
    ASSUME IInv, NEW h \in Harts, pc[h] \in {"kick", "poll", "take"},
           NEW l \in {"poll", "take"}, Goto(h, l),
           dev' \in [idx : Idx, notified : BOOLEAN, serving : Nat \cup {Nobody}],
           dev'.idx = dev.idx, dev'.serving = dev.serving,
           UNCHANGED <<bootv, vq, used, disk, req, buf, done, dev_lock, irq>>
    PROVE  IInv'
<1>1. TypeOK /\ Booting /\ Locking /\ (Submitted \/ Taken \/ Settled)
    BY DEF IInv
<1>2. pc[h] \in Owning /\ l \in Owning /\ l # "mark"
    BY DEF Owning
<1>3. dev_lock = h /\ boot = "done"
    BY <1>2, OwnerIs
<1>4. /\ boot' = boot /\ vq' = vq /\ used' = used /\ disk' = disk /\ req' = req
      /\ buf' = buf /\ done' = done /\ dev_lock' = dev_lock /\ irq' = irq
    BY DEF bootv
<1>5. done[h] = Nobody
    BY <1>1 DEF Locking
<1>6. Locking' /\ pc' \in [Harts -> Labels] /\ pc'[h] = l
    BY <1>2, <1>4, <1>5, OwnerMoves
<1>7. TypeOK'
    BY <1>1, <1>4, <1>6 DEF TypeOK, Descs
<1>8. Booting'
    BY <1>3, <1>4 DEF Booting
<1>9. Empty => Empty'
    BY <1>4 DEF Empty, Descs
<1>10. Result(h)' <=> Result(h)
    BY <1>4 DEF Result
<1>11. CASE Submitted
    <2>1. Submitted'
        BY <1>3, <1>4, <1>6, <1>10, <1>11 DEF Submitted, Queued, Serving, Answered, Descs
    <2> QED
        BY <1>6, <1>7, <1>8, <2>1 DEF IInv
<1>12. CASE Taken
    <2>1. Taken'
        BY <1>3, <1>4, <1>6, <1>9, <1>10, <1>12 DEF Taken
    <2> QED
        BY <1>6, <1>7, <1>8, <2>1 DEF IInv
<1>13. CASE Settled
    <2>1. Settled'
        BY <1>3, <1>4, <1>6, <1>9, <1>10, <1>13 DEF Settled
    <2> QED
        BY <1>6, <1>7, <1>8, <2>1 DEF IInv
<1> QED
    BY <1>1, <1>11, <1>12, <1>13

LEMMA KickStep ==
    ASSUME IInv, NEW h \in Harts, virtq_kick(h)
    PROVE  IInv'
<1>1. pc[h] = "kick" /\ dev' = [dev EXCEPT !.notified = TRUE] /\ Goto(h, "poll") /\ TypeOK
    BY DEF virtq_kick, IInv
<1>2. UNCHANGED <<bootv, vq, used, disk, req, buf, done, dev_lock, irq>>
    BY DEF virtq_kick
<1>3. /\ dev' \in [idx : Idx, notified : BOOLEAN, serving : Nat \cup {Nobody}]
      /\ dev'.idx = dev.idx /\ dev'.serving = dev.serving
    BY <1>1, Doorbell
<1>4. pc[h] \in {"kick", "poll", "take"} /\ "poll" \in {"poll", "take"}
    BY <1>1
<1> QED
    BY <1>1, <1>2, <1>3, <1>4, MidStep

\* The loop's test: the request is marked, or the ring has something.
LEMMA PollStep ==
    ASSUME IInv, NEW h \in Harts, poll(h)
    PROVE  IInv'
<1>1. TypeOK /\ Booting /\ Locking /\ (Submitted \/ Taken \/ Settled)
    BY DEF IInv
<1>2. pc[h] = "poll" /\ pc[h] \in Owning /\ done[h] = Nobody
    BY <1>1 DEF poll, Owning, Locking
<1>3. dev_lock = h /\ boot = "done"
    BY <1>2, OwnerIs
<1>4. UNCHANGED <<bootv, vq, used, dev, disk, req, buf, done, dev_lock, irq>>
    BY DEF poll
<1>5. /\ boot' = boot /\ vq' = vq /\ used' = used /\ dev' = dev /\ disk' = disk /\ req' = req
      /\ buf' = buf /\ done' = done /\ dev_lock' = dev_lock /\ irq' = irq
    BY <1>4 DEF bootv
<1>6. CASE req[h].completed /\ Goto(h, "finish")
    <2>1. "finish" \in Owning /\ "finish" # "mark"
        BY DEF Owning
    <2>2. Locking' /\ pc' \in [Harts -> Labels] /\ pc'[h] = "finish"
        BY <1>2, <1>5, <1>6, <2>1, OwnerMoves
    <2>3. Settled
        BY <1>1, <1>3, <1>6 DEF Submitted, Taken
    <2>4. Empty' /\ Result(h) /\ (Result(h)' <=> Result(h)) /\ \A g \in Harts : done[g] = Nobody
        BY <1>2, <1>3, <1>5, <2>3 DEF Settled, Empty, Descs, Result
    <2>5. Settled'
        BY <1>3, <1>5, <1>6, <2>2, <2>4 DEF Settled
    <2>6. TypeOK'
        BY <1>1, <1>5, <2>2 DEF TypeOK, Descs
    <2>7. Booting'
        BY <1>3, <1>5 DEF Booting
    <2> QED
        BY <2>2, <2>5, <2>6, <2>7 DEF IInv
<1>7. CASE Goto(h, "take")
    <2>1. pc[h] \in {"kick", "poll", "take"} /\ "take" \in {"poll", "take"}
        BY <1>2
    <2>2. dev' \in [idx : Idx, notified : BOOLEAN, serving : Nat \cup {Nobody}]
          /\ dev'.idx = dev.idx /\ dev'.serving = dev.serving
        BY <1>1, <1>5 DEF TypeOK
    <2> QED
        BY <1>4, <1>7, <2>1, <2>2, MidStep
<1> QED
    BY <1>6, <1>7 DEF poll

\* The request is freed.
LEMMA FinishStep ==
    ASSUME IInv, NEW h \in Harts, finish(h)
    PROVE  IInv'
<1>1. TypeOK /\ Booting /\ Locking /\ (Submitted \/ Taken \/ Settled)
    BY DEF IInv
<1>2. pc[h] = "finish" /\ pc[h] \in Owning /\ done[h] = Nobody
    BY <1>1 DEF finish, Owning, Locking
<1>3. dev_lock = h /\ boot = "done"
    BY <1>2, OwnerIs
<1>4. /\ boot' = boot /\ vq' = vq /\ used' = used /\ dev' = dev /\ disk' = disk
      /\ buf' = buf /\ done' = done /\ dev_lock' = dev_lock /\ irq' = irq
    BY DEF finish, bootv
<1>5. Settled
    BY <1>1, <1>2, <1>3 DEF Submitted, Taken
<1>6. Empty /\ Result(h) /\ \A g \in Harts : done[g] = Nobody
    BY <1>2, <1>3, <1>5 DEF Settled
<1>7. PICK l : l = IF req[h].status = "OK" THEN "ok" ELSE "error"
    OBVIOUS
<1>8. l \in Owning /\ l # "mark" /\ Goto(h, l)
    BY <1>7 DEF finish, Owning
<1>9. Locking' /\ pc' \in [Harts -> Labels] /\ pc'[h] = l
    BY <1>2, <1>4, <1>6, <1>8, OwnerMoves
<1>10. req \in [Harts -> [live : BOOLEAN, write : BOOLEAN, sector : Sectors,
                          status : {"OK", "IOERR"}, completed : BOOLEAN]]
    BY <1>1 DEF TypeOK
<1>11. req' = [req EXCEPT ![h].live = FALSE]
    BY DEF finish
<1>12. req'[h].status = req[h].status /\ req'[h].sector = req[h].sector /\ req'[h].write = req[h].write
    BY <1>10, <1>11
<1>13. req' \in [Harts -> [live : BOOLEAN, write : BOOLEAN, sector : Sectors,
                           status : {"OK", "IOERR"}, completed : BOOLEAN]]
    BY <1>10, <1>11
<1>14. TypeOK'
    BY <1>1, <1>4, <1>9, <1>13 DEF TypeOK, Descs
<1>15. Booting'
    BY <1>3, <1>4 DEF Booting
<1>16. Empty' /\ Result(h)'
    BY <1>4, <1>6, <1>12 DEF Empty, Descs, Result
<1>17. Settled'
    BY <1>3, <1>4, <1>6, <1>7, <1>9, <1>12, <1>16 DEF Settled
<1> QED
    BY <1>9, <1>14, <1>15, <1>17 DEF IInv

\* The lock is released.
LEMMA ReturnStep ==
    ASSUME IInv, NEW h \in Harts, blk_return(h)
    PROVE  IInv'
<1>1. TypeOK /\ Booting /\ Locking /\ (Submitted \/ Taken \/ Settled)
    BY DEF IInv
<1>2. pc[h] \in {"ok", "error"} /\ pc[h] \in Owning /\ done[h] = Nobody
    BY <1>1 DEF blk_return, Owning, Locking
<1>3. dev_lock = h /\ boot = "done" /\ \A g \in Harts : g # h => pc[g] \notin Owning
    BY <1>2, OwnerIs
<1>4. /\ boot' = boot /\ vq' = vq /\ used' = used /\ dev' = dev /\ disk' = disk
      /\ done' = done /\ dev_lock' = Nobody /\ irq' = irq
    BY DEF blk_return, bootv
<1>5. Settled
    BY <1>1, <1>2, <1>3 DEF Submitted, Taken
<1>6. dev_lock' \notin Harts
    BY <1>4, Constants
<1>7. Settled'
    <2>1. Empty'
        BY <1>4, <1>5 DEF Settled, Empty, Descs
    <2> QED
        BY <1>4, <1>5, <1>6, <2>1 DEF Settled
<1>8. /\ pc \in [Harts -> Labels] /\ pc' = [pc EXCEPT ![h] = "idle"]
      /\ buf \in [Harts -> Values \cup {Nobody}] /\ buf' = [buf EXCEPT ![h] = Nobody]
      /\ req' = [req EXCEPT ![h] = NoReq]
      /\ req \in [Harts -> [live : BOOLEAN, write : BOOLEAN, sector : Sectors,
                            status : {"OK", "IOERR"}, completed : BOOLEAN]]
    BY <1>1 DEF TypeOK, blk_return, Goto
<1>9. TypeOK'
    <2>1. pc' \in [Harts -> Labels] /\ buf' \in [Harts -> Values \cup {Nobody}]
        BY <1>8 DEF Labels
    <2>2. NoReq \in [live : BOOLEAN, write : BOOLEAN, sector : Sectors,
                     status : {"OK", "IOERR"}, completed : BOOLEAN]
        <3>1. 0 \in Sectors
            BY Constants DEF Sectors
        <3> QED
            BY <3>1 DEF NoReq
    <2>3. req' \in [Harts -> [live : BOOLEAN, write : BOOLEAN, sector : Sectors,
                              status : {"OK", "IOERR"}, completed : BOOLEAN]]
        BY <1>8, <2>2
    <2> QED
        BY <1>1, <1>4, <2>1, <2>3 DEF TypeOK, Descs
<1>10. Booting'
    BY <1>3, <1>4 DEF Booting
<1>11. Locking'
    <2>1. \A g \in Harts : pc'[g] = IF g = h THEN "idle" ELSE pc[g]
        BY <1>8
    <2>2. \A g \in Harts : pc'[g] \notin Owning /\ g # Nobody
        BY <1>3, <2>1, Constants DEF Owning
    <2>3. \A g \in Harts : done[g] # Nobody <=> pc'[g] \in {"mark", "isr_mark"}
        BY <1>1, <1>2, <2>1 DEF Locking
    <2> QED
        BY <1>4, <2>2, <2>3 DEF Locking
<1> QED
    BY <1>7, <1>9, <1>10, <1>11 DEF IInv

\* The used ring has something exactly when the request's answer is in it.
LEMMA HasBuf ==
    ASSUME IInv, virtq_has_buf
    PROVE  Submitted /\ \E a, b, c \in Descs(vq) :
              Flight(vq, dev_lock, a, b, c) /\ Answered(a) /\ Result(dev_lock)
<1>1. TypeOK /\ (Submitted \/ Taken \/ Settled)
    BY DEF IInv
<1>2. vq.used_idx # used.idx
    BY DEF virtq_has_buf
<1>3. Submitted
    BY <1>1, <1>2 DEF Taken, Settled, Empty
<1> QED
    BY <1>2, <1>3 DEF Submitted, Queued, Serving

\* A hart takes the answer from the ring.
LEMMA TakeBuf ==
    ASSUME IInv, NEW h \in Harts, NEW loop \in {"poll", "isr"}, take(h, loop), virtq_has_buf,
           \/ loop = "poll" /\ pc[h] = "take"
           \/ loop = "isr" /\ pc[h] = "isr_take"
    PROVE  IInv'
<1>1. TypeOK /\ Booting /\ Locking
    BY DEF IInv
<1>2. Submitted
    BY HasBuf
<1>3. PICK a \in Descs(vq), b \in Descs(vq), c \in Descs(vq) :
         Flight(vq, dev_lock, a, b, c) /\ Answered(a) /\ Result(dev_lock)
    BY HasBuf
<1>4. /\ dev_lock \in Harts /\ pc[dev_lock] \in {"kick", "poll", "take"}
      /\ req[dev_lock].live /\ ~req[dev_lock].completed
      /\ \A g \in Harts : done[g] = Nobody
    BY <1>2 DEF Submitted
<1>5. /\ boot' = boot /\ used' = used /\ dev' = dev /\ disk' = disk /\ req' = req
      /\ buf' = buf /\ dev_lock' = dev_lock /\ irq' = irq
    BY DEF take, bootv
<1>6. boot = "done"
    BY <1>1, <1>4, Registered
<1>7. taken(vq) = a
    BY <1>3 DEF Answered, taken
<1>8. vq.data[a] = dev_lock
    BY <1>3 DEF Flight
<1>9. PICK l : l = IF loop = "poll" THEN "mark" ELSE "isr_mark"
    OBVIOUS
<1>10. dev_lock # Nobody
    BY <1>4, Constants
<1>11. pc \in [Harts -> Labels] /\ done \in [Harts -> Harts \cup {Nobody}]
    BY <1>1 DEF TypeOK
<1>12. done' = [done EXCEPT ![h] = dev_lock]
    BY <1>7, <1>8 DEF take
<1>13. \A g \in Harts : done'[g] = IF g = h THEN dev_lock ELSE Nobody
    BY <1>4, <1>11, <1>12
<1>14. pc' = [pc EXCEPT ![h] = l]
    BY <1>9, <1>10, <1>13 DEF take, Goto
<1>15. \A g \in Harts : pc'[g] = IF g = h THEN l ELSE pc[g]
    BY <1>11, <1>14
<1>16. PICK q, n, m, o : q = vq /\ n = vq.num /\ m = vq' /\ o = dev_lock
    OBVIOUS
<1>17. n \in Nat /\ q \in Queue(n) /\ q.num = n /\ o \in Harts
    BY <1>1, <1>4, <1>16 DEF TypeOK
<1>18. /\ m \in Queue(n) /\ m.avail_idx = q.avail_idx /\ m.used_idx = NextIdx(q.used_idx)
       /\ m.data = [i \in 0..(n - 1) |-> Nobody] /\ Rest(m, {})
    <2>1. a \in 0..(n - 1) /\ b \in 0..(n - 1) /\ c \in 0..(n - 1)
        BY <1>16 DEF Descs
    <2>2. Flight(q, o, a, b, c) /\ taken(q) = a
        BY <1>3, <1>7, <1>16
    <2>3. m = virtq_get_buf(q)
        BY <1>16 DEF take
    <2> QED
        BY <1>17, <2>1, <2>2, <2>3, GetBuf
<1>19. m.num = n
    BY <1>17, <1>18, QueueFields
<1>20. vq'.num = n /\ Descs(vq)' = Descs(vq)
    BY <1>16, <1>17, <1>19 DEF Descs
<1>21. TypeOK'
    <2>1. vq'.num \in Nat /\ vq' \in Queue(vq'.num)
        BY <1>16, <1>17, <1>18, <1>20
    <2>2. pc' \in [Harts -> Labels]
        BY <1>9, <1>11, <1>14 DEF Labels, Owning
    <2>3. done' \in [Harts -> Harts \cup {Nobody}]
        BY <1>4, <1>11, <1>12
    <2> QED
        BY <1>1, <1>5, <1>20, <2>1, <2>2, <2>3 DEF TypeOK
<1>22. Booting'
    BY <1>5, <1>6 DEF Booting
<1>23. Locking'
    <2> SUFFICES ASSUME NEW g \in Harts
                 PROVE  /\ dev_lock' = g <=> pc'[g] \in Owning
                        /\ done'[g] # Nobody <=> pc'[g] \in {"mark", "isr_mark"}
        BY DEF Locking
    <2>1. CASE g = h
        <3>1. pc[g] \in Owning <=> l \in Owning
            BY <1>9, <2>1 DEF Owning
        <3>2. l \in {"mark", "isr_mark"} /\ pc'[g] = l
            BY <1>9, <1>15, <2>1
        <3> QED
            BY <1>1, <1>5, <1>10, <1>13, <2>1, <3>1, <3>2 DEF Locking
    <2>2. CASE g # h
        BY <1>1, <1>4, <1>5, <1>13, <1>15, <2>2 DEF Locking
    <2> QED
        BY <2>1, <2>2
<1>24. Taken'
    <2>1. Empty'
        <3>1. /\ dev.serving = Nobody /\ dev.idx = vq.avail_idx /\ used.idx = vq.avail_idx
              /\ vq.avail_idx = NextIdx(vq.used_idx)
            BY <1>3 DEF Answered
        <3>2. vq'.used_idx = vq'.avail_idx /\ vq'.avail_idx = vq.avail_idx /\ Rest(vq', {})
            BY <1>16, <1>18, <3>1
        <3>3. vq'.data = [i \in Descs(vq)' |-> Nobody]
            BY <1>16, <1>18, <1>19 DEF Descs
        <3> QED
            BY <1>5, <3>1, <3>2, <3>3 DEF Empty
    <2>2. pc'[dev_lock'] \in {"kick", "poll", "take", "mark"}
        <3>1. CASE dev_lock = h
            <4>1. loop = "poll"
                BY <1>4, <3>1
            <4> QED
                BY <1>5, <1>9, <1>15, <3>1, <4>1
        <3>2. CASE dev_lock # h
            BY <1>4, <1>5, <1>15, <3>2
        <3> QED
            BY <3>1, <3>2
    <2>3. Result(dev_lock)'
        BY <1>3, <1>5 DEF Result
    <2>4. req'[dev_lock'].live /\ ~req'[dev_lock'].completed /\ dev_lock' \in Harts
        BY <1>4, <1>5
    <2>5. \E k \in Harts : \A g \in Harts : done'[g] = IF g = k THEN dev_lock' ELSE Nobody
        BY <1>5, <1>13
    <2> QED
        BY <2>1, <2>2, <2>3, <2>4, <2>5 DEF Taken
<1> QED
    BY <1>21, <1>22, <1>23, <1>24 DEF IInv

\* A hart takes from the ring, which another hart may have emptied meanwhile.
LEMMA TakeStep ==
    ASSUME IInv, NEW h \in Harts, poll_take(h) \/ isr_take(h)
    PROVE  IInv'
<1>1. TypeOK /\ Locking
    BY DEF IInv
<1>2. PICK loop \in {"poll", "isr"} :
         /\ take(h, loop)
         /\ \/ loop = "poll" /\ pc[h] = "take"
            \/ loop = "isr" /\ pc[h] = "isr_take"
    BY DEF poll_take, isr_take
<1>3. CASE virtq_has_buf
    BY <1>2, <1>3, TakeBuf
<1>4. CASE ~virtq_has_buf
    <2>1. done[h] = Nobody /\ done \in [Harts -> Harts \cup {Nobody}]
        BY <1>1, <1>2 DEF Locking, TypeOK
    <2>2. done' = [done EXCEPT ![h] = Nobody] /\ vq' = vq
        BY <1>2, <1>4 DEF take
    <2>3. done' = done /\ done'[h] = Nobody
        BY <2>1, <2>2
    <2>4. Goto(h, loop)
        BY <1>2, <2>3 DEF take
    <2>5. UNCHANGED <<bootv, vq, used, dev, disk, req, buf, done, dev_lock, irq>>
        BY <1>2, <2>2, <2>3 DEF take
    <2>6. CASE loop = "poll"
        <3>1. pc[h] \in {"kick", "poll", "take"} /\ loop \in {"poll", "take"}
            BY <1>2, <2>6
        <3>2. dev' \in [idx : Idx, notified : BOOLEAN, serving : Nat \cup {Nobody}]
              /\ dev'.idx = dev.idx /\ dev'.serving = dev.serving
            BY <1>1, <2>5 DEF TypeOK
        <3>3. UNCHANGED <<bootv, vq, used, disk, req, buf, done, dev_lock, irq>>
            BY <2>5
        <3> QED
            BY <2>4, <3>1, <3>2, <3>3, MidStep
    <2>7. CASE loop = "isr"
        <3>1. boot = "done" /\ pc[h] \notin Owning \cup {"isr_mark"}
            BY <1>2, <2>7, Registered DEF Owning
        <3>2. loop \in Labels /\ loop \notin Owning \cup {"isr_mark"}
            BY <2>7 DEF Labels, Owning
        <3>3. irq' \in [raised : BOOLEAN, claimed : BOOLEAN]
            BY <1>1, <2>5 DEF TypeOK
        <3>4. UNCHANGED <<bootv, vq, used, dev, disk, req, buf, done, dev_lock>>
            BY <2>5
        <3> QED
            BY <2>4, <3>1, <3>2, <3>3, <3>4, Elsewhere
    <2> QED
        BY <2>6, <2>7
<1> QED
    BY <1>3, <1>4

\* The hart that took the answer marks the request.
LEMMA MarkStep ==
    ASSUME IInv, NEW h \in Harts, poll_mark(h) \/ isr_mark(h)
    PROVE  IInv'
<1>1. TypeOK /\ Booting /\ Locking /\ (Submitted \/ Taken \/ Settled)
    BY DEF IInv
<1>2. PICK loop \in {"poll", "isr"} :
         /\ mark(h, loop)
         /\ \/ loop = "poll" /\ pc[h] = "mark"
            \/ loop = "isr" /\ pc[h] = "isr_mark"
    BY DEF poll_mark, isr_mark
<1>3. done[h] # Nobody
    BY <1>1, <1>2 DEF Locking
<1>4. Taken
    BY <1>1, <1>3 DEF Submitted, Settled
<1>5. /\ dev_lock \in Harts /\ pc[dev_lock] \in {"kick", "poll", "take", "mark"}
      /\ Result(dev_lock) /\ Empty
      /\ \E g \in Harts : \A k \in Harts : done[k] = IF k = g THEN dev_lock ELSE Nobody
    BY <1>4 DEF Taken
<1>6. \A k \in Harts : done[k] = IF k = h THEN dev_lock ELSE Nobody
    BY <1>3, <1>5
<1>7. boot = "done"
    BY <1>2, Registered
<1>8. /\ boot' = boot /\ vq' = vq /\ used' = used /\ dev' = dev /\ disk' = disk
      /\ buf' = buf /\ dev_lock' = dev_lock /\ irq' = irq
    BY <1>2 DEF mark, bootv
<1>9. /\ pc \in [Harts -> Labels] /\ done \in [Harts -> Harts \cup {Nobody}]
      /\ req \in [Harts -> [live : BOOLEAN, write : BOOLEAN, sector : Sectors,
                            status : {"OK", "IOERR"}, completed : BOOLEAN]]
    BY <1>1 DEF TypeOK
<1>10. /\ req' = [req EXCEPT ![dev_lock].completed = TRUE]
       /\ done' = [done EXCEPT ![h] = Nobody] /\ pc' = [pc EXCEPT ![h] = loop]
    BY <1>2, <1>6 DEF mark, Goto
<1>11. \A g \in Harts : pc'[g] = IF g = h THEN loop ELSE pc[g]
    BY <1>9, <1>10
<1>12. \A g \in Harts : done'[g] = Nobody
    BY <1>6, <1>9, <1>10
<1>13. /\ req'[dev_lock].completed /\ req'[dev_lock].status = req[dev_lock].status
       /\ req'[dev_lock].sector = req[dev_lock].sector /\ req'[dev_lock].write = req[dev_lock].write
    BY <1>5, <1>9, <1>10
<1>14. TypeOK'
    <2>1. pc' \in [Harts -> Labels] /\ done' \in [Harts -> Harts \cup {Nobody}]
        BY <1>9, <1>10 DEF Labels, Owning
    <2>2. req' \in [Harts -> [live : BOOLEAN, write : BOOLEAN, sector : Sectors,
                              status : {"OK", "IOERR"}, completed : BOOLEAN]]
        BY <1>5, <1>9, <1>10
    <2> QED
        BY <1>1, <1>8, <2>1, <2>2 DEF TypeOK, Descs
<1>15. Booting'
    BY <1>7, <1>8 DEF Booting
<1>16. \A g \in Harts : g # h => pc[g] \notin {"mark", "isr_mark"}
    BY <1>1, <1>6 DEF Locking
<1>17. Locking'
    <2> SUFFICES ASSUME NEW g \in Harts
                 PROVE  /\ dev_lock' = g <=> pc'[g] \in Owning
                        /\ done'[g] # Nobody <=> pc'[g] \in {"mark", "isr_mark"}
        BY DEF Locking
    <2>1. pc'[g] \in Owning <=> pc[g] \in Owning
        BY <1>2, <1>11 DEF Owning
    <2>2. pc'[g] \notin {"mark", "isr_mark"}
        BY <1>11, <1>16
    <2> QED
        BY <1>1, <1>8, <1>12, <2>1, <2>2 DEF Locking
<1>18. Settled'
    <2>1. Empty' /\ Result(dev_lock)'
        BY <1>5, <1>8, <1>13 DEF Empty, Descs, Result
    <2>2. pc'[dev_lock] \in {"kick", "poll", "take", "finish"}
        <3>1. CASE dev_lock = h
            <4>1. loop = "poll"
                BY <1>2, <1>5, <3>1
            <4> QED
                BY <1>11, <3>1, <4>1
        <3>2. CASE dev_lock # h
            BY <1>5, <1>11, <1>16, <3>2
        <3> QED
            BY <3>1, <3>2
    <2> QED
        BY <1>8, <1>12, <1>13, <2>1, <2>2 DEF Settled
<1> QED
    BY <1>14, <1>15, <1>17, <1>18 DEF IInv

\* virtio_blk_init: the queue is as virtq_create leaves it.
LEMMA BootStep ==
    ASSUME IInv, virtio_blk_init
    PROVE  IInv'
<1>1. TypeOK /\ Booting /\ Locking /\ (Submitted \/ Taken \/ Settled)
    BY DEF IInv
<1>2. boot # "done" /\ boot' \in {"probe", "mmio", "features", "vq", "config", "done", "failed"}
    BY DEF virtio_blk_init, probe, virtio_mmio_init, virtio_negotiate_features, virtio_setup_vq, register, fail
<1>3. /\ \A h \in Harts : pc[h] = "idle"
      /\ ~irq.raised /\ ~dev.notified /\ vq = virtq_create(vq.num) /\ used.idx = 0 /\ dev.idx = 0
    BY <1>1, <1>2 DEF Booting
<1>4. /\ dev' = dev /\ disk' = disk /\ req' = req /\ buf' = buf /\ pc' = pc /\ done' = done
      /\ dev_lock' = dev_lock /\ irq' = irq
      /\ used' = [used EXCEPT !.ring = [i \in 0..(vq'.num - 1) |-> 0]]
    BY DEF virtio_blk_init
<1>5. dev_lock \notin Harts
    BY <1>1, <1>3 DEF Locking, Owning
<1>6. Settled
    BY <1>1, <1>5 DEF Submitted, Taken
<1>7. PICK n \in Nat : vq' = virtq_create(n)
    <2>1. vq' = vq \/ \E k \in Nat : vq' = virtq_create(k)
        <3>1. CASE virtio_setup_vq
            <4>1. PICK max \in QueueMax : LET num == IF VIRTQ_SIZE > max THEN max ELSE VIRTQ_SIZE IN
                     vq' = virtq_create(num) \/ vq' = vq
                BY <3>1 DEF virtio_setup_vq, fail
            <4>2. max \in Nat /\ VIRTQ_SIZE \in Nat
                BY Constants
            <4> QED
                BY <4>1, <4>2
        <3>2. CASE probe \/ virtio_mmio_init \/ virtio_negotiate_features \/ register
            BY <3>2 DEF probe, virtio_mmio_init, virtio_negotiate_features, register, fail
        <3> QED
            BY <3>1, <3>2 DEF virtio_blk_init
    <2>2. vq.num \in Nat
        BY <1>1 DEF TypeOK
    <2> QED
        BY <1>3, <2>1, <2>2
<1>8. PICK m : m = vq'
    OBVIOUS
<1>9. /\ m \in Queue(n) /\ m.num = n /\ m.avail_idx = 0 /\ m.used_idx = 0
      /\ m.data = [i \in Descs(m) |-> Nobody] /\ Rest(m, {})
    BY <1>7, <1>8, CreateRest
<1>10. vq'.num = n
    BY <1>8, <1>9
<1>11. used'.idx = 0 /\ used' \in [idx : Idx, ring : [0..(n - 1) -> Nat]]
    <2>1. PICK r : r = [i \in 0..(n - 1) |-> 0]
        OBVIOUS
    <2>2. r \in [0..(n - 1) -> Nat]
        BY <2>1
    <2>3. used \in [idx : Idx, ring : [Descs(vq) -> Nat]] /\ used' = [used EXCEPT !.ring = r]
        BY <1>1, <1>4, <1>10, <2>1 DEF TypeOK
    <2> QED
        BY <1>3, <2>2, <2>3
<1>12. TypeOK'
    <2>1. vq'.num \in Nat /\ vq' \in Queue(vq'.num) /\ Descs(vq)' = 0..(n - 1)
        BY <1>8, <1>9 DEF Descs
    <2> QED
        BY <1>1, <1>2, <1>4, <1>11, <2>1 DEF TypeOK
<1>13. Booting'
    <2>1. vq' = virtq_create(vq'.num)
        BY <1>7, <1>10
    <2> QED
        BY <1>3, <1>4, <1>11, <2>1 DEF Booting
<1>14. Locking'
    BY <1>1, <1>4 DEF Locking
<1>15. Settled'
    <2>1. Empty'
        <3>1. vq'.data = [i \in Descs(vq)' |-> Nobody] /\ Rest(vq', {}) /\ vq'.avail_idx = 0 /\ vq'.used_idx = 0
            BY <1>8, <1>9 DEF Descs
        <3>2. dev.serving = Nobody
            BY <1>6 DEF Settled, Empty
        <3> QED
            BY <1>3, <1>4, <1>11, <3>1, <3>2 DEF Empty
    <2> QED
        BY <1>4, <1>5, <1>6, <2>1 DEF Settled
<1> QED
    BY <1>12, <1>13, <1>14, <1>15 DEF IInv

\* The device takes the chain of the request from the avail ring.
LEMMA DeviceTakeStep ==
    ASSUME IInv, device_take
    PROVE  IInv'
<1>1. TypeOK /\ Booting /\ Locking /\ (Submitted \/ Taken \/ Settled)
    BY DEF IInv
<1>2. dev.notified /\ dev.serving = Nobody
    BY DEF device_take
<1>3. boot = "done"
    BY <1>2, Registered
<1>4. /\ boot' = boot /\ vq' = vq /\ used' = used /\ disk' = disk /\ req' = req
      /\ buf' = buf /\ pc' = pc /\ done' = done /\ dev_lock' = dev_lock /\ irq' = irq
    BY DEF device_take, bootv
<1>5. Booting'
    BY <1>3, <1>4 DEF Booting
<1>6. Locking'
    BY <1>1, <1>4 DEF Locking
<1>7. \A g \in Harts : Result(g)' <=> Result(g)
    BY <1>4 DEF Result
<1>8. CASE dev.idx = vq.avail_idx
    <2>1. dev' = [dev EXCEPT !.notified = FALSE]
        BY <1>8 DEF device_take
    <2>2. /\ dev' \in [idx : Idx, notified : BOOLEAN, serving : Nat \cup {Nobody}]
          /\ dev'.idx = dev.idx /\ dev'.serving = dev.serving
        BY <1>1, <2>1, Doorbell
    <2>3. TypeOK'
        BY <1>1, <1>4, <2>2 DEF TypeOK, Descs
    <2>4. Empty => Empty'
        BY <1>4, <2>2 DEF Empty, Descs
    <2>5. CASE Submitted
        <3>1. Submitted'
            BY <1>4, <1>7, <2>2, <2>5 DEF Submitted, Queued, Serving, Answered, Descs
        <3> QED
            BY <1>5, <1>6, <2>3, <3>1 DEF IInv
    <2>6. CASE Taken
        <3>1. Taken'
            BY <1>4, <1>7, <2>4, <2>6 DEF Taken
        <3> QED
            BY <1>5, <1>6, <2>3, <3>1 DEF IInv
    <2>7. CASE Settled
        <3>1. Settled'
            BY <1>4, <1>7, <2>4, <2>7 DEF Settled
        <3> QED
            BY <1>5, <1>6, <2>3, <3>1 DEF IInv
    <2> QED
        BY <1>1, <2>5, <2>6, <2>7
<1>9. CASE dev.idx # vq.avail_idx
    <2>1. Submitted
        BY <1>1, <1>9 DEF Taken, Settled, Empty
    <2>2. /\ dev_lock \in Harts /\ pc[dev_lock] \in {"kick", "poll", "take"}
          /\ req[dev_lock].live /\ ~req[dev_lock].completed
          /\ \A h \in Harts : done[h] = Nobody
        BY <2>1 DEF Submitted
    <2>3. PICK a \in Descs(vq), b \in Descs(vq), c \in Descs(vq) :
             Flight(vq, dev_lock, a, b, c) /\ Queued(a)
        BY <1>9, <2>1 DEF Submitted, Serving, Answered
    <2>4. dev' = [dev EXCEPT !.serving = a, !.idx = NextIdx(dev.idx)]
        BY <1>9, <2>3 DEF device_take, Queued, NextIdx
    <2>5. dev \in [idx : Idx, notified : BOOLEAN, serving : Nat \cup {Nobody}]
        BY <1>1 DEF TypeOK
    <2>6. a \in Nat /\ NextIdx(dev.idx) \in Idx
        <3>1. a \in Nat
            BY DEF Descs
        <3>2. dev.idx \in Idx
            BY <2>5
        <3> QED
            BY <3>1, <3>2, NextIdxMoves
    <2>7. /\ dev' \in [idx : Idx, notified : BOOLEAN, serving : Nat \cup {Nobody}]
          /\ dev'.serving = a /\ dev'.idx = NextIdx(dev.idx)
        BY <2>4, <2>5, <2>6
    <2>8. TypeOK'
        BY <1>1, <1>4, <2>7 DEF TypeOK, Descs
    <2>9. Serving(a)'
        <3>1. vq.avail_idx = NextIdx(dev.idx) /\ used.idx = dev.idx /\ vq.used_idx = dev.idx
            BY <2>3 DEF Queued
        <3> QED
            BY <1>4, <2>7, <3>1 DEF Serving, NextIdx
    <2>10. Submitted'
        BY <1>4, <2>2, <2>3, <2>9 DEF Submitted, Descs
    <2> QED
        BY <1>5, <1>6, <2>8, <2>10 DEF IInv
<1> QED
    BY <1>8, <1>9

\* The chain that the device serves is that of the owner of the lock, and its data
\* are in a descriptor the device writes.
LEMMA Served ==
    ASSUME IInv, dev.serving # Nobody
    PROVE  /\ Submitted /\ HdrOwner = dev_lock
           /\ vq.descs[chain(vq, dev.serving)[CHOOSE i \in OfKind("data") : TRUE]].write
           /\ \E a, b, c \in Descs(vq) : Flight(vq, dev_lock, a, b, c) /\ Serving(a)
<1>1. TypeOK /\ (Submitted \/ Taken \/ Settled)
    BY DEF IInv
<1>2. Submitted
    BY <1>1 DEF Taken, Settled, Empty
<1>3. PICK a \in Descs(vq), b \in Descs(vq), c \in Descs(vq) :
         Flight(vq, dev_lock, a, b, c) /\ Serving(a)
    BY <1>2 DEF Submitted, Queued, Answered
<1>4. dev.serving = a
    BY <1>3 DEF Serving
<1>5. /\ a # b /\ b # c /\ a # c /\ Rest(vq, {a, b, c})
      /\ vq.descs[a] = [buf |-> <<"hdr", dev_lock>>, cont |-> TRUE, write |-> FALSE, next |-> b]
      /\ vq.descs[b] = [buf |-> <<"data", dev_lock>>, cont |-> TRUE, write |-> TRUE, next |-> c]
      /\ vq.descs[c] = [buf |-> <<"status", dev_lock>>, cont |-> FALSE, write |-> TRUE, next |-> 0]
    BY <1>3 DEF Flight
<1>6. HdrOwner = dev_lock
    BY <1>4, <1>5 DEF HdrOwner
<1>7. chain(vq, a) = <<a, b, c>>
    <2>1. PICK q : q = vq
        OBVIOUS
    <2>2. Cardinality({a, b, c}) = 3
        <3>1. a # b /\ b # c /\ a # c
            BY <1>5
        <3> QED
            BY <3>1, ThreeDescriptors
    <2>3. q.num \in Nat /\ q.num_free \in Nat
        <3>1. vq.num \in Nat /\ vq \in Queue(vq.num)
            BY <1>1 DEF TypeOK
        <3>2. PICK n : n = vq.num
            OBVIOUS
        <3>3. n \in Nat /\ q \in Queue(n)
            BY <2>1, <3>1, <3>2
        <3> QED
            BY <2>1, <3>1, <3>3, QueueFields
    <2>4. q.num >= 3
        BY <1>5, <2>1, <2>2, <2>3 DEF Rest
    <2>5. /\ q.descs[a].cont /\ q.descs[a].next = b /\ q.descs[b].cont /\ q.descs[b].next = c
          /\ ~q.descs[c].cont
        BY <1>5, <2>1
    <2>6. chain(q, a) = <<a, b, c>>
        BY <2>3, <2>4, <2>5, ChainOfThree
    <2> QED
        BY <2>1, <2>6
<1>8. PICK cs : cs = <<a, b, c>>
    OBVIOUS
<1>9. cs[1] = a /\ cs[2] = b /\ cs[3] = c /\ DOMAIN cs = 1..3
    BY <1>8
<1>10. OfKind("data") = {2}
    <2>1. OfKind("data") = {i \in DOMAIN cs : vq.descs[cs[i]].buf[1] = "data"}
        BY <1>4, <1>7, <1>8 DEF OfKind
    <2>2. /\ vq.descs[cs[1]].buf[1] = "hdr" /\ vq.descs[cs[2]].buf[1] = "data"
          /\ vq.descs[cs[3]].buf[1] = "status"
        BY <1>5, <1>9
    <2>3. \A i \in 1..3 : vq.descs[cs[i]].buf[1] = "data" <=> i = 2
        BY <2>2
    <2> QED
        BY <1>9, <2>1, <2>3
<1>11. (CHOOSE i \in OfKind("data") : TRUE) = 2
    BY <1>10
<1>12. vq.descs[chain(vq, dev.serving)[CHOOSE i \in OfKind("data") : TRUE]].write
    <2>1. chain(vq, dev.serving)[CHOOSE i \in OfKind("data") : TRUE] = b
        BY <1>4, <1>7, <1>8, <1>9, <1>11
    <2> QED
        BY <1>5, <2>1
<1> QED
    BY <1>2, <1>3, <1>6, <1>12

\* The device answers: it writes the result, then the entry of the used ring.
LEMMA DeviceServeStep ==
    ASSUME IInv, device_serve
    PROVE  IInv' /\ disk' = disk
<1>1. TypeOK /\ Booting /\ Locking
    BY DEF IInv
<1>2. dev.serving # Nobody
    BY DEF device_serve
<1>3. boot = "done" /\ Submitted /\ HdrOwner = dev_lock
    BY <1>2, Registered, Served
<1>4. PICK a \in Descs(vq), b \in Descs(vq), c \in Descs(vq) :
         Flight(vq, dev_lock, a, b, c) /\ Serving(a)
    BY <1>2, Served
<1>5. /\ dev_lock \in Harts /\ pc[dev_lock] \in {"kick", "poll", "take"}
      /\ req[dev_lock].live /\ ~req[dev_lock].completed
      /\ \A h \in Harts : done[h] = Nobody
    BY <1>3 DEF Submitted
<1>6. /\ boot' = boot /\ vq' = vq /\ pc' = pc /\ done' = done /\ dev_lock' = dev_lock
      /\ irq' = [irq EXCEPT !.raised = TRUE] /\ dev' = [dev EXCEPT !.serving = Nobody]
      /\ used' = [idx |-> NextIdx(used.idx), ring |-> [used.ring EXCEPT ![used.idx % vq.num] = dev.serving]]
    BY DEF device_serve, bootv, NextIdx
<1>7. PICK o, r : o = dev_lock /\ r = req[dev_lock]
    OBVIOUS
<1>8. \/ /\ r.sector < Capacity /\ req' = [req EXCEPT ![o].status = "OK"] /\ disk' = disk
         /\ buf' = IF ~r.write THEN [buf EXCEPT ![o] = disk[r.sector]] ELSE buf
      \/ req' = [req EXCEPT ![o].status = "IOERR"] /\ disk' = disk /\ buf' = buf
    <2>1. PICK w : w = vq.descs[chain(vq, dev.serving)[CHOOSE i \in OfKind("data") : TRUE]].write
        OBVIOUS
    <2>2. w
        BY <1>2, <2>1, Served
    <2>3. PICK g : g = HdrOwner
        OBVIOUS
    <2>4. g = o
        BY <1>3, <1>7, <2>3
    <2>5. \/ /\ req[g].sector < Capacity
             /\ req' = [req EXCEPT ![g].status = "OK"]
             /\ disk' = IF req[g].write /\ ~w THEN [disk EXCEPT ![req[g].sector] = buf[g]] ELSE disk
             /\ buf' = IF ~req[g].write /\ w THEN [buf EXCEPT ![g] = disk[req[g].sector]] ELSE buf
          \/ /\ req' = [req EXCEPT ![g].status = "IOERR"]
             /\ disk' = disk /\ buf' = buf
        BY <2>1, <2>3 DEF device_serve
    <2> QED
        BY <1>7, <2>2, <2>4, <2>5
<1>9. disk' = disk
    BY <1>8
<1>10. /\ req \in [Harts -> [live : BOOLEAN, write : BOOLEAN, sector : Sectors,
                             status : {"OK", "IOERR"}, completed : BOOLEAN]]
       /\ buf \in [Harts -> Values \cup {Nobody}] /\ disk \in [0..(Capacity - 1) -> Values]
       /\ used \in [idx : Idx, ring : [Descs(vq) -> Nat]]
       /\ dev \in [idx : Idx, notified : BOOLEAN, serving : Nat \cup {Nobody}]
       /\ irq \in [raised : BOOLEAN, claimed : BOOLEAN]
    BY <1>1 DEF TypeOK
<1>11. o \in Harts /\ r = req[o] /\ r.sector \in Nat
    BY <1>5, <1>7, <1>10, Constants DEF Sectors
<1>12. r.sector < Capacity => disk[r.sector] \in Values
    <2>1. r.sector < Capacity => r.sector \in 0..(Capacity - 1)
        BY <1>11, Constants
    <2> QED
        BY <1>10, <2>1
<1>13. /\ req' \in [Harts -> [live : BOOLEAN, write : BOOLEAN, sector : Sectors,
                              status : {"OK", "IOERR"}, completed : BOOLEAN]]
       /\ req'[o].live = r.live /\ req'[o].completed = r.completed
       /\ req'[o].sector = r.sector /\ req'[o].write = r.write
    BY <1>8, <1>10, <1>11
<1>14. buf' \in [Harts -> Values \cup {Nobody}]
    BY <1>8, <1>10, <1>11, <1>12
<1>15. req'[o].status = "OK" => /\ r.sector < Capacity
                                /\ ~r.write => buf'[o] = disk[r.sector]
    <2>1. CASE req' = [req EXCEPT ![o].status = "IOERR"]
        BY <1>10, <1>11, <2>1
    <2>2. CASE /\ r.sector < Capacity
               /\ buf' = IF ~r.write THEN [buf EXCEPT ![o] = disk[r.sector]] ELSE buf
        BY <1>10, <1>11, <2>2
    <2> QED
        BY <1>8, <2>1, <2>2
<1>16. Result(dev_lock)'
    BY <1>6, <1>7, <1>9, <1>13, <1>15 DEF Result
<1>17. PICK n, s : n = vq.num /\ s = used.idx % vq.num
    OBVIOUS
<1>18. n \in Nat /\ Descs(vq) = 0..(n - 1)
    BY <1>1, <1>17 DEF TypeOK, Descs
<1>19. s \in 0..(n - 1) /\ a \in Nat /\ NextIdx(used.idx) \in Idx
    <2>1. a \in Nat /\ n > 0
        BY <1>18
    <2>2. used.idx \in Idx
        BY <1>10
    <2>3. used.idx \in Nat
        BY <2>2, Constants DEF Idx
    <2>4. NextIdx(used.idx) \in Idx
        BY <2>2, NextIdxMoves
    <2>5. used.idx % n \in 0..(n - 1)
        BY <1>18, <2>1, <2>3, SlotInRing
    <2> QED
        BY <1>17, <2>1, <2>4, <2>5
<1>20. /\ dev.serving = a /\ dev.idx = vq.avail_idx
       /\ vq.avail_idx = NextIdx(used.idx) /\ vq.used_idx = used.idx
    BY <1>4 DEF Serving
<1>21. used' = [idx |-> NextIdx(used.idx), ring |-> [used.ring EXCEPT ![s] = a]]
    BY <1>6, <1>17, <1>20
<1>22. used.ring \in [0..(n - 1) -> Nat]
    BY <1>10, <1>18
<1>23. PICK ri : ri = [used.ring EXCEPT ![s] = a]
    OBVIOUS
<1>24. ri \in [0..(n - 1) -> Nat] /\ ri[s] = a
    BY <1>19, <1>22, <1>23
<1>25. /\ used' \in [idx : Idx, ring : [Descs(vq) -> Nat]]
       /\ used'.idx = NextIdx(used.idx) /\ used'.ring[s] = a
    BY <1>18, <1>19, <1>21, <1>23, <1>24
<1>26. /\ dev' \in [idx : Idx, notified : BOOLEAN, serving : Nat \cup {Nobody}]
       /\ dev'.idx = dev.idx /\ dev'.serving = Nobody
       /\ irq' \in [raised : BOOLEAN, claimed : BOOLEAN]
    BY <1>6, <1>10
<1>27. TypeOK'
    BY <1>1, <1>6, <1>9, <1>13, <1>14, <1>25, <1>26 DEF TypeOK, Descs
<1>28. Booting'
    BY <1>3, <1>6 DEF Booting
<1>29. Locking'
    BY <1>1, <1>6 DEF Locking
<1>30. Answered(a)'
    <2>1. used'.ring[vq.used_idx % vq.num] = a
        BY <1>17, <1>20, <1>25
    <2>2. vq.avail_idx = NextIdx(vq.used_idx)
        BY <1>20
    <2>3. used'.idx = vq.avail_idx /\ dev'.idx = vq.avail_idx
        BY <1>20, <1>25, <1>26
    <2> QED
        BY <1>6, <1>26, <2>1, <2>2, <2>3 DEF Answered, NextIdx
<1>31. Submitted'
    <2>1. req'[dev_lock].live /\ ~req'[dev_lock].completed
        BY <1>5, <1>7, <1>13
    <2> QED
        BY <1>4, <1>5, <1>6, <1>16, <1>30, <2>1 DEF Submitted, Descs
<1> QED
    BY <1>9, <1>27, <1>28, <1>29, <1>31 DEF IInv

\* A step that changes nothing.
LEMMA StutterStep ==
    ASSUME IInv, UNCHANGED vars
    PROVE  IInv'
<1>1. /\ boot' = boot /\ vq' = vq /\ used' = used /\ dev' = dev /\ disk' = disk /\ req' = req
      /\ buf' = buf /\ pc' = pc /\ done' = done /\ dev_lock' = dev_lock /\ irq' = irq
    BY DEF vars
<1>2. TypeOK' /\ Booting' /\ Locking'
    BY <1>1 DEF IInv, TypeOK, Booting, Locking, Descs
<1>3. Empty => Empty'
    BY <1>1 DEF Empty, Descs
<1>4. \A g \in Harts : Result(g)' <=> Result(g)
    BY <1>1 DEF Result
<1>5. Submitted => Submitted'
    BY <1>1, <1>4 DEF Submitted, Queued, Serving, Answered, Descs
<1>6. Taken => Taken'
    BY <1>1, <1>3, <1>4 DEF Taken
<1>7. Settled => Settled'
    BY <1>1, <1>3, <1>4 DEF Settled
<1> QED
    BY <1>2, <1>5, <1>6, <1>7 DEF IInv

\* Every step.
LEMMA NextIInv ==
    ASSUME IInv, [Next]_vars
    PROVE  IInv'
<1>1. CASE virtio_blk_init
    BY <1>1, BootStep
<1>2. ASSUME NEW h \in Harts, blk_call(h) \/ trap(h) \/ Driver(h)
      PROVE  IInv'
    <2>1. CASE blk_call(h) \/ trap(h) \/ handle_external(h) \/ virtio_irq_handler(h) \/ virtio_blk_isr(h)
        BY <2>1, ElsewhereSteps
    <2>2. CASE start(h)
        BY <2>2, StartStep
    <2>3. CASE add(h)
        BY <2>3, AddStep
    <2>4. CASE virtq_kick(h)
        BY <2>4, KickStep
    <2>5. CASE poll(h)
        BY <2>5, PollStep
    <2>6. CASE poll_take(h) \/ isr_take(h)
        BY <2>6, TakeStep
    <2>7. CASE poll_mark(h) \/ isr_mark(h)
        BY <2>7, MarkStep
    <2>8. CASE finish(h)
        BY <2>8, FinishStep
    <2>9. CASE blk_return(h)
        BY <2>9, ReturnStep
    <2> QED
        BY <1>2, <2>1, <2>2, <2>3, <2>4, <2>5, <2>6, <2>7, <2>8, <2>9 DEF Driver
<1>3. CASE device_take
    BY <1>3, DeviceTakeStep
<1>4. CASE device_serve
    BY <1>4, DeviceServeStep
<1>5. CASE UNCHANGED vars
    BY <1>5, StutterStep
<1> QED
    BY <1>1, <1>2, <1>3, <1>4, <1>5 DEF Next

\* The inductive invariant holds: the one request in progress is in the queue,
\* taken from it or settled, its chain of three descriptors and the free list are
\* what virtq_add_buf and virtq_get_buf of virtq.c leave, and the indices of the
\* two rings tell where it is.
THEOREM BlkInvariance == Spec => []IInv
BY InitIInv, NextIInv, PTL DEF Spec
-----------------------------------------------------------------------------
(* What the invariant says of the properties. *)

\* The free list hands out num_free different descriptors, none of them busy.
LEMMA FreeListCounts ==
    ASSUME NEW n \in Nat, NEW q \in Queue(n), NEW busy, Rest(q, busy), NEW free,
           free = alloc_descs(q, q.num_free), NEW T, T = ToSet(free)
    PROVE  /\ Cardinality(T) = q.num_free /\ T \cap busy = {}
           /\ q.num_free + Cardinality(busy) = q.num
<1>1. PICK k : k = q.num_free
    OBVIOUS
<1>2. k \in Nat
    BY <1>1, QueueFields
<1>3. PICK fl \in [1..k -> Descs(q)] : FreeList(q, fl, busy)
    BY <1>1 DEF Rest
<1>4. /\ \A i, j \in 1..k : fl[i] = fl[j] => i = j
      /\ \A i \in 1..k : fl[i] \notin busy
      /\ Handed(q, k, fl)
    BY <1>1, <1>3, Zenon DEF FreeList, Handed
<1>5. alloc_descs(q, k) = fl
    BY <1>2, <1>3, <1>4, AllocDescs
<1>6. free = fl /\ DOMAIN free = 1..k
    BY <1>1, <1>3, <1>5
<1>8. T = {fl[i] : i \in 1..k}
    BY <1>6 DEF ToSet
<1>9. fl \in Bijection(1..k, T)
    <2>1. fl \in [1..k -> T]
        BY <1>3, <1>8
    <2>2. fl \in Injection(1..k, T)
        BY <1>4, <2>1 DEF Injection, IsInjective
    <2>3. fl \in Surjection(1..k, T)
        BY <1>8, <2>1 DEF Surjection
    <2> QED
        BY <2>2, <2>3 DEF Bijection
<1>10. ExistsBijection(1..k, T)
    BY <1>9 DEF ExistsBijection
<1>11. IsFiniteSet(1..k) /\ Cardinality(1..k) = k
    BY <1>2, FS_Interval
<1>12. Cardinality(T) = k
    BY <1>10, <1>11, FS_Bijection
<1>13. T \cap busy = {}
    BY <1>4, <1>8
<1> QED
    BY <1>1, <1>12, <1>13 DEF Rest

\* The requests in flight: none, or the one of the owner of the lock.
LEMMA InFlightIs ==
    ASSUME IInv
    PROVE  \/ Submitted /\ \E a, b, c \in Descs(vq) :
                 /\ Flight(vq, dev_lock, a, b, c) /\ InFlight = {a} /\ vq.data[a] = dev_lock
                 /\ dev.serving \in {a, Nobody}
           \/ (Taken \/ Settled) /\ Empty /\ InFlight = {}
<1>1. TypeOK /\ (Submitted \/ Taken \/ Settled)
    BY DEF IInv
<1>2. CASE Submitted
    <2>1. PICK a \in Descs(vq), b \in Descs(vq), c \in Descs(vq) :
             /\ Flight(vq, dev_lock, a, b, c)
             /\ Queued(a) \/ Serving(a) \/ (Answered(a) /\ Result(dev_lock))
        BY <1>2 DEF Submitted
    <2>2. dev.serving \in {a, Nobody}
        BY <2>1 DEF Queued, Serving, Answered
    <2>3. dev_lock # Nobody
        BY <1>2, Constants DEF Submitted
    <2>4. vq.data = [i \in Descs(vq) |-> IF i = a THEN dev_lock ELSE Nobody]
        BY <2>1 DEF Flight
    <2>5. InFlight = {a} /\ vq.data[a] = dev_lock
        BY <2>3, <2>4 DEF InFlight
    <2> QED
        BY <1>2, <2>1, <2>2, <2>5
<1>3. CASE Taken \/ Settled
    <2>1. Empty
        BY <1>3 DEF Taken, Settled
    <2>2. InFlight = {}
        BY <2>1 DEF Empty, InFlight
    <2> QED
        BY <1>3, <2>1, <2>2
<1> QED
    BY <1>1, <1>2, <1>3

LEMMA PartitionedInv ==
    ASSUME IInv
    PROVE  DescriptorsPartitioned
<1> DEFINE busy == UNION {ToSet(chain(vq, i)) : i \in InFlight}
<1>1. PICK q, n, free, bs : /\ q = vq /\ n = vq.num /\ free = alloc_descs(vq, vq.num_free)
                            /\ bs = busy
    OBVIOUS
<1>2. n \in Nat /\ q \in Queue(n)
    BY <1>1 DEF IInv, TypeOK
<1>3. Rest(q, bs)
    <2>1. CASE \E a, b, c \in Descs(vq) : Flight(vq, dev_lock, a, b, c) /\ InFlight = {a}
        <3>1. PICK a \in Descs(vq), b \in Descs(vq), c \in Descs(vq) :
                 Flight(vq, dev_lock, a, b, c) /\ InFlight = {a}
            BY <2>1
        <3>2. /\ a # b /\ b # c /\ a # c /\ Rest(q, {a, b, c})
              /\ q.descs[a].cont /\ q.descs[a].next = b /\ q.descs[b].cont /\ q.descs[b].next = c
              /\ ~q.descs[c].cont
            BY <1>1, <3>1 DEF Flight
        <3>3. Cardinality({a, b, c}) = 3
            BY <3>2, ThreeDescriptors
        <3>4. q.num = n /\ q.num_free \in Nat
            BY <1>2, QueueFields
        <3>5. q.num \in Nat /\ q.num >= 3
            BY <1>2, <3>2, <3>3, <3>4 DEF Rest
        <3>6. chain(q, a) = <<a, b, c>>
            BY <3>2, <3>5, ChainOfThree
        <3>7. PICK cs : cs = <<a, b, c>>
            OBVIOUS
        <3>8. cs[1] = a /\ cs[2] = b /\ cs[3] = c /\ DOMAIN cs = 1..3
            BY <3>7
        <3>9. ToSet(cs) = {a, b, c}
            <4>1. ToSet(cs) = {cs[i] : i \in 1..3}
                BY <3>8 DEF ToSet
            <4> QED
                BY <3>8, <4>1
        <3>10. bs = ToSet(cs)
            BY <1>1, <3>1, <3>6, <3>7
        <3> QED
            BY <3>2, <3>9, <3>10
    <2>2. CASE Empty /\ InFlight = {}
        <3>1. bs = {}
            BY <1>1, <2>2
        <3> QED
            BY <1>1, <2>2, <3>1 DEF Empty
    <2> QED
        BY <2>1, <2>2, InFlightIs
<1>4. free = alloc_descs(q, q.num_free)
    BY <1>1
<1>5. PICK T : T = ToSet(free)
    OBVIOUS
<1>6. /\ Cardinality(T) = q.num_free /\ T \cap bs = {}
      /\ q.num_free + Cardinality(bs) = q.num
    <2> HIDE DEF busy
    <2> QED
        BY <1>2, <1>3, <1>4, <1>5, FreeListCounts
<1>7. T = {free[i] : i \in DOMAIN free}
    BY <1>5 DEF ToSet
<1> QED
    BY <1>1, <1>6, <1>7 DEF DescriptorsPartitioned

\* Descriptors.  At every moment the free list of the virtqueue and the chains of
\* the requests in flight share no descriptor and cover the whole table, and
\* num_free is the length of the list, across any number of virtq_alloc_desc and
\* virtq_free_desc and whichever hart takes the answers.
THEOREM NoDescriptorLost == Spec => []DescriptorsPartitioned
<1>1. IInv => DescriptorsPartitioned
    BY PartitionedInv
<1> QED
    BY <1>1, BlkInvariance, PTL

\* Lifetime.  No request is freed by virtio_blk_rw_internal while the queue, the
\* device or the interrupt handler of another hart can still reach it.
THEOREM NothingFreedInUse == Spec => []ReachableIsLive
<1>1. IInv => ReachableIsLive
    <2> SUFFICES ASSUME IInv PROVE ReachableIsLive
        OBVIOUS
    <2>1. \A i \in InFlight : req[vq.data[i]].live
        BY InFlightIs DEF Submitted
    <2>2. \A h \in Harts : done[h] # Nobody => req[done[h]].live /\ ~req[done[h]].completed
        BY DEF IInv, Submitted, Taken, Settled
    <2>3. ASSUME dev.serving # Nobody
          PROVE  dev.serving \in InFlight /\ req[HdrOwner].live
        <3>1. Submitted /\ HdrOwner = dev_lock
            BY <2>3, Served
        <3>2. dev.serving \in InFlight
            BY <2>3, InFlightIs DEF Empty
        <3> QED
            BY <3>1, <3>2 DEF Submitted
    <2> QED
        BY <2>1, <2>2, <2>3 DEF ReachableIsLive
<1> QED
    BY <1>1, BlkInvariance, PTL

\* A read that virtio_blk_rw_internal reports as done has put the sector's
\* contents in the caller's buffer, and no request is reported as done for a sector
\* past the capacity although the test in blk.c wraps.
THEOREM ReadsAreRight == Spec => []ReadReturnsSector
<1>1. IInv => ReadReturnsSector
    <2> SUFFICES ASSUME IInv, NEW h \in Harts, pc[h] = "ok"
                 PROVE  /\ req[h].sector < Capacity
                        /\ ~req[h].write => buf[h] = disk[req[h].sector]
        BY DEF ReadReturnsSector
    <2>1. dev_lock = h
        BY OwnerIs DEF Owning
    <2>2. Settled
        BY <2>1 DEF IInv, Submitted, Taken
    <2>3. req[h].status = "OK" /\ Result(h)
        BY <2>1, <2>2 DEF Settled
    <2> QED
        BY <2>3 DEF Result
<1> QED
    BY <1>1, BlkInvariance, PTL

\* No block write ever reaches the disk: virtio_blk_rw_internal puts the data among
\* the buffers that the device writes, whether the request is a read or a write.
THEOREM DiskNeverWritten == Spec => [][disk' = disk]_vars
<1>1. IInv /\ [Next]_vars => [disk' = disk]_vars
    <2> SUFFICES ASSUME IInv, Next PROVE disk' = disk
        BY DEF vars
    <2>1. CASE virtio_blk_init
        BY <2>1 DEF virtio_blk_init
    <2>2. ASSUME NEW h \in Harts, blk_call(h) \/ trap(h) \/ Driver(h)
          PROVE  disk' = disk
        BY <2>2 DEF blk_call, trap, Driver, start, add, virtq_kick, poll, poll_take, poll_mark, take, mark,
                    finish, blk_return, handle_external, virtio_irq_handler, virtio_blk_isr, isr_take, isr_mark
    <2>3. CASE device_take
        BY <2>3 DEF device_take
    <2>4. CASE device_serve
        BY <2>4, DeviceServeStep
    <2> QED
        BY <2>1, <2>2, <2>3, <2>4 DEF Next
<1> QED
    BY <1>1, BlkInvariance, PTL DEF Spec
==============================================================================
