---------------------------- MODULE Bcache_proofs ----------------------------
(* Proofs about the buffer cache, for any number of harts, buffers and blocks. *)
EXTENDS Bcache, FiniteSetTheorems, SequenceTheorems, WellFoundedInduction, TLAPS

-----------------------------------------------------------------------------
(* Sets of harts, and the list of buffers. *)

LEMMA HartCount ==
    ASSUME NEW S \in SUBSET Harts
    PROVE  /\ Cardinality(S) \in Nat /\ (Cardinality(S) = 0 <=> S = {})
           /\ \A h \in Harts : h \notin S => Cardinality(S \cup {h}) = Cardinality(S) + 1
           /\ \A h \in S : Cardinality(S \ {h}) = Cardinality(S) - 1
<1>1. IsFiniteSet(S)
    BY BcacheAssumption, FS_Subset DEF BcacheAssumption
<1>2. Cardinality(S) \in Nat
    BY <1>1, FS_CardinalityType
<1>3. Cardinality(S) = 0 <=> S = {}
    BY <1>1, FS_EmptySet
<1>4. \A h \in Harts : h \notin S => Cardinality(S \cup {h}) = Cardinality(S) + 1
    BY <1>1, FS_AddElement
<1>5. \A h \in S : Cardinality(S \ {h}) = Cardinality(S) - 1
    BY <1>1, FS_RemoveElement
<1> QED
    BY <1>2, <1>3, <1>4, <1>5

\* A nonempty set of naturals has a least element, and one with a bound a greatest.
LEMMA LeastExists ==
    ASSUME NEW T, T \subseteq Nat, T # {}
    PROVE  \E x \in T : \A y \in T : x <= y
<1>1. \E x \in T : \A y \in T : ~(<<y, x>> \in OpToRel(<, Nat))
    BY NatLessThanWellFounded, WFMin
<1>2. \E x \in T : \A y \in T : ~(y < x)
    BY <1>1 DEF OpToRel
<1> QED
    BY <1>2

LEMMA GreatestExists ==
    ASSUME NEW n \in Nat, NEW T, T \subseteq 0..n, T # {}
    PROVE  \E x \in T : \A y \in T : y <= x
<1> DEFINE D == {n - x : x \in T}
<1>1. D \subseteq Nat /\ D # {}
    <2>1. PICK x : x \in T
        OBVIOUS
    <2>2. n - x \in D
        BY <2>1
    <2>3. D \subseteq Nat
        OBVIOUS
    <2> QED
        BY <2>2, <2>3
<1>2. PICK d \in D : \A y \in D : d <= y
    <2> HIDE DEF D
    <2> QED
        BY <1>1, LeastExists
<1>3. PICK x \in T : d = n - x
    OBVIOUS
<1>4. \A y \in T : n - y \in D
    OBVIOUS
<1>5. ASSUME NEW y \in T
      PROVE  y <= x
    <2>1. d <= n - y
        BY <1>2, <1>4
    <2>2. n \in Int /\ x \in Int /\ y \in Int
        OBVIOUS
    <2> HIDE DEF D
    <2> QED
        BY <1>3, <2>1, <2>2
<1> QED
    BY <1>5

\* Moving a buffer in the list loses none.
LEMMA MovedList ==
    ASSUME TypeOK, Listed, NEW b \in Bufs, NEW s, s = list_move(b) \/ s = list_move_tail(b)
    PROVE  s \in Seq(Bufs) /\ \A c \in Bufs : \E i \in DOMAIN s : s[i] = c
<1>1. PICK n \in Nat : n = Len(lru) /\ DOMAIN lru = 1..n /\ lru \in Seq(Bufs)
    BY DEF TypeOK
<1>2. PICK i : i = CHOOSE x \in DOMAIN lru : lru[x] = b
    OBVIOUS
<1>3. i \in 1..n /\ lru[i] = b
    BY <1>1, <1>2 DEF Listed
<1>4. PICK p : p = SubSeq(lru, 1, i - 1)
    OBVIOUS
<1>5. PICK q : q = SubSeq(lru, i + 1, n)
    OBVIOUS
<1>6. p \in Seq(Bufs) /\ Len(p) = i - 1 /\ \A j \in 1..(i - 1) : p[j] = lru[j]
    BY <1>1, <1>3, <1>4
<1>7. q \in Seq(Bufs) /\ Len(q) = n - i /\ \A j \in 1..(n - i) : q[j] = lru[j + i]
    BY <1>1, <1>3, <1>5
<1>8. PICK d : d = p \o q
    OBVIOUS
<1>9. /\ d \in Seq(Bufs) /\ Len(d) = n - 1
      /\ \A j \in 1..(n - 1) : d[j] = IF j < i THEN lru[j] ELSE lru[j + 1]
    <2>0. d \in Seq(Bufs) /\ Len(d) = Len(p) + Len(q)
        BY <1>6, <1>7, <1>8, ConcatProperties
    <2>1. d \in Seq(Bufs) /\ Len(d) = n - 1
        BY <1>3, <1>6, <1>7, <2>0
    <2>2. \A j \in 1..(n - 1) : j < i => d[j] = lru[j]
        BY <1>3, <1>6, <1>7, <1>8
    <2>3. \A j \in 1..(n - 1) : j >= i => d[j] = q[j - (i - 1)] /\ j - (i - 1) \in 1..(n - i)
        BY <1>3, <1>6, <1>7, <1>8
    <2>4. \A j \in 1..(n - 1) : j >= i => d[j] = lru[j + 1]
        <3> SUFFICES ASSUME NEW j \in 1..(n - 1), j >= i PROVE d[j] = lru[j + 1]
            OBVIOUS
        <3>1. d[j] = q[j - (i - 1)] /\ j - (i - 1) \in 1..(n - i)
            BY <2>3
        <3>2. q[j - (i - 1)] = lru[(j - (i - 1)) + i]
            BY <1>7, <3>1
        <3>3. (j - (i - 1)) + i = j + 1
            BY <1>3
        <3> QED
            BY <3>1, <3>2, <3>3
    <2> QED
        BY <1>3, <2>1, <2>2, <2>4
<1>10. d = list_del(b)
    BY <1>1, <1>2, <1>4, <1>5, <1>8 DEF list_del, RemoveAt
<1>11. \A c \in Bufs : c # b => \E j \in 1..(n - 1) : d[j] = c
    <2> SUFFICES ASSUME NEW c \in Bufs, c # b PROVE \E j \in 1..(n - 1) : d[j] = c
        OBVIOUS
    <2>1. PICK j \in 1..n : lru[j] = c
        BY <1>1 DEF Listed
    <2>2. CASE j < i
        BY <1>3, <1>9, <2>1, <2>2
    <2>3. CASE j > i
        <3>1. j - 1 \in 1..(n - 1) /\ d[j - 1] = lru[j]
            BY <1>3, <1>9, <2>3
        <3> QED
            BY <2>1, <3>1
    <2> QED
        BY <1>3, <2>1, <2>2, <2>3
<1>12. CASE s = <<b>> \o d
    <2>1. s \in Seq(Bufs) /\ Len(s) = n /\ s[1] = b /\ \A j \in 1..(n - 1) : s[j + 1] = d[j]
        BY <1>3, <1>9, <1>12
    <2>2. \A j \in 1..(n - 1) : j + 1 \in DOMAIN s
        BY <2>1
    <2> QED
        BY <1>3, <1>11, <2>1, <2>2
<1>13. CASE s = d \o <<b>>
    <2>1. s \in Seq(Bufs) /\ Len(s) = n /\ s[n] = b /\ \A j \in 1..(n - 1) : s[j] = d[j]
        BY <1>3, <1>9, <1>13
    <2> QED
        BY <1>3, <1>11, <2>1
<1> QED
    BY <1>10, <1>12, <1>13 DEF list_move, list_move_tail

\* bcache_evict returns an unused buffer when there is one.
LEMMA Evicted ==
    ASSUME TypeOK, Listed, unused # {}
    PROVE  evict \in unused
<1>1. PICK n \in Nat : DOMAIN lru = 1..n
    BY DEF TypeOK
<1> DEFINE T == {i \in 1..n : lru[i] \in unused}
<1>2. T \subseteq 0..n /\ T # {}
    BY <1>1 DEF Listed, unused
<1>3. PICK x \in T : \A y \in T : y <= x
    <2> HIDE DEF T
    <2> QED
        BY <1>2, GreatestExists
<1>4. \E i \in DOMAIN lru : lru[i] \in unused /\ \A j \in DOMAIN lru : lru[j] \in unused => j <= i
    BY <1>1, <1>3
<1> QED
    BY <1>4 DEF evict

LEMMA InitialList == SetToSeq(Bufs) \in Seq(Bufs) /\ \A b \in Bufs : \E i \in DOMAIN SetToSeq(Bufs) : SetToSeq(Bufs)[i] = b
<1>1. IsFiniteSet(Bufs)
    BY BcacheAssumption DEF BcacheAssumption
<1>2. PICK n \in Nat : n = Cardinality(Bufs) /\ ExistsBijection(1..n, Bufs)
    BY <1>1, FS_CardinalityType
<1>3. \E f \in [1..n -> Bufs] : IsInjective(f)
    BY <1>2 DEF ExistsBijection, Bijection, Injection
<1>4. PICK s : s = SetToSeq(Bufs)
    OBVIOUS
<1>5. s \in [1..n -> Bufs] /\ IsInjective(s)
    BY <1>2, <1>3, <1>4 DEF SetToSeq
<1>6. s \in Injection(1..n, Bufs)
    BY <1>5 DEF Injection
<1>7. IsFiniteSet(1..n) /\ Cardinality(1..n) = n
    BY FS_Interval
<1>8. s \in Surjection(1..n, Bufs)
    BY <1>1, <1>2, <1>6, <1>7, FS_Injection
<1>9. s \in Seq(Bufs)
    BY <1>5
<1> QED
    BY <1>4, <1>5, <1>8, <1>9 DEF Surjection
-----------------------------------------------------------------------------
(* Changes of one buffer. *)

LEMMA SetRefcnt ==
    ASSUME NEW f \in [Bufs -> Buffer], NEW b \in Bufs, NEW n \in Int, NEW g, g = [f EXCEPT ![b].refcnt = n]
    PROVE  /\ g \in [Bufs -> Buffer] /\ \A c \in Bufs : c # b => g[c] = f[c]
           /\ g[b].refcnt = n /\ g[b].block = f[b].block /\ g[b].dirty = f[b].dirty
           /\ g[b].valid = f[b].valid /\ g[b].data = f[b].data
<1>1. f[b] \in Buffer /\ g[b] = [f[b] EXCEPT !.refcnt = n] /\ \A c \in Bufs : c # b => g[c] = f[c]
    OBVIOUS
<1>2. PICK r \in Buffer : r = f[b]
    BY <1>1
<1>3. PICK m : m = g[b]
    OBVIOUS
<1>4. m = [r EXCEPT !.refcnt = n]
    BY <1>1, <1>2, <1>3
<1>5. m = [block |-> r.block, refcnt |-> n, dirty |-> r.dirty, valid |-> r.valid, data |-> r.data]
    BY <1>4 DEF Buffer
<1>6. m \in Buffer /\ g = [f EXCEPT ![b] = m]
    BY <1>1, <1>3, <1>5 DEF Buffer
<1> QED
    BY <1>1, <1>2, <1>3, <1>5, <1>6

-----------------------------------------------------------------------------
(* The steps. *)

LEMMA InitIInv == Init => IInv
<1> SUFFICES ASSUME Init PROVE IInv
    OBVIOUS
<1> USE BcacheAssumption DEF BcacheAssumption
<1>1. PICK v \in Values : v = CHOOSE x \in Values : TRUE
    OBVIOUS
<1>2. PICK r : r = [block |-> Nobody, refcnt |-> 0, dirty |-> FALSE, valid |-> FALSE, data |-> v]
    OBVIOUS
<1>3. r \in Buffer /\ r.refcnt = 0 /\ r.dirty = FALSE /\ r.valid = FALSE
    BY <1>2 DEF Buffer
<1>4. bufs = [b \in Bufs |-> r]
    BY <1>1, <1>2 DEF Init
<1>5. lru \in Seq(Bufs) /\ Listed
    BY InitialList DEF Init, Listed
<1>6. TypeOK
    BY <1>3, <1>4, <1>5 DEF Init, TypeOK, Labels
<1>7. Asking /\ Owned /\ Syncing /\ OneBufferPerBlock
    BY DEF Init, Asking, Owned, Syncing, OneBufferPerBlock
<1>8. Current
    BY <1>3, <1>4 DEF Init, Current
<1>9. RefsExact
    <2>1. \A b \in Bufs : Users(b) = {}
        BY DEF Init, Users
    <2>2. Cardinality({}) = 0
        BY FS_EmptySet
    <2> QED
        BY <1>3, <1>4, <2>1, <2>2 DEF RefsExact
<1> QED
    BY <1>5, <1>6, <1>7, <1>8, <1>9 DEF IInv

\* Steps that leave the references of every buffer alone.
LEMMA SameUsers ==
    ASSUME IInv, \A b \in Bufs : Users(b)' = Users(b) /\ bufs'[b].refcnt = bufs[b].refcnt
    PROVE  RefsExact'
BY DEF IInv, RefsExact

\* A buffer that a hart uses has a reference.
LEMMA UsedIsCounted ==
    ASSUME IInv, NEW b \in Bufs
    PROVE  /\ bufs[b].refcnt = 0 <=> Users(b) = {}
           /\ bufs[b].refcnt = Cardinality(Users(b)) /\ bufs[b].refcnt \in Nat
<1>1. Users(b) \in SUBSET Harts
    BY DEF Users
<1> QED
    BY <1>1, HartCount DEF IInv, RefsExact

\* bread: a block above the ones the hart has.
LEMMA BreadStep ==
    ASSUME IInv, NEW h \in Harts, bread(h)
    PROVE  IInv'
<1> USE BcacheAssumption DEF BcacheAssumption
<1>1. PICK k \in Blocks : /\ \A b \in held[h] : k > bufs[b].block
                          /\ want' = [want EXCEPT ![h] = k]
    BY DEF bread
<1>2. /\ pc[h] \in {"idle", "using"} /\ pc' = [pc EXCEPT ![h] = "get"]
      /\ UNCHANGED <<bufs, hashed, lru, lock, buf_lock, disk, at, held, pos, panicked, failed>>
    BY DEF bread, Goto
<1>3. /\ pc' \in [Harts -> Labels] /\ pc'[h] = "get" /\ \A g \in Harts : g # h => pc'[g] = pc[g]
      /\ want' \in [Harts -> Blocks \cup {Nobody}] /\ want'[h] = k /\ k # Nobody
      /\ \A g \in Harts : g # h => want'[g] = want[g]
    BY <1>1, <1>2 DEF IInv, TypeOK, Labels
<1>4. TypeOK'
    BY <1>2, <1>3 DEF IInv, TypeOK
<1>5. Listed' /\ OneBufferPerBlock'
    BY <1>2 DEF IInv, Listed, OneBufferPerBlock
<1>6. Asking'
    BY <1>1, <1>2, <1>3 DEF IInv, Asking
<1>7. Owned'
    BY <1>2, <1>3 DEF IInv, Owned
<1>8. Current'
    BY <1>2, <1>3 DEF IInv, Current
<1>9. Syncing'
    BY <1>2, <1>3 DEF IInv, Syncing
<1>10. RefsExact'
    <2>1. \A b \in Bufs : Users(b)' = Users(b)
        BY <1>2, <1>3 DEF Users
    <2> QED
        BY <1>2, <2>1, SameUsers
<1> QED
    BY <1>4, <1>5, <1>6, <1>7, <1>8, <1>9, <1>10 DEF IInv

\* bcache_get finds the block.
LEMMA HitStep ==
    ASSUME IInv, NEW h \in Harts, pc[h] = "get", lock = Nobody, NEW b \in lookup(want[h]), hit(h, b),
           UNCHANGED <<lock, buf_lock, want, held, pos, failed>>
    PROVE  IInv'
<1> USE BcacheAssumption DEF BcacheAssumption
<1>1. b \in Bufs /\ b \in hashed /\ bufs[b].block = want[h] /\ want[h] \in Blocks /\ at[h] = Nobody
    BY DEF lookup, IInv, TypeOK, Asking
<1>2. /\ bufs' = [bufs EXCEPT ![b].refcnt = bufs[b].refcnt + 1] /\ lru' = list_move(b)
      /\ at' = [at EXCEPT ![h] = b] /\ pc' = [pc EXCEPT ![h] = "lock"]
      /\ UNCHANGED <<hashed, disk, panicked>>
    BY DEF hit, Goto
<1>3. /\ pc' \in [Harts -> Labels] /\ pc'[h] = "lock" /\ \A g \in Harts : g # h => pc'[g] = pc[g]
      /\ at' \in [Harts -> Bufs \cup {Nobody}] /\ at'[h] = b /\ \A g \in Harts : g # h => at'[g] = at[g]
      /\ b # Nobody
    BY <1>1, <1>2 DEF IInv, TypeOK, Labels
<1>4. bufs \in [Bufs -> Buffer] /\ bufs[b].refcnt + 1 \in Int
    BY <1>1 DEF IInv, TypeOK, Buffer
<1>5. /\ bufs' \in [Bufs -> Buffer] /\ \A c \in Bufs : c # b => bufs'[c] = bufs[c]
      /\ bufs'[b].refcnt = bufs[b].refcnt + 1 /\ bufs'[b].block = bufs[b].block
      /\ bufs'[b].dirty = bufs[b].dirty /\ bufs'[b].valid = bufs[b].valid /\ bufs'[b].data = bufs[b].data
    <2>1. PICK n \in Int : n = bufs[b].refcnt + 1
        BY <1>4
    <2>2. bufs' = [bufs EXCEPT ![b].refcnt = n]
        BY <1>2, <2>1
    <2>3. /\ bufs' \in [Bufs -> Buffer] /\ \A c \in Bufs : c # b => bufs'[c] = bufs[c]
          /\ bufs'[b].refcnt = n /\ bufs'[b].block = bufs[b].block
          /\ bufs'[b].dirty = bufs[b].dirty /\ bufs'[b].valid = bufs[b].valid /\ bufs'[b].data = bufs[b].data
        BY <1>1, <1>4, <2>2, SetRefcnt
    <2> QED
        BY <2>1, <2>3
<1>6. \A c \in Bufs : /\ bufs'[c].block = bufs[c].block /\ bufs'[c].dirty = bufs[c].dirty
                      /\ bufs'[c].valid = bufs[c].valid /\ bufs'[c].data = bufs[c].data
    BY <1>5
<1>7. lru' \in Seq(Bufs) /\ Listed'
    BY <1>1, <1>2, MovedList DEF IInv, Listed
<1>8. TypeOK'
    BY <1>2, <1>3, <1>5, <1>7 DEF IInv, TypeOK
<1>9. OneBufferPerBlock'
    BY <1>2, <1>6 DEF IInv, TypeOK, OneBufferPerBlock
<1>10. b \notin held[h]
    <2>1. want[h] \in Nat /\ want[h] # Nobody
        BY <1>1
    <2>2. ~(want[h] > want[h])
        BY <2>1
    <2> QED
        BY <1>1, <2>1, <2>2 DEF IInv, Asking
<1>11. Asking'
    BY <1>1, <1>2, <1>3, <1>6 DEF IInv, TypeOK, Asking
<1>12. Owned'
    BY <1>3 DEF IInv, Owned
<1>13. Current'
    BY <1>1, <1>2, <1>3, <1>6 DEF IInv, TypeOK, Current
<1>14. Syncing'
    BY <1>3 DEF IInv, Syncing
<1>15. RefsExact'
    <2>1. \A c \in Bufs : c # b => Users(c)' = Users(c)
        BY <1>1, <1>3 DEF Users
    <2>2. Users(b)' = Users(b) \cup {h} /\ h \notin Users(b)
        BY <1>1, <1>3, <1>10 DEF Users
    <2>3. Users(b) \in SUBSET Harts
        BY DEF Users
    <2>4. Cardinality(Users(b) \cup {h}) = Cardinality(Users(b)) + 1
        BY <2>2, <2>3, HartCount
    <2> QED
        BY <1>1, <1>5, <2>1, <2>2, <2>4 DEF IInv, RefsExact
<1> QED
    BY <1>7, <1>8, <1>9, <1>11, <1>12, <1>13, <1>14, <1>15 DEF IInv

\* bcache_get takes the buffer of another block, which nobody uses and which
\* has nothing to write back.
LEMMA Unused ==
    ASSUME IInv, unused # {}
    PROVE  /\ evict \in Bufs /\ Users(evict) = {} /\ bufs[evict].dirty = FALSE
           /\ \A h \in Harts : evict \notin held[h]
           /\ written_back = disk
<1>1. evict \in Bufs /\ bufs[evict].refcnt = 0
    BY Evicted DEF IInv, unused
<1>2. Users(evict) = {}
    BY <1>1, UsedIsCounted
<1>3. \A h \in Harts : evict \notin held[h]
    BY <1>2 DEF Users
<1>4. bufs[evict].dirty = FALSE
    <2>1. bufs[evict].dirty \in BOOLEAN
        BY <1>1 DEF IInv, TypeOK, Buffer
    <2> QED
        BY <1>1, <1>3, <2>1 DEF IInv, Current, Asking
<1> QED
    BY <1>1, <1>2, <1>3, <1>4 DEF written_back

LEMMA MissStep ==
    ASSUME IInv, NEW h \in Harts, pc[h] = "get", lock = Nobody, lookup(want[h]) = {}, miss(h),
           UNCHANGED <<lock, buf_lock, want, held, pos, failed>>
    PROVE  IInv'
<1> USE BcacheAssumption DEF BcacheAssumption
<1>0. PICK b : b = evict
    OBVIOUS
<1>1. /\ b \in Bufs /\ Users(b) = {} /\ \A g \in Harts : b \notin held[g]
      /\ written_back = disk /\ want[h] \in Blocks /\ at[h] = Nobody
    BY <1>0, Unused DEF miss, IInv, TypeOK, Asking
<1>2. /\ bufs' = [bufs EXCEPT ![b] = [@ EXCEPT !.block = want[h], !.refcnt = 1,
                                               !.valid = FALSE, !.dirty = FALSE]]
      /\ lru' = list_move(b) /\ hashed' = hashed \cup {b}
      /\ at' = [at EXCEPT ![h] = b] /\ pc' = [pc EXCEPT ![h] = "lock"]
      /\ UNCHANGED <<disk, panicked>>
    BY <1>0, <1>1 DEF miss, Goto
<1>3. /\ pc' \in [Harts -> Labels] /\ pc'[h] = "lock" /\ \A g \in Harts : g # h => pc'[g] = pc[g]
      /\ at' \in [Harts -> Bufs \cup {Nobody}] /\ at'[h] = b /\ \A g \in Harts : g # h => at'[g] = at[g]
      /\ b # Nobody /\ b \in hashed'
    BY <1>1, <1>2 DEF IInv, TypeOK, Labels
<1>4. /\ bufs' \in [Bufs -> Buffer] /\ \A c \in Bufs : c # b => bufs'[c] = bufs[c]
      /\ bufs'[b].refcnt = 1 /\ bufs'[b].block = want[h]
      /\ bufs'[b].dirty = FALSE /\ bufs'[b].valid = FALSE
    <2>1. bufs \in [Bufs -> Buffer]
        BY DEF IInv, TypeOK
    <2>2. PICK k \in Blocks : k = want[h]
        BY <1>1
    <2>3. PICK r \in Buffer : r = bufs[b]
        BY <1>1, <2>1
    <2>4. PICK m : m = [r EXCEPT !.block = k, !.refcnt = 1, !.valid = FALSE, !.dirty = FALSE]
        OBVIOUS
    <2>6. bufs' = [bufs EXCEPT ![b] = m]
        BY <1>2, <2>2, <2>3, <2>4
    <2>5. m = [block |-> k, refcnt |-> 1, dirty |-> FALSE, valid |-> FALSE, data |-> r.data]
        BY <2>4 DEF Buffer
    <2>7. m \in Buffer /\ m.refcnt = 1 /\ m.block = k /\ m.dirty = FALSE /\ m.valid = FALSE
        BY <2>5 DEF Buffer
    <2>8. bufs' \in [Bufs -> Buffer] /\ bufs'[b] = m /\ \A c \in Bufs : c # b => bufs'[c] = bufs[c]
        BY <1>1, <2>1, <2>6, <2>7
    <2> QED
        BY <2>2, <2>7, <2>8
<1>5. lru' \in Seq(Bufs) /\ Listed'
    BY <1>1, <1>2, MovedList DEF IInv, Listed
<1>6. TypeOK'
    BY <1>1, <1>2, <1>3, <1>4, <1>5 DEF IInv, TypeOK
<1>7. OneBufferPerBlock'
    <2>1. \A c \in hashed : c \in Bufs /\ bufs[c].block # want[h]
        BY DEF lookup, IInv, TypeOK
    <2> QED
        BY <1>2, <1>4, <2>1 DEF IInv, OneBufferPerBlock
<1>8. \A g \in Harts : at[g] = b => pc[g] \notin {"lock", "fill", "write", "release"}
    BY <1>1 DEF Users, IInv, Asking
<1>9. Asking'
    <2>1. \A g \in Harts : \A c \in held[g] : c \in Bufs /\ c # b /\ bufs'[c] = bufs[c]
        BY <1>1, <1>4 DEF IInv, TypeOK
    <2>2. \A g \in Harts : g # h /\ pc[g] \in {"lock", "fill"} =>
             at[g] \in Bufs /\ at[g] # b /\ bufs'[at[g]] = bufs[at[g]]
        BY <1>4, <1>8 DEF IInv, TypeOK, Asking
    <2> QED
        BY <1>1, <1>2, <1>3, <1>4, <2>1, <2>2 DEF IInv, Asking
<1>10. Owned'
    BY <1>3 DEF IInv, Owned
<1>11. Current'
    <2>1. \A c \in hashed' : bufs'[c].block \in Blocks
        BY <1>1, <1>2, <1>4 DEF IInv, TypeOK, Current
    <2>2. \A g \in Harts : \A c \in held'[g] : c \in hashed' /\ bufs'[c].valid
        BY <1>1, <1>2, <1>4 DEF IInv, TypeOK, Current
    <2>3. \A c \in Bufs : bufs'[c].dirty => \E g \in Harts : at'[g] = c /\ pc'[g] = "write"
        BY <1>3, <1>4 DEF IInv, Current
    <2>4. \A c \in hashed' : bufs'[c].valid /\ ~bufs'[c].dirty =>
             bufs'[c].data = disk'[bufs'[c].block] \/ bufs'[c].block \in failed'
        BY <1>2, <1>4 DEF IInv, TypeOK, Current
    <2> QED
        BY <2>1, <2>2, <2>3, <2>4 DEF Current
<1>12. Syncing'
    BY <1>3 DEF IInv, Syncing
<1>13. RefsExact'
    <2>1. \A c \in Bufs : c # b => Users(c)' = Users(c)
        BY <1>1, <1>3 DEF Users
    <2>2. Users(b)' = {} \cup {h}
        BY <1>1, <1>3 DEF Users
    <2>3. Cardinality({} \cup {h}) = 1
        BY FS_Singleton
    <2> QED
        BY <1>1, <1>4, <2>1, <2>2, <2>3 DEF IInv, RefsExact
<1> QED
    BY <1>5, <1>6, <1>7, <1>9, <1>10, <1>11, <1>12, <1>13 DEF IInv

LEMMA GetStep ==
    ASSUME IInv, NEW h \in Harts, bcache_get(h)
    PROVE  IInv'
<1>1. pc[h] = "get" /\ lock = Nobody /\ UNCHANGED <<lock, buf_lock, want, held, pos, failed>>
    BY DEF bcache_get
<1>2. ASSUME NEW b \in lookup(want[h]), hit(h, b)
      PROVE  IInv'
    BY <1>1, <1>2, HitStep
<1>3. CASE lookup(want[h]) = {} /\ miss(h)
    BY <1>1, <1>3, MissStep
<1>4. CASE panicked' = TRUE /\ UNCHANGED <<bufs, hashed, lru, disk, at, pc>>
    <2> USE <1>1, <1>4
    <2>1. TypeOK' /\ Listed' /\ Asking' /\ Owned'
        BY DEF IInv, TypeOK, Listed, Asking, Owned
    <2>2. Current' /\ Syncing' /\ OneBufferPerBlock'
        BY DEF IInv, Current, Syncing, OneBufferPerBlock
    <2>3. RefsExact'
        <3>1. \A b \in Bufs : Users(b)' = Users(b)
            BY DEF Users
        <3> QED
            BY <3>1, SameUsers
    <2> QED
        BY <2>1, <2>2, <2>3 DEF IInv
<1> QED
    BY <1>2, <1>3, <1>4 DEF bcache_get

LEMMA LockStep ==
    ASSUME IInv, NEW h \in Harts, lock_buf(h)
    PROVE  IInv'
<1> USE BcacheAssumption DEF BcacheAssumption
<1>1. PICK b : b = at[h]
    OBVIOUS
<1>2. /\ pc[h] = "lock" /\ buf_lock[b] = Nobody /\ buf_lock' = [buf_lock EXCEPT ![b] = h]
      /\ pc' = [pc EXCEPT ![h] = "fill"]
      /\ UNCHANGED <<bufs, hashed, lru, lock, disk, want, at, held, pos, panicked, failed>>
    BY <1>1 DEF lock_buf, Goto
<1>3. b \in Bufs /\ b \in hashed /\ b # Nobody
    BY <1>1, <1>2 DEF IInv, TypeOK, Asking
<1>4. /\ pc' \in [Harts -> Labels] /\ pc'[h] = "fill" /\ \A g \in Harts : g # h => pc'[g] = pc[g]
      /\ buf_lock' \in [Bufs -> Harts \cup {Nobody}] /\ buf_lock'[b] = h
      /\ \A c \in Bufs : c # b => buf_lock'[c] = buf_lock[c]
    BY <1>2, <1>3 DEF IInv, TypeOK, Labels
<1>5. TypeOK'
    BY <1>2, <1>4 DEF IInv, TypeOK
<1>6. Listed' /\ OneBufferPerBlock'
    BY <1>2 DEF IInv, Listed, OneBufferPerBlock
<1>7. Asking'
    BY <1>2, <1>4 DEF IInv, Asking
<1>8. Owned'
    <2>1. \A g \in Harts : b \notin held[g] /\ ~(at[g] = b /\ pc[g] = "fill")
        BY <1>2, <1>3 DEF IInv, Owned
    <2> QED
        BY <1>1, <1>2, <1>4, <2>1 DEF IInv, Owned
<1>9. Current'
    BY <1>2, <1>4 DEF IInv, Current
<1>10. Syncing'
    BY <1>2, <1>4 DEF IInv, Syncing
<1>11. RefsExact'
    <2>1. \A c \in Bufs : Users(c)' = Users(c)
        BY <1>2, <1>4 DEF Users
    <2> QED
        BY <1>2, <2>1, SameUsers
<1> QED
    BY <1>5, <1>6, <1>7, <1>8, <1>9, <1>10, <1>11 DEF IInv

\* The three outcomes of the read at the end of bread.
LEMMA FillFacts ==
    ASSUME IInv, NEW h \in Harts, fill(h), NEW b \in Bufs, b = at[h]
    PROVE  /\ b \in hashed /\ b \in Bufs /\ bufs[b].block = want[h] /\ want[h] \in Blocks
           /\ bufs' \in [Bufs -> Buffer] /\ \A c \in Bufs : c # b => bufs'[c] = bufs[c]
           /\ bufs'[b].refcnt = bufs[b].refcnt /\ bufs'[b].block = bufs[b].block
           /\ bufs'[b].dirty = bufs[b].dirty /\ bufs'[b].valid = TRUE
           /\ bufs'[b].dirty = FALSE
           /\ bufs'[b].data = disk[want[h]] \/ want[h] \in failed'
           /\ failed' \in {failed, failed \cup {want[h]}}
<1> USE BcacheAssumption DEF BcacheAssumption
<1>1. pc[h] = "fill"
    BY DEF fill
<1>2. b \in hashed /\ b \in Bufs /\ bufs[b].block = want[h] /\ want[h] \in Blocks
    BY <1>1 DEF IInv, TypeOK, Asking
<1>3. bufs \in [Bufs -> Buffer] /\ disk[want[h]] \in Values /\ bufs[b] \in Buffer /\ bufs[b].data \in Values
      /\ bufs[b].valid \in BOOLEAN /\ bufs[b].dirty \in BOOLEAN
    BY <1>2 DEF IInv, TypeOK, Buffer
<1>4. bufs[b].dirty = FALSE
    <2>1. buf_lock[b] = h
        BY <1>1, <1>2 DEF IInv, Owned
    <2>2. \A g \in Harts : ~(at[g] = b /\ pc[g] = "write")
        BY <1>1, <1>2, <2>1 DEF IInv, Owned, Asking
    <2> QED
        BY <1>2, <1>3, <2>2 DEF IInv, Current
<1>5. CASE bufs[b].valid /\ UNCHANGED <<bufs, failed>>
    BY <1>2, <1>3, <1>4, <1>5 DEF IInv, Current
<1>6. CASE bufs' = [bufs EXCEPT ![b].data = disk[want[h]], ![b].valid = TRUE] /\ UNCHANGED failed
    <2>1. PICK v \in Values : v = disk[want[h]]
        BY <1>3
    <2>2. PICK r \in Buffer : r = bufs[b]
        BY <1>3
    <2>3. PICK m : m = [r EXCEPT !.data = v, !.valid = TRUE]
        OBVIOUS
    <2>4. m = [block |-> r.block, refcnt |-> r.refcnt, dirty |-> r.dirty, valid |-> TRUE, data |-> v]
        BY <2>3 DEF Buffer
    <2>5. m \in Buffer
        BY <2>4 DEF Buffer
    <2>6. bufs' = [bufs EXCEPT ![b] = m]
        BY <1>6, <2>1, <2>2, <2>3
    <2>7. bufs' \in [Bufs -> Buffer] /\ bufs'[b] = m /\ \A c \in Bufs : c # b => bufs'[c] = bufs[c]
        BY <1>2, <1>3, <2>5, <2>6
    <2> QED
        BY <1>2, <1>4, <1>6, <2>1, <2>2, <2>4, <2>7
<1>7. CASE bufs' = [bufs EXCEPT ![b].valid = TRUE] /\ failed' = failed \cup {want[h]}
    <2>1. PICK r \in Buffer : r = bufs[b]
        BY <1>3
    <2>2. PICK m : m = [r EXCEPT !.valid = TRUE]
        OBVIOUS
    <2>3. m = [block |-> r.block, refcnt |-> r.refcnt, dirty |-> r.dirty, valid |-> TRUE, data |-> r.data]
        BY <2>2 DEF Buffer
    <2>4. m \in Buffer
        BY <2>3 DEF Buffer
    <2>5. bufs' = [bufs EXCEPT ![b] = m]
        BY <1>7, <2>1, <2>2
    <2>6. bufs' \in [Bufs -> Buffer] /\ bufs'[b] = m /\ \A c \in Bufs : c # b => bufs'[c] = bufs[c]
        BY <1>2, <1>3, <2>4, <2>5
    <2> QED
        BY <1>2, <1>4, <1>7, <2>1, <2>3, <2>6
<1> QED
    BY <1>5, <1>6, <1>7 DEF fill

LEMMA FillStep ==
    ASSUME IInv, NEW h \in Harts, fill(h)
    PROVE  IInv'
<1> USE BcacheAssumption DEF BcacheAssumption
<1>1. PICK b : b = at[h]
    OBVIOUS
<1>2. /\ pc[h] = "fill" /\ held' = [held EXCEPT ![h] = held[h] \cup {b}]
      /\ want' = [want EXCEPT ![h] = Nobody] /\ at' = [at EXCEPT ![h] = Nobody]
      /\ pc' = [pc EXCEPT ![h] = "using"]
      /\ UNCHANGED <<hashed, lru, lock, buf_lock, disk, pos, panicked>>
    BY <1>1 DEF fill, Goto
<1>3. /\ b \in hashed /\ b \in Bufs /\ bufs[b].block = want[h] /\ want[h] \in Blocks
      /\ bufs' \in [Bufs -> Buffer] /\ \A c \in Bufs : c # b => bufs'[c] = bufs[c]
      /\ bufs'[b].refcnt = bufs[b].refcnt /\ bufs'[b].block = bufs[b].block
      /\ bufs'[b].dirty = bufs[b].dirty /\ bufs'[b].valid = TRUE
      /\ bufs'[b].data = disk[want[h]] \/ want[h] \in failed'
      /\ failed' \in {failed, failed \cup {want[h]}}
    <2>1. b \in Bufs
        BY <1>1, <1>2 DEF IInv, TypeOK, Asking
    <2> QED
        BY <1>1, <2>1, FillFacts
<1>4. /\ pc' \in [Harts -> Labels] /\ pc'[h] = "using" /\ \A g \in Harts : g # h => pc'[g] = pc[g]
      /\ at' \in [Harts -> Bufs \cup {Nobody}] /\ at'[h] = Nobody
      /\ \A g \in Harts : g # h => at'[g] = at[g]
      /\ want' \in [Harts -> Blocks \cup {Nobody}] /\ want'[h] = Nobody
      /\ \A g \in Harts : g # h => want'[g] = want[g]
      /\ held' \in [Harts -> SUBSET Bufs] /\ held'[h] = held[h] \cup {b}
      /\ \A g \in Harts : g # h => held'[g] = held[g]
    BY <1>2, <1>3 DEF IInv, TypeOK, Labels
<1>5. \A c \in Bufs : /\ bufs'[c].block = bufs[c].block /\ bufs'[c].dirty = bufs[c].dirty
                      /\ bufs'[c].refcnt = bufs[c].refcnt /\ (bufs[c].valid => bufs'[c].valid)
    BY <1>3
<1>6. TypeOK'
    <2>1. failed' \in SUBSET Blocks
        BY <1>3 DEF IInv, TypeOK
    <2> QED
        BY <1>2, <1>3, <1>4, <2>1 DEF IInv, TypeOK
<1>7. Listed'
    BY <1>2 DEF IInv, Listed
<1>8. OneBufferPerBlock'
    BY <1>2, <1>5 DEF IInv, TypeOK, OneBufferPerBlock
<1>9. Asking'
    <2>1. \A g \in Harts : \A c \in held[g] : bufs'[c].block = bufs[c].block
        BY <1>5 DEF IInv, TypeOK
    <2>2. \A g \in Harts : pc[g] \in {"lock", "fill"} => bufs'[at[g]].block = bufs[at[g]].block
        BY <1>5 DEF IInv, TypeOK, Asking
    <2> QED
        BY <1>2, <1>4, <2>1, <2>2 DEF IInv, Asking
<1>10. Owned'
    BY <1>1, <1>2, <1>3, <1>4 DEF IInv, Owned
<1>11. Current'
    <2>1. \A c \in hashed' : bufs'[c].block \in Blocks
        BY <1>2, <1>5 DEF IInv, TypeOK, Current
    <2>2. \A g \in Harts : \A c \in held'[g] : c \in hashed' /\ bufs'[c].valid
        BY <1>2, <1>3, <1>4, <1>5 DEF IInv, TypeOK, Current
    <2>3. \A c \in Bufs : bufs'[c].dirty => \E g \in Harts : at'[g] = c /\ pc'[g] = "write"
        BY <1>2, <1>4, <1>5 DEF IInv, Current
    <2>4. \A c \in hashed' : bufs'[c].valid /\ ~bufs'[c].dirty =>
             bufs'[c].data = disk'[bufs'[c].block] \/ bufs'[c].block \in failed'
        BY <1>2, <1>3 DEF IInv, TypeOK, Current
    <2> QED
        BY <2>1, <2>2, <2>3, <2>4 DEF Current
<1>12. Syncing'
    <2>1. \A g \in Harts : pc[g] = "sync_lock" => lru[pos[g]] \in Bufs
        BY DEF IInv, TypeOK, Syncing
    <2> QED
        BY <1>2, <1>4, <1>5, <2>1 DEF IInv, Syncing
<1>13. RefsExact'
    <2>1. \A c \in Bufs : Users(c)' = Users(c)
        BY <1>1, <1>2, <1>3, <1>4 DEF Users
    <2> QED
        BY <1>5, <2>1, SameUsers
<1> QED
    BY <1>6, <1>7, <1>8, <1>9, <1>10, <1>11, <1>12, <1>13 DEF IInv

\* bwrite marks a buffer that the hart holds.
LEMMA WriteFacts ==
    ASSUME IInv, NEW h \in Harts, bwrite(h)
    PROVE  \E b \in Bufs, v \in Values :
              /\ b \in held[h] /\ at' = [at EXCEPT ![h] = b]
              /\ bufs' \in [Bufs -> Buffer] /\ \A c \in Bufs : c # b => bufs'[c] = bufs[c]
              /\ bufs'[b].refcnt = bufs[b].refcnt /\ bufs'[b].block = bufs[b].block
              /\ bufs'[b].valid = bufs[b].valid /\ bufs'[b].dirty = TRUE /\ bufs'[b].data = v
<1>1. PICK b \in held[h], v \in Values : /\ bufs' = [bufs EXCEPT ![b].data = v, ![b].dirty = TRUE]
                                         /\ at' = [at EXCEPT ![h] = b]
    BY DEF bwrite
<1>2. b \in Bufs /\ bufs \in [Bufs -> Buffer]
    BY DEF IInv, TypeOK
<1>3. PICK r \in Buffer : r = bufs[b]
    BY <1>2
<1>4. PICK m : m = [r EXCEPT !.data = v, !.dirty = TRUE]
    OBVIOUS
<1>5. m = [block |-> r.block, refcnt |-> r.refcnt, dirty |-> TRUE, valid |-> r.valid, data |-> v]
    BY <1>4 DEF Buffer
<1>6. m \in Buffer
    BY <1>5 DEF Buffer
<1>7. bufs' = [bufs EXCEPT ![b] = m]
    BY <1>1, <1>3, <1>4
<1>8. bufs' \in [Bufs -> Buffer] /\ bufs'[b] = m /\ \A c \in Bufs : c # b => bufs'[c] = bufs[c]
    BY <1>2, <1>6, <1>7
<1>9. /\ bufs'[b].refcnt = bufs[b].refcnt /\ bufs'[b].block = bufs[b].block
      /\ bufs'[b].valid = bufs[b].valid /\ bufs'[b].dirty = TRUE /\ bufs'[b].data = v
    BY <1>3, <1>5, <1>8
<1> QED
    BY <1>1, <1>2, <1>8, <1>9

LEMMA WriteStep ==
    ASSUME IInv, NEW h \in Harts, bwrite(h)
    PROVE  IInv'
<1> USE BcacheAssumption DEF BcacheAssumption
<1>1. PICK b \in Bufs, v \in Values :
         /\ b \in held[h] /\ at' = [at EXCEPT ![h] = b]
         /\ bufs' \in [Bufs -> Buffer] /\ \A c \in Bufs : c # b => bufs'[c] = bufs[c]
         /\ bufs'[b].refcnt = bufs[b].refcnt /\ bufs'[b].block = bufs[b].block
         /\ bufs'[b].valid = bufs[b].valid /\ bufs'[b].dirty = TRUE /\ bufs'[b].data = v
    BY WriteFacts
<1>2. /\ pc[h] = "using" /\ pc' = [pc EXCEPT ![h] = "write"]
      /\ UNCHANGED <<hashed, lru, lock, buf_lock, disk, want, held, pos, panicked, failed>>
    BY DEF bwrite, Goto
<1>3. /\ pc' \in [Harts -> Labels] /\ pc'[h] = "write" /\ \A g \in Harts : g # h => pc'[g] = pc[g]
      /\ at' \in [Harts -> Bufs \cup {Nobody}] /\ at'[h] = b /\ b # Nobody
      /\ \A g \in Harts : g # h => at'[g] = at[g]
    BY <1>1, <1>2 DEF IInv, TypeOK, Labels
<1>4. \A c \in Bufs : /\ bufs'[c].block = bufs[c].block /\ bufs'[c].valid = bufs[c].valid
                      /\ bufs'[c].refcnt = bufs[c].refcnt
    BY <1>1
<1>5. TypeOK'
    BY <1>1, <1>2, <1>3 DEF IInv, TypeOK
<1>6. Listed'
    BY <1>2 DEF IInv, Listed
<1>7. OneBufferPerBlock'
    BY <1>2, <1>4 DEF IInv, TypeOK, OneBufferPerBlock
<1>8. Asking'
    <2>1. \A g \in Harts : \A c \in held[g] : bufs'[c].block = bufs[c].block
        BY <1>4 DEF IInv, TypeOK
    <2>2. \A g \in Harts : pc[g] \in {"lock", "fill"} => bufs'[at[g]].block = bufs[at[g]].block
        BY <1>4 DEF IInv, TypeOK, Asking
    <2> QED
        BY <1>1, <1>2, <1>3, <2>1, <2>2 DEF IInv, Asking
<1>9. Owned'
    BY <1>1, <1>2, <1>3 DEF IInv, Owned
<1>10. Current'
    <2>1. \A c \in hashed' : bufs'[c].block \in Blocks
        BY <1>2, <1>4 DEF IInv, TypeOK, Current
    <2>2. \A g \in Harts : \A c \in held'[g] : c \in hashed' /\ bufs'[c].valid
        BY <1>2, <1>4 DEF IInv, TypeOK, Current
    <2>3. \A c \in Bufs : bufs'[c].dirty => \E g \in Harts : at'[g] = c /\ pc'[g] = "write"
        BY <1>1, <1>2, <1>3 DEF IInv, Current
    <2>4. \A c \in hashed' : bufs'[c].valid /\ ~bufs'[c].dirty =>
             bufs'[c].data = disk'[bufs'[c].block] \/ bufs'[c].block \in failed'
        BY <1>1, <1>2 DEF IInv, TypeOK, Current
    <2> QED
        BY <2>1, <2>2, <2>3, <2>4 DEF Current
<1>11. Syncing'
    <2>1. \A g \in Harts : pc[g] = "sync_lock" => lru[pos[g]] \in Bufs
        BY DEF IInv, TypeOK, Syncing
    <2> QED
        BY <1>2, <1>3, <1>4, <2>1 DEF IInv, Syncing
<1>12. RefsExact'
    <2>1. \A c \in Bufs : Users(c)' = Users(c)
        BY <1>1, <1>2, <1>3 DEF Users
    <2> QED
        BY <1>4, <2>1, SameUsers
<1> QED
    BY <1>5, <1>6, <1>7, <1>8, <1>9, <1>10, <1>11, <1>12 DEF IInv

\* blk_write of a buffer: the block has its data, or has failed.
LEMMA PutFacts ==
    ASSUME IInv, NEW b \in hashed, put(b)
    PROVE  /\ b \in Bufs /\ bufs[b].block \in Blocks
           /\ bufs' \in [Bufs -> Buffer] /\ \A c \in Bufs : c # b => bufs'[c] = bufs[c]
           /\ bufs'[b].refcnt = bufs[b].refcnt /\ bufs'[b].block = bufs[b].block
           /\ bufs'[b].valid = bufs[b].valid /\ bufs'[b].dirty = FALSE /\ bufs'[b].data = bufs[b].data
           /\ disk' \in [Blocks -> Values] /\ \A k \in Blocks : k # bufs[b].block => disk'[k] = disk[k]
           /\ failed' \in SUBSET Blocks /\ failed \subseteq failed'
           /\ bufs[b].data = disk'[bufs[b].block] \/ bufs[b].block \in failed'
<1>1. b \in Bufs /\ bufs[b].block \in Blocks /\ bufs \in [Bufs -> Buffer] /\ bufs[b].data \in Values
    BY DEF IInv, TypeOK, Current, Buffer
<1>2. bufs' = [bufs EXCEPT ![b].dirty = FALSE]
    BY DEF put
<1>3. /\ bufs' \in [Bufs -> Buffer] /\ \A c \in Bufs : c # b => bufs'[c] = bufs[c]
      /\ bufs'[b].refcnt = bufs[b].refcnt /\ bufs'[b].block = bufs[b].block
      /\ bufs'[b].valid = bufs[b].valid /\ bufs'[b].dirty = FALSE /\ bufs'[b].data = bufs[b].data
    <2>1. PICK r \in Buffer : r = bufs[b]
        BY <1>1
    <2>2. PICK m : m = [r EXCEPT !.dirty = FALSE]
        OBVIOUS
    <2>3. m = [block |-> r.block, refcnt |-> r.refcnt, dirty |-> FALSE, valid |-> r.valid, data |-> r.data]
        BY <2>2 DEF Buffer
    <2>4. m \in Buffer
        BY <2>3 DEF Buffer
    <2>5. bufs' = [bufs EXCEPT ![b] = m]
        BY <1>2, <2>1, <2>2
    <2>6. bufs' \in [Bufs -> Buffer] /\ bufs'[b] = m /\ \A c \in Bufs : c # b => bufs'[c] = bufs[c]
        BY <1>1, <2>4, <2>5
    <2> QED
        BY <2>1, <2>3, <2>6
<1>4. disk \in [Blocks -> Values] /\ failed \in SUBSET Blocks
    BY DEF IInv, TypeOK
<1>5. CASE disk' = [disk EXCEPT ![bufs[b].block] = bufs[b].data] /\ UNCHANGED failed
    BY <1>1, <1>3, <1>4, <1>5
<1>6. CASE failed' = failed \cup {bufs[b].block} /\ UNCHANGED disk
    BY <1>1, <1>3, <1>4, <1>6
<1> QED
    BY <1>5, <1>6 DEF put

LEMMA PutCurrent ==
    ASSUME IInv, NEW b \in hashed, put(b), UNCHANGED <<hashed, held>>,
           \A g \in Harts : pc[g] = "write" /\ at[g] # b => pc'[g] = "write" /\ at'[g] = at[g]
    PROVE  Current' /\ OneBufferPerBlock'
<1>1. /\ b \in Bufs /\ bufs[b].block \in Blocks
      /\ bufs' \in [Bufs -> Buffer] /\ \A c \in Bufs : c # b => bufs'[c] = bufs[c]
      /\ bufs'[b].refcnt = bufs[b].refcnt /\ bufs'[b].block = bufs[b].block
      /\ bufs'[b].valid = bufs[b].valid /\ bufs'[b].dirty = FALSE /\ bufs'[b].data = bufs[b].data
      /\ disk' \in [Blocks -> Values] /\ \A k \in Blocks : k # bufs[b].block => disk'[k] = disk[k]
      /\ failed' \in SUBSET Blocks /\ failed \subseteq failed'
      /\ bufs[b].data = disk'[bufs[b].block] \/ bufs[b].block \in failed'
    BY PutFacts
<1>2. \A c \in Bufs : bufs'[c].block = bufs[c].block /\ bufs'[c].valid = bufs[c].valid
    BY <1>1
<1>3. OneBufferPerBlock'
    BY <1>2 DEF IInv, TypeOK, OneBufferPerBlock
<1>4. \A c \in hashed' : bufs'[c].block \in Blocks
    BY <1>2 DEF IInv, TypeOK, Current
<1>5. \A g \in Harts : \A c \in held'[g] : c \in hashed' /\ bufs'[c].valid
    BY <1>2 DEF IInv, TypeOK, Current
<1>6. \A c \in Bufs : bufs'[c].dirty => \E g \in Harts : at'[g] = c /\ pc'[g] = "write"
    BY <1>1 DEF IInv, Current
<1>7. ASSUME NEW c \in hashed, bufs'[c].valid, ~bufs'[c].dirty
      PROVE  bufs'[c].data = disk'[bufs'[c].block] \/ bufs'[c].block \in failed'
    <2>1. CASE c = b
        BY <1>1, <2>1
    <2>2. CASE c # b
        <3>1. c \in Bufs /\ bufs'[c] = bufs[c] /\ bufs[c].block \in Blocks /\ bufs[c].block # bufs[b].block
            BY <1>1, <2>2 DEF IInv, TypeOK, Current, OneBufferPerBlock
        <3> QED
            BY <1>1, <1>7, <3>1 DEF IInv, Current
    <2> QED
        BY <2>1, <2>2
<1> QED
    BY <1>3, <1>4, <1>5, <1>6, <1>7 DEF Current

\* The end of bwrite.
LEMMA WriteEndStep ==
    ASSUME IInv, NEW h \in Harts, bwrite_end(h)
    PROVE  IInv'
<1> USE BcacheAssumption DEF BcacheAssumption
<1>1. PICK b : b = at[h]
    OBVIOUS
<1>2. /\ pc[h] = "write" /\ put(b) /\ at' = [at EXCEPT ![h] = Nobody] /\ pc' = [pc EXCEPT ![h] = "using"]
      /\ UNCHANGED <<hashed, lru, lock, buf_lock, want, held, pos, panicked>>
    BY <1>1 DEF bwrite_end, Goto
<1>3. b \in held[h] /\ b \in hashed /\ b \in Bufs
    BY <1>1, <1>2 DEF IInv, TypeOK, Asking, Current
<1>4. /\ bufs' \in [Bufs -> Buffer] /\ \A c \in Bufs : c # b => bufs'[c] = bufs[c]
      /\ bufs'[b].refcnt = bufs[b].refcnt /\ bufs'[b].block = bufs[b].block
      /\ bufs'[b].valid = bufs[b].valid
      /\ disk' \in [Blocks -> Values] /\ failed' \in SUBSET Blocks
    BY <1>2, <1>3, PutFacts
<1>5. /\ pc' \in [Harts -> Labels] /\ pc'[h] = "using" /\ \A g \in Harts : g # h => pc'[g] = pc[g]
      /\ at' \in [Harts -> Bufs \cup {Nobody}] /\ at'[h] = Nobody
      /\ \A g \in Harts : g # h => at'[g] = at[g]
    BY <1>2 DEF IInv, TypeOK, Labels
<1>6. \A c \in Bufs : /\ bufs'[c].block = bufs[c].block /\ bufs'[c].valid = bufs[c].valid
                      /\ bufs'[c].refcnt = bufs[c].refcnt
    BY <1>4
<1>7. TypeOK'
    BY <1>2, <1>4, <1>5 DEF IInv, TypeOK
<1>8. Listed'
    BY <1>2 DEF IInv, Listed
<1>9. Asking'
    <2>1. \A g \in Harts : \A c \in held[g] : bufs'[c].block = bufs[c].block
        BY <1>6 DEF IInv, TypeOK
    <2>2. \A g \in Harts : pc[g] \in {"lock", "fill"} => bufs'[at[g]].block = bufs[at[g]].block
        BY <1>6 DEF IInv, TypeOK, Asking
    <2> QED
        BY <1>2, <1>5, <2>1, <2>2 DEF IInv, Asking
<1>10. Owned'
    BY <1>1, <1>2, <1>3, <1>5 DEF IInv, Owned
<1>11. Current' /\ OneBufferPerBlock'
    BY <1>1, <1>2, <1>3, <1>5, PutCurrent
<1>12. Syncing'
    <2>1. \A g \in Harts : pc[g] = "sync_lock" => lru[pos[g]] \in Bufs
        BY DEF IInv, TypeOK, Syncing
    <2> QED
        BY <1>2, <1>5, <1>6, <2>1 DEF IInv, Syncing
<1>13. RefsExact'
    <2>1. \A c \in Bufs : Users(c)' = Users(c)
        BY <1>2, <1>5 DEF Users
    <2> QED
        BY <1>6, <2>1, SameUsers
<1> QED
    BY <1>7, <1>8, <1>9, <1>10, <1>11, <1>12, <1>13 DEF IInv

\* brelse gives up the lock and keeps the reference.
LEMMA ReleaseStep ==
    ASSUME IInv, NEW h \in Harts, brelse(h)
    PROVE  IInv'
<1> USE BcacheAssumption DEF BcacheAssumption
<1>1. PICK b \in held[h] : /\ buf_lock' = [buf_lock EXCEPT ![b] = Nobody]
                           /\ held' = [held EXCEPT ![h] = held[h] \ {b}]
                           /\ at' = [at EXCEPT ![h] = b]
    BY DEF brelse
<1>2. /\ pc[h] = "using" /\ pc' = [pc EXCEPT ![h] = "release"]
      /\ UNCHANGED <<bufs, hashed, lru, lock, disk, want, pos, panicked, failed>>
    BY DEF brelse, Goto
<1>3. b \in Bufs /\ b # Nobody
    BY DEF IInv, TypeOK
<1>4. /\ pc' \in [Harts -> Labels] /\ pc'[h] = "release" /\ \A g \in Harts : g # h => pc'[g] = pc[g]
      /\ at' \in [Harts -> Bufs \cup {Nobody}] /\ at'[h] = b
      /\ \A g \in Harts : g # h => at'[g] = at[g]
      /\ held' \in [Harts -> SUBSET Bufs] /\ held'[h] = held[h] \ {b}
      /\ \A g \in Harts : g # h => held'[g] = held[g]
      /\ buf_lock' \in [Bufs -> Harts \cup {Nobody}] /\ buf_lock'[b] = Nobody
      /\ \A c \in Bufs : c # b => buf_lock'[c] = buf_lock[c]
    BY <1>1, <1>2, <1>3 DEF IInv, TypeOK, Labels
<1>5. TypeOK'
    BY <1>2, <1>4 DEF IInv, TypeOK
<1>6. Listed' /\ OneBufferPerBlock'
    BY <1>2 DEF IInv, Listed, OneBufferPerBlock
<1>7. Asking'
    BY <1>2, <1>3, <1>4 DEF IInv, Asking
<1>8. Owned'
    <2>1. buf_lock[b] = h /\ \A g \in Harts : g # h => b \notin held[g] /\ ~(at[g] = b /\ pc[g] = "fill")
        BY <1>1, <1>3 DEF IInv, Owned
    <2> QED
        BY <1>2, <1>4, <2>1 DEF IInv, Owned
<1>9. Current'
    <2>1. \A g \in Harts : \A c \in held'[g] : c \in held[g]
        BY <1>4
    <2>2. \A c \in Bufs : bufs'[c].dirty => \E g \in Harts : at'[g] = c /\ pc'[g] = "write"
        BY <1>2, <1>4 DEF IInv, Current
    <2> QED
        BY <1>2, <2>1, <2>2 DEF IInv, Current
<1>10. Syncing'
    BY <1>2, <1>4 DEF IInv, Syncing
<1>11. RefsExact'
    <2>1. \A c \in Bufs : Users(c)' = Users(c)
        BY <1>1, <1>2, <1>4 DEF Users
    <2> QED
        BY <1>2, <2>1, SameUsers
<1> QED
    BY <1>5, <1>6, <1>7, <1>8, <1>9, <1>10, <1>11 DEF IInv

\* The end of brelse drops the reference.
LEMMA ReleaseEndStep ==
    ASSUME IInv, NEW h \in Harts, brelse_end(h)
    PROVE  IInv'
<1> USE BcacheAssumption DEF BcacheAssumption
<1>0. PICK l : l = IF held[h] = {} THEN "idle" ELSE "using"
    OBVIOUS
<1>1. PICK b : b = at[h]
    OBVIOUS
<1>2. /\ pc[h] = "release" /\ lock = Nobody /\ bufs' = [bufs EXCEPT ![b].refcnt = bufs[b].refcnt - 1]
      /\ lru' = list_move_tail(b) \/ lru' = lru
      /\ at' = [at EXCEPT ![h] = Nobody] /\ pc' = [pc EXCEPT ![h] = l]
      /\ UNCHANGED <<hashed, lock, buf_lock, disk, want, held, pos, panicked, failed>>
    BY <1>0, <1>1 DEF brelse_end, Goto
<1>3. b \in Bufs /\ b \notin held[h] /\ bufs \in [Bufs -> Buffer] /\ bufs[b].refcnt - 1 \in Int
    <2>1. b \in Bufs /\ b \notin held[h] /\ bufs \in [Bufs -> Buffer]
        BY <1>1, <1>2 DEF IInv, TypeOK, Asking
    <2>2. bufs[b].refcnt \in Int
        BY <2>1 DEF Buffer
    <2> QED
        BY <2>1, <2>2
<1>4. /\ bufs' \in [Bufs -> Buffer] /\ \A c \in Bufs : c # b => bufs'[c] = bufs[c]
      /\ bufs'[b].refcnt = bufs[b].refcnt - 1 /\ bufs'[b].block = bufs[b].block
      /\ bufs'[b].dirty = bufs[b].dirty /\ bufs'[b].valid = bufs[b].valid /\ bufs'[b].data = bufs[b].data
    <2>1. PICK n \in Int : n = bufs[b].refcnt - 1
        BY <1>3
    <2>2. bufs' = [bufs EXCEPT ![b].refcnt = n]
        BY <1>2, <2>1
    <2>3. /\ bufs' \in [Bufs -> Buffer] /\ \A c \in Bufs : c # b => bufs'[c] = bufs[c]
          /\ bufs'[b].refcnt = n /\ bufs'[b].block = bufs[b].block
          /\ bufs'[b].dirty = bufs[b].dirty /\ bufs'[b].valid = bufs[b].valid /\ bufs'[b].data = bufs[b].data
        BY <1>3, <2>2, SetRefcnt
    <2> QED
        BY <2>1, <2>3
<1>5. /\ pc' \in [Harts -> Labels] /\ pc'[h] = l /\ \A g \in Harts : g # h => pc'[g] = pc[g]
      /\ at' \in [Harts -> Bufs \cup {Nobody}] /\ at'[h] = Nobody
      /\ \A g \in Harts : g # h => at'[g] = at[g]
      /\ l \in {"idle", "using"} /\ (l = "idle" => held[h] = {})
    BY <1>0, <1>2 DEF IInv, TypeOK, Labels
<1>6. \A c \in Bufs : /\ bufs'[c].block = bufs[c].block /\ bufs'[c].dirty = bufs[c].dirty
                      /\ bufs'[c].valid = bufs[c].valid /\ bufs'[c].data = bufs[c].data
    BY <1>4
<1>7. lru' \in Seq(Bufs) /\ Listed'
    <2>1. CASE lru' = lru
        BY <2>1 DEF IInv, TypeOK, Listed
    <2>2. CASE lru' = list_move_tail(b)
        BY <1>3, <2>2, MovedList DEF IInv, Listed
    <2> QED
        BY <1>2, <2>1, <2>2
<1>8. TypeOK'
    BY <1>2, <1>4, <1>5, <1>7 DEF IInv, TypeOK
<1>9. OneBufferPerBlock'
    BY <1>2, <1>6 DEF IInv, TypeOK, OneBufferPerBlock
<1>10. Asking'
    <2>1. \A g \in Harts : \A c \in held[g] : bufs'[c].block = bufs[c].block
        BY <1>6 DEF IInv, TypeOK
    <2>2. \A g \in Harts : pc[g] \in {"lock", "fill"} => bufs'[at[g]].block = bufs[at[g]].block
        BY <1>6 DEF IInv, TypeOK, Asking
    <2> QED
        BY <1>2, <1>5, <2>1, <2>2 DEF IInv, Asking
<1>11. Owned'
    BY <1>2, <1>5 DEF IInv, Owned
<1>12. Current'
    <2>1. \A c \in Bufs : bufs'[c].dirty => \E g \in Harts : at'[g] = c /\ pc'[g] = "write"
        BY <1>2, <1>5, <1>6 DEF IInv, Current
    <2> QED
        BY <1>2, <1>6, <2>1 DEF IInv, TypeOK, Current
<1>13. Syncing'
    BY <1>2, <1>5 DEF IInv, Syncing
<1>14. RefsExact'
    <2>1. \A c \in Bufs : c # b => Users(c)' = Users(c)
        BY <1>1, <1>2, <1>5 DEF Users
    <2>2. Users(b)' = Users(b) \ {h} /\ h \in Users(b)
        BY <1>1, <1>2, <1>3, <1>5 DEF Users
    <2>3. Users(b) \in SUBSET Harts
        BY DEF Users
    <2>4. Cardinality(Users(b) \ {h}) = Cardinality(Users(b)) - 1
        BY <2>2, <2>3, HartCount
    <2> QED
        BY <1>3, <1>4, <2>1, <2>2, <2>4 DEF IInv, RefsExact
<1> QED
    BY <1>7, <1>8, <1>9, <1>10, <1>11, <1>12, <1>13, <1>14 DEF IInv

\* bcache_sync takes bcache.lock, goes from buffer to buffer and releases it.
LEMMA SyncStep ==
    ASSUME IInv, NEW h \in Harts, sync_begin(h) \/ sync_scan(h)
    PROVE  IInv'
<1> USE BcacheAssumption DEF BcacheAssumption
<1>0. UNCHANGED <<bufs, hashed, lru, buf_lock, disk, want, at, held, panicked, failed>>
    BY DEF sync_begin, sync_scan
<1>1. ASSUME NEW l \in {"idle", "sync", "sync_lock"}, pc[h] \in {"idle", "sync"},
             pc' = [pc EXCEPT ![h] = l], lock' \in Harts \cup {Nobody}, pos' \in [Harts -> Nat]
      PROVE  TypeOK' /\ Listed' /\ Asking' /\ Owned' /\ Current' /\ OneBufferPerBlock' /\ RefsExact'
    <2>1. pc' \in [Harts -> Labels] /\ pc'[h] = l /\ \A g \in Harts : g # h => pc'[g] = pc[g]
        BY <1>1 DEF IInv, TypeOK, Labels
    <2>2. TypeOK' /\ Listed' /\ OneBufferPerBlock'
        BY <1>0, <1>1, <2>1 DEF IInv, TypeOK, Listed, OneBufferPerBlock
    <2>3. Asking'
        BY <1>0, <1>1, <2>1 DEF IInv, Asking
    <2>4. Owned'
        BY <1>0, <1>1, <2>1 DEF IInv, Owned
    <2>5. Current'
        BY <1>0, <1>1, <2>1 DEF IInv, Current
    <2>6. \A c \in Bufs : Users(c)' = Users(c)
        BY <1>0, <1>1, <2>1 DEF Users
    <2>7. RefsExact'
        BY <1>0, <2>6, SameUsers
    <2> QED
        BY <2>2, <2>3, <2>4, <2>5, <2>7
<1>2. pc \in [Harts -> Labels] /\ pos \in [Harts -> Nat] /\ lru \in Seq(Bufs) /\ lock \in Harts \cup {Nobody}
    BY DEF IInv, TypeOK
<1>3. CASE sync_begin(h)
    <2>1. /\ pc[h] = "idle" /\ lock = Nobody /\ lock' = h /\ pos' = [pos EXCEPT ![h] = 1]
          /\ pc' = [pc EXCEPT ![h] = "sync"]
        BY <1>3 DEF sync_begin, Goto
    <2>2. /\ pc'[h] = "sync" /\ pos'[h] = 1 /\ pos' \in [Harts -> Nat]
          /\ \A g \in Harts : g # h => pc'[g] = pc[g] /\ pos'[g] = pos[g]
        BY <1>2, <2>1
    <2>3. Syncing'
        BY <1>0, <2>1, <2>2 DEF IInv, Syncing
    <2>4. TypeOK' /\ Listed' /\ Asking' /\ Owned' /\ Current' /\ OneBufferPerBlock' /\ RefsExact'
        BY <1>1, <2>1, <2>2
    <2> QED
        BY <2>3, <2>4 DEF IInv
<1>4. CASE pc[h] = "sync" /\ lock' = Nobody /\ Goto(h, "idle") /\ pos' = [pos EXCEPT ![h] = 0]
    <2>1. pc' = [pc EXCEPT ![h] = "idle"]
        BY <1>4 DEF Goto
    <2>2. /\ pc'[h] = "idle" /\ pos' \in [Harts -> Nat]
          /\ \A g \in Harts : g # h => pc'[g] = pc[g] /\ pos'[g] = pos[g]
        BY <1>2, <1>4, <2>1
    <2>3. lock = h
        BY <1>4 DEF IInv, Syncing
    <2>4. Syncing'
        BY <1>0, <1>4, <2>2, <2>3 DEF IInv, Syncing
    <2>5. TypeOK' /\ Listed' /\ Asking' /\ Owned' /\ Current' /\ OneBufferPerBlock' /\ RefsExact'
        BY <1>1, <1>4, <2>1, <2>2
    <2> QED
        BY <2>4, <2>5 DEF IInv
<1>5. CASE /\ pc[h] = "sync" /\ ~(pos[h] > Len(lru)) /\ bufs[lru[pos[h]]].dirty
           /\ Goto(h, "sync_lock") /\ UNCHANGED <<lock, pos>>
    <2>1. pc' = [pc EXCEPT ![h] = "sync_lock"]
        BY <1>5 DEF Goto
    <2>2. pc'[h] = "sync_lock" /\ \A g \in Harts : g # h => pc'[g] = pc[g]
        BY <1>2, <2>1
    <2>3. PICK b : b = lru[pos[h]]
        OBVIOUS
    <2>4. pos[h] \in DOMAIN lru /\ b \in Bufs /\ bufs[b].dirty
        <3>1. pos[h] \in Nat /\ pos[h] > 0 /\ Len(lru) \in Nat
            BY <1>2, <1>5 DEF IInv, Syncing
        <3>2. pos[h] \in 1..Len(lru)
            BY <1>5, <3>1
        <3> QED
            BY <1>2, <1>5, <2>3, <3>2
    <2>5. PICK g \in Harts : at[g] = b /\ pc[g] = "write" /\ b \in held[g]
        BY <2>4 DEF IInv, Current, Asking
    <2>6. b \in hashed /\ bufs[b].valid /\ \A f \in Harts : b \in held[f] => f = g
        BY <2>4, <2>5 DEF IInv, Current, Owned
    <2>7. Syncing'
        BY <1>0, <1>5, <2>2, <2>3, <2>4, <2>5, <2>6 DEF IInv, Syncing
    <2>8. TypeOK' /\ Listed' /\ Asking' /\ Owned' /\ Current' /\ OneBufferPerBlock' /\ RefsExact'
        BY <1>1, <1>2, <1>5, <2>1
    <2> QED
        BY <2>7, <2>8 DEF IInv
<1>6. CASE pc[h] = "sync" /\ pos' = [pos EXCEPT ![h] = pos[h] + 1] /\ UNCHANGED <<lock, pc>>
    <2>1. /\ pos' \in [Harts -> Nat] /\ pos'[h] = pos[h] + 1 /\ pos[h] \in Nat
          /\ \A g \in Harts : g # h => pos'[g] = pos[g]
        BY <1>2, <1>6
    <2>2. pc' = [pc EXCEPT ![h] = "sync"]
        BY <1>2, <1>6
    <2>3. Syncing'
        BY <1>0, <1>6, <2>1 DEF IInv, Syncing
    <2>4. TypeOK' /\ Listed' /\ Asking' /\ Owned' /\ Current' /\ OneBufferPerBlock' /\ RefsExact'
        BY <1>1, <1>2, <1>6, <2>1, <2>2
    <2> QED
        BY <2>3, <2>4 DEF IInv
<1> QED
    BY <1>3, <1>4, <1>5, <1>6 DEF sync_scan

LEMMA SyncWriteStep ==
    ASSUME IInv, NEW h \in Harts, sync_write(h)
    PROVE  IInv'
<1> USE BcacheAssumption DEF BcacheAssumption
<1>1. PICK b : b = lru[pos[h]]
    OBVIOUS
<1>2. /\ pc[h] = "sync_lock" /\ buf_lock[b] = Nobody /\ put(b)
      /\ pos' = [pos EXCEPT ![h] = pos[h] + 1] /\ pc' = [pc EXCEPT ![h] = "sync"]
      /\ UNCHANGED <<hashed, lru, lock, buf_lock, want, at, held, panicked>>
    BY <1>1 DEF sync_write, Goto
<1>3. b \in hashed /\ b \in Bufs
    BY <1>1, <1>2 DEF IInv, TypeOK, Syncing
<1>4. /\ bufs' \in [Bufs -> Buffer] /\ \A c \in Bufs : c # b => bufs'[c] = bufs[c]
      /\ bufs'[b].refcnt = bufs[b].refcnt /\ bufs'[b].block = bufs[b].block
      /\ bufs'[b].valid = bufs[b].valid
      /\ disk' \in [Blocks -> Values] /\ failed' \in SUBSET Blocks
    BY <1>2, <1>3, PutFacts
<1>5. /\ pc' \in [Harts -> Labels] /\ pc'[h] = "sync" /\ \A g \in Harts : g # h => pc'[g] = pc[g]
      /\ pos' \in [Harts -> Nat] /\ pos'[h] = pos[h] + 1 /\ pos[h] \in Nat
      /\ \A g \in Harts : g # h => pos'[g] = pos[g]
    BY <1>2 DEF IInv, TypeOK, Labels
<1>6. \A c \in Bufs : /\ bufs'[c].block = bufs[c].block /\ bufs'[c].valid = bufs[c].valid
                      /\ bufs'[c].refcnt = bufs[c].refcnt
    BY <1>4
<1>7. TypeOK'
    BY <1>2, <1>4, <1>5 DEF IInv, TypeOK
<1>8. Listed'
    BY <1>2 DEF IInv, Listed
<1>9. Asking'
    <2>1. \A g \in Harts : \A c \in held[g] : bufs'[c].block = bufs[c].block
        BY <1>6 DEF IInv, TypeOK
    <2>2. \A g \in Harts : pc[g] \in {"lock", "fill"} => bufs'[at[g]].block = bufs[at[g]].block
        BY <1>6 DEF IInv, TypeOK, Asking
    <2> QED
        BY <1>2, <1>5, <2>1, <2>2 DEF IInv, Asking
<1>10. Owned'
    BY <1>2, <1>5 DEF IInv, Owned
<1>11. Current' /\ OneBufferPerBlock'
    BY <1>2, <1>3, <1>5, PutCurrent
<1>12. Syncing'
    <2>1. lock = h
        BY <1>2 DEF IInv, Syncing
    <2> QED
        BY <1>2, <1>5, <2>1 DEF IInv, Syncing
<1>13. RefsExact'
    <2>1. \A c \in Bufs : Users(c)' = Users(c)
        BY <1>2, <1>5 DEF Users
    <2> QED
        BY <1>6, <2>1, SameUsers
<1> QED
    BY <1>7, <1>8, <1>9, <1>10, <1>11, <1>12, <1>13 DEF IInv
-----------------------------------------------------------------------------
LEMMA NextIInv == IInv /\ [Next]_vars => IInv'
<1> SUFFICES ASSUME IInv, [Next]_vars PROVE IInv'
    OBVIOUS
<1>1. CASE UNCHANGED vars
    <2> USE <1>1 DEF vars
    <2>1. TypeOK' /\ Listed' /\ Asking' /\ Owned'
        BY DEF IInv, TypeOK, Listed, Asking, Owned
    <2>2. Current' /\ Syncing' /\ OneBufferPerBlock'
        BY DEF IInv, Current, Syncing, OneBufferPerBlock
    <2>3. \A b \in Bufs : Users(b)' = Users(b)
        BY DEF Users
    <2>4. RefsExact'
        BY <2>3, SameUsers
    <2> QED
        BY <2>1, <2>2, <2>4 DEF IInv
<1>2. ASSUME NEW h \in Harts,
             \/ bread(h) \/ bcache_get(h) \/ lock_buf(h) \/ fill(h)
             \/ bwrite(h) \/ bwrite_end(h) \/ brelse(h) \/ brelse_end(h)
             \/ sync_begin(h) \/ sync_scan(h) \/ sync_write(h)
      PROVE  IInv'
    BY <1>2, BreadStep, GetStep, LockStep, FillStep, WriteStep, WriteEndStep, ReleaseStep,
       ReleaseEndStep, SyncStep, SyncWriteStep
<1> QED
    BY <1>1, <1>2 DEF Next

\* The inductive invariant of the buffer cache.
THEOREM Invariance == Spec => []IInv
<1>1. Init => IInv
    BY InitIInv
<1>2. IInv /\ [Next]_vars => IInv'
    BY NextIInv
<1> QED
    BY <1>1, <1>2, PTL DEF Spec

\* bcache_get never puts a block into a second buffer.
THEOREM BlocksCachedOnce == Spec => []OneBufferPerBlock
<1>1. IInv => OneBufferPerBlock
    BY DEF IInv
<1> QED
    BY <1>1, Invariance, PTL

\* refcnt is the number of harts that use the buffer, waiting ones included.
THEOREM CountsUsers == Spec => []RefsExact
<1>1. IInv => RefsExact
    BY DEF IInv
<1> QED
    BY <1>1, Invariance, PTL
-----------------------------------------------------------------------------
(* Deadlocks. *)

\* Harts that wait for buffers only: the one that asks for the highest block
\* waits for a hart that asks for a higher one.
LEMMA NoCircle ==
    ASSUME IInv, \A h \in Harts : pc[h] = "lock" /\ buf_lock[at[h]] # Nobody
    PROVE  FALSE
<1>1. PICK last \in Nat : \A k \in Blocks : k \in 0..last
    BY BcacheAssumption DEF BcacheAssumption
<1>2. \A h \in Harts : want[h] \in Blocks
    BY DEF IInv, TypeOK, Asking
<1> DEFINE Wanted == {want[h] : h \in Harts}
<1>3. Wanted \subseteq 0..last /\ Wanted # {}
    BY <1>1, <1>2, BcacheAssumption DEF BcacheAssumption
<1>4. PICK k \in Wanted : \A j \in Wanted : j <= k
    <2> HIDE DEF Wanted
    <2> QED
        BY <1>3, GreatestExists
<1>5. PICK h \in Harts : want[h] = k
    OBVIOUS
<1>6. at[h] \in Bufs /\ bufs[at[h]].block = k
    BY <1>5 DEF IInv, TypeOK, Asking
<1>7. PICK g \in Harts : buf_lock[at[h]] = g
    BY <1>6 DEF IInv, TypeOK
<1>8. at[h] \in held[g]
    BY <1>6, <1>7 DEF IInv, Owned
<1>9. want[g] > k
    BY <1>2, <1>6, <1>8, BcacheAssumption DEF IInv, Asking, BcacheAssumption
<1>10. want[g] <= k /\ want[g] \in Nat /\ k \in Nat
    BY <1>1, <1>2, <1>4, <1>5
<1> QED
    BY <1>9, <1>10

\* When every hart of any number of harts is stuck, one is in bcache_sync and
\* the owner of the buffer it waits for needs bcache.lock.
THEOREM DeadlocksInSync == Spec => []OnlySyncDeadlocks
<1>1. IInv => OnlySyncDeadlocks
    <2> SUFFICES ASSUME IInv, \A h \in Harts : Stuck(h)
                 PROVE  \E s, h \in Harts : /\ pc[s] = "sync_lock" /\ buf_lock[lru[pos[s]]] = h
                                            /\ pc[h] \in {"get", "release"} /\ held[h] # {}
        BY DEF OnlySyncDeadlocks
    <2> USE BcacheAssumption DEF BcacheAssumption
    <2>1. CASE lock = Nobody
        <3>1. \A h \in Harts : pc[h] = "lock" /\ buf_lock[at[h]] # Nobody
            BY <2>1 DEF Stuck, IInv, Syncing
        <3> QED
            BY <3>1, NoCircle
    <2>2. CASE lock # Nobody
        <3>1. PICK s \in Harts : lock = s
            BY <2>2 DEF IInv, TypeOK
        <3>2. pc[s] = "sync_lock" /\ buf_lock[lru[pos[s]]] # Nobody
            BY <3>1 DEF Stuck, IInv, Syncing
        <3>3. PICK b : b = lru[pos[s]]
            OBVIOUS
        <3>4. b \in Bufs /\ \A g \in Harts : b \in held[g] => pc[g] \notin {"lock", "fill"}
            BY <3>2, <3>3 DEF IInv, TypeOK, Syncing
        <3>5. PICK h \in Harts : buf_lock[b] = h
            BY <3>2, <3>3, <3>4 DEF IInv, TypeOK
        <3>6. b \in held[h] /\ pc[h] # "lock" /\ pc[h] # "fill"
            BY <3>4, <3>5 DEF IInv, Owned, Stuck
        <3>7. pc[h] \in {"get", "release"}
            BY <3>6 DEF Stuck, IInv, Asking
        <3> QED
            BY <3>2, <3>3, <3>5, <3>6, <3>7
    <2> QED
        BY <2>1, <2>2
<1> QED
    BY <1>1, Invariance, PTL
-----------------------------------------------------------------------------
(* The refinement of BlockStore. *)

\* A block has one owner at most, who sees the data of the buffer.
OwnedBlocks ==
    \A k \in Blocks :
        /\ \A h \in Harts, b \in Bufs : b \in held[h] /\ bufs[b].block = k =>
              Owner[k] = h /\ Seen[k] = bufs[b].data
        /\ (\A h \in Harts, b \in Bufs : ~(b \in held[h] /\ bufs[b].block = k)) =>
              Owner[k] = Nobody /\ Seen[k] = Nobody

LEMMA OwnerIs == IInv => OwnedBlocks
<1> SUFFICES ASSUME IInv, NEW k \in Blocks
             PROVE  /\ \A h \in Harts, b \in Bufs : b \in held[h] /\ bufs[b].block = k =>
                          Owner[k] = h /\ Seen[k] = bufs[b].data
                    /\ (\A h \in Harts, b \in Bufs : ~(b \in held[h] /\ bufs[b].block = k)) =>
                          Owner[k] = Nobody /\ Seen[k] = Nobody
    BY DEF OwnedBlocks
<1>1. ASSUME NEW h \in Harts, NEW b \in Bufs, b \in held[h], bufs[b].block = k
      PROVE  Owner[k] = h /\ Seen[k] = bufs[b].data
    <2>1. \A g \in Harts, c \in Bufs : c \in held[g] /\ bufs[c].block = k => g = h /\ c = b
        BY <1>1 DEF IInv, Owned, Current, OneBufferPerBlock
    <2>2. \A p \in Holders(k) : p[1] = h /\ p[2] = b
        BY <2>1 DEF Holders
    <2>3. <<h, b>> \in Holders(k)
        BY <1>1 DEF Holders
    <2>4. PICK p : p = CHOOSE q \in Holders(k) : TRUE
        OBVIOUS
    <2>5. p \in Holders(k)
        BY <2>3, <2>4
    <2>6. Holders(k) # {} /\ p[1] = h /\ p[2] = b
        BY <2>2, <2>3, <2>5
    <2> QED
        BY <2>4, <2>6 DEF Owner, Seen
<1>2. ASSUME \A h \in Harts, b \in Bufs : ~(b \in held[h] /\ bufs[b].block = k)
      PROVE  Owner[k] = Nobody /\ Seen[k] = Nobody
    <2>1. Holders(k) = {}
        BY <1>2 DEF Holders
    <2> QED
        BY <2>1 DEF Owner, Seen
<1> QED
    BY <1>1, <1>2

LEMMA OwnerIsAfter == IInv' => OwnedBlocks'
BY OwnerIs, PTL

LEMMA Views == /\ DOMAIN Owner = Blocks /\ Owner = [k \in Blocks |-> Owner[k]]
               /\ DOMAIN Seen = Blocks /\ Seen = [k \in Blocks |-> Seen[k]]
               /\ DOMAIN Owner' = Blocks /\ Owner' = [k \in Blocks |-> Owner'[k]]
               /\ DOMAIN Seen' = Blocks /\ Seen' = [k \in Blocks |-> Seen'[k]]
BY DEF Owner, Seen

\* A block that is held through the same buffer, with the same data, after a step.
LEMMA SameAt ==
    ASSUME IInv, IInv', NEW k \in Blocks,
           \A g \in Harts, c \in Bufs :
              /\ c \in held'[g] /\ bufs'[c].block = k <=> c \in held[g] /\ bufs[c].block = k
              /\ c \in held[g] /\ bufs[c].block = k => bufs'[c].data = bufs[c].data
    PROVE  Owner'[k] = Owner[k] /\ Seen'[k] = Seen[k]
<1>1. OwnedBlocks /\ OwnedBlocks'
    BY OwnerIs, OwnerIsAfter
<1>2. CASE \E g \in Harts, c \in Bufs : c \in held[g] /\ bufs[c].block = k
    <2>1. PICK g \in Harts, c \in Bufs : c \in held[g] /\ bufs[c].block = k
        BY <1>2
    <2>2. Owner[k] = g /\ Seen[k] = bufs[c].data
        BY <1>1, <2>1 DEF OwnedBlocks
    <2>3. Owner'[k] = g /\ Seen'[k] = bufs'[c].data
        BY <1>1, <2>1 DEF OwnedBlocks
    <2> QED
        BY <2>1, <2>2, <2>3
<1>3. CASE \A g \in Harts, c \in Bufs : ~(c \in held[g] /\ bufs[c].block = k)
    <2>1. Owner[k] = Nobody /\ Seen[k] = Nobody
        BY <1>1, <1>3 DEF OwnedBlocks
    <2>2. Owner'[k] = Nobody /\ Seen'[k] = Nobody
        BY <1>1, <1>3 DEF OwnedBlocks
    <2> QED
        BY <2>1, <2>2
<1> QED
    BY <1>2, <1>3

\* Steps that show nothing of the cache.
LEMMA SameView ==
    ASSUME IInv, IInv',
           \A g \in Harts, c \in Bufs : c \in held'[g] <=> c \in held[g],
           \A g \in Harts, c \in Bufs : c \in held[g] =>
              bufs'[c].block = bufs[c].block /\ bufs'[c].data = bufs[c].data
    PROVE  Owner' = Owner /\ Seen' = Seen
<1>1. \A k \in Blocks : Owner'[k] = Owner[k] /\ Seen'[k] = Seen[k]
    BY SameAt
<1> QED
    BY <1>1, Views

\* A step that changes what is seen of one block.
LEMMA ChangedView ==
    ASSUME IInv, IInv', NEW k \in Blocks,
           \A j \in Blocks : j # k => Owner'[j] = Owner[j] /\ Seen'[j] = Seen[j]
    PROVE  /\ Owner' = [Owner EXCEPT ![k] = Owner'[k]]
           /\ Seen' = [Seen EXCEPT ![k] = Seen'[k]]
BY Views

\* The end of bread opens the block.
LEMMA FillOpens ==
    ASSUME IInv, IInv', NEW h \in Harts, fill(h)
    PROVE  Abstract!Next
<1> USE BcacheAssumption DEF BcacheAssumption
<1>1. PICK b : b = at[h]
    OBVIOUS
<1>2. /\ pc[h] = "fill" /\ held' = [held EXCEPT ![h] = held[h] \cup {b}] /\ UNCHANGED disk
    BY <1>1 DEF fill
<1>3. b \in Bufs /\ held \in [Harts -> SUBSET Bufs]
    BY <1>1, <1>2 DEF IInv, TypeOK, Asking
<1>4. /\ b \in hashed /\ bufs[b].block = want[h] /\ want[h] \in Blocks
      /\ bufs' \in [Bufs -> Buffer] /\ \A c \in Bufs : c # b => bufs'[c] = bufs[c]
      /\ bufs'[b].block = bufs[b].block
      /\ bufs'[b].data = disk[want[h]] \/ want[h] \in failed'
      /\ failed' \in {failed, failed \cup {want[h]}}
    BY <1>1, <1>3, FillFacts
<1>5. PICK k \in Blocks : k = want[h]
    BY <1>4
<1>6. held'[h] = held[h] \cup {b} /\ \A g \in Harts : g # h => held'[g] = held[g]
    BY <1>2, <1>3
<1>7. \A g \in Harts, c \in Bufs : ~(c \in held[g] /\ bufs[c].block = k)
    <2>1. buf_lock[b] = h /\ b \notin held[h]
        <3>1. want[h] \in Nat /\ want[h] # Nobody
            BY <1>4
        <3>2. ~(want[h] > want[h])
            BY <3>1
        <3> QED
            BY <1>1, <1>2, <1>3, <1>4, <3>1, <3>2 DEF IInv, Owned, Asking
    <2>2. \A g \in Harts : b \notin held[g]
        BY <1>3, <2>1 DEF IInv, Owned
    <2> QED
        BY <1>4, <1>5, <2>2 DEF IInv, Current, OneBufferPerBlock
<1>8. Owner[k] = Nobody
    BY <1>7, OwnerIs DEF OwnedBlocks
<1>9. Owner'[k] = h /\ Seen'[k] = bufs'[b].data
    <2>1. b \in held'[h] /\ bufs'[b].block = k
        BY <1>4, <1>5, <1>6
    <2> QED
        BY <1>3, <2>1, OwnerIsAfter DEF OwnedBlocks
<1>10. \A j \in Blocks : j # k => Owner'[j] = Owner[j] /\ Seen'[j] = Seen[j]
    <2> SUFFICES ASSUME NEW j \in Blocks, j # k PROVE Owner'[j] = Owner[j] /\ Seen'[j] = Seen[j]
        OBVIOUS
    <2>1. \A g \in Harts, c \in Bufs :
             /\ c \in held'[g] /\ bufs'[c].block = j <=> c \in held[g] /\ bufs[c].block = j
             /\ c \in held[g] /\ bufs[c].block = j => bufs'[c].data = bufs[c].data
        BY <1>4, <1>5, <1>6
    <2> QED
        BY <2>1, SameAt
<1>11. Owner' = [Owner EXCEPT ![k] = h] /\ Seen' = [Seen EXCEPT ![k] = bufs'[b].data]
    BY <1>9, <1>10, ChangedView
<1>12. bufs'[b].data \in Values
    BY <1>3, <1>4 DEF Buffer
<1>13. Abstract!Open(h, k)
    BY <1>2, <1>4, <1>5, <1>8, <1>11, <1>12 DEF Abstract!Open
<1> QED
    BY <1>13 DEF Abstract!Next

\* bwrite edits the block.
LEMMA WriteEdits ==
    ASSUME IInv, IInv', NEW h \in Harts, bwrite(h)
    PROVE  Abstract!Next
<1>1. PICK b \in Bufs, v \in Values :
         /\ b \in held[h] /\ at' = [at EXCEPT ![h] = b]
         /\ bufs' \in [Bufs -> Buffer] /\ \A c \in Bufs : c # b => bufs'[c] = bufs[c]
         /\ bufs'[b].refcnt = bufs[b].refcnt /\ bufs'[b].block = bufs[b].block
         /\ bufs'[b].valid = bufs[b].valid /\ bufs'[b].dirty = TRUE /\ bufs'[b].data = v
    BY WriteFacts
<1>2. UNCHANGED <<disk, held, failed>>
    BY DEF bwrite
<1>3. PICK k \in Blocks : k = bufs[b].block
    BY <1>1 DEF IInv, Current
<1>4. Owner[k] = h /\ Owner'[k] = h /\ Seen'[k] = v
    <2>1. Owner[k] = h
        BY <1>1, <1>3, OwnerIs DEF OwnedBlocks
    <2>2. b \in held'[h] /\ bufs'[b].block = k
        BY <1>1, <1>2, <1>3
    <2>3. Owner'[k] = h /\ Seen'[k] = bufs'[b].data
        BY <2>2, OwnerIsAfter DEF OwnedBlocks
    <2> QED
        BY <1>1, <2>1, <2>3
<1>5. \A j \in Blocks : j # k => Owner'[j] = Owner[j] /\ Seen'[j] = Seen[j]
    <2> SUFFICES ASSUME NEW j \in Blocks, j # k PROVE Owner'[j] = Owner[j] /\ Seen'[j] = Seen[j]
        OBVIOUS
    <2>1. \A g \in Harts, c \in Bufs :
             /\ c \in held'[g] /\ bufs'[c].block = j <=> c \in held[g] /\ bufs[c].block = j
             /\ c \in held[g] /\ bufs[c].block = j => bufs'[c].data = bufs[c].data
        BY <1>1, <1>2, <1>3
    <2> QED
        BY <2>1, SameAt
<1>6. Owner' = Owner /\ Seen' = [Seen EXCEPT ![k] = v]
    <2>1. Owner' = [Owner EXCEPT ![k] = h] /\ Seen' = [Seen EXCEPT ![k] = v]
        BY <1>4, <1>5, ChangedView
    <2> QED
        BY <1>4, <2>1, Views
<1>7. Abstract!Edit(h, k)
    BY <1>2, <1>4, <1>6 DEF Abstract!Edit
<1> QED
    BY <1>7 DEF Abstract!Next

\* The end of bwrite writes the block.
LEMMA WriteEndWrites ==
    ASSUME IInv, IInv', NEW h \in Harts, bwrite_end(h)
    PROVE  Abstract!Next
<1>1. PICK b : b = at[h]
    OBVIOUS
<1>2. pc[h] = "write" /\ put(b) /\ UNCHANGED held
    BY <1>1 DEF bwrite_end
<1>3. b \in held[h] /\ b \in hashed /\ b \in Bufs
    BY <1>1, <1>2 DEF IInv, TypeOK, Asking, Current
<1>4. /\ \A c \in Bufs : c # b => bufs'[c] = bufs[c]
      /\ bufs'[b].block = bufs[b].block /\ bufs'[b].data = bufs[b].data
    BY <1>2, <1>3, PutFacts
<1>5. PICK k \in Blocks : k = bufs[b].block
    BY <1>3 DEF IInv, Current
<1>6. Owner[k] = h /\ h # Nobody /\ Seen[k] = bufs[b].data
    BY <1>3, <1>5, OwnerIs, BcacheAssumption DEF OwnedBlocks, BcacheAssumption
<1>7. Owner' = Owner /\ Seen' = Seen
    BY <1>2, <1>4, SameView
<1>8. Abstract!Write(k)
    BY <1>2, <1>5, <1>6, <1>7 DEF put, Abstract!Write
<1> QED
    BY <1>8 DEF Abstract!Next

\* brelse closes the block, which is on the disk by then.
LEMMA ReleaseCloses ==
    ASSUME IInv, IInv', NEW h \in Harts, brelse(h)
    PROVE  Abstract!Next
<1>1. PICK b \in held[h] : held' = [held EXCEPT ![h] = held[h] \ {b}]
    BY DEF brelse
<1>2. pc[h] = "using" /\ UNCHANGED <<bufs, disk, failed>>
    BY DEF brelse
<1>3. b \in Bufs /\ b \in hashed /\ bufs[b].valid /\ held \in [Harts -> SUBSET Bufs]
    BY DEF IInv, TypeOK, Current
<1>4. PICK k \in Blocks : k = bufs[b].block
    BY <1>3 DEF IInv, Current
<1>5. held'[h] = held[h] \ {b} /\ \A g \in Harts : g # h => held'[g] = held[g]
    BY <1>1, <1>3
<1>6. \A g \in Harts : b \in held[g] => g = h
    BY <1>3 DEF IInv, Owned
<1>7. Owner[k] = h /\ Seen[k] = bufs[b].data
    BY <1>1, <1>3, <1>4, OwnerIs DEF OwnedBlocks
<1>8. bufs[b].data = disk[k] \/ k \in failed
    <2>1. \A g \in Harts : ~(at[g] = b /\ pc[g] = "write")
        BY <1>2, <1>6 DEF IInv, Asking
    <2> QED
        BY <1>3, <1>4, <2>1 DEF IInv, Current
<1>9. Owner'[k] = Nobody /\ Seen'[k] = Nobody
    <2>1. \A g \in Harts, c \in Bufs : ~(c \in held'[g] /\ bufs'[c].block = k)
        <3>1. \A g \in Harts : \A c \in held[g] : bufs[c].block = k => c = b
            BY <1>3, <1>4 DEF IInv, Current, OneBufferPerBlock
        <3> QED
            BY <1>2, <1>5, <1>6, <3>1
    <2> QED
        BY <2>1, OwnerIsAfter DEF OwnedBlocks
<1>10. \A j \in Blocks : j # k => Owner'[j] = Owner[j] /\ Seen'[j] = Seen[j]
    <2> SUFFICES ASSUME NEW j \in Blocks, j # k PROVE Owner'[j] = Owner[j] /\ Seen'[j] = Seen[j]
        OBVIOUS
    <2>1. \A g \in Harts, c \in Bufs :
             /\ c \in held'[g] /\ bufs'[c].block = j <=> c \in held[g] /\ bufs[c].block = j
             /\ c \in held[g] /\ bufs[c].block = j => bufs'[c].data = bufs[c].data
        BY <1>2, <1>4, <1>5
    <2> QED
        BY <2>1, SameAt
<1>11. Owner' = [Owner EXCEPT ![k] = Nobody] /\ Seen' = [Seen EXCEPT ![k] = Nobody]
    BY <1>9, <1>10, ChangedView
<1>12. Abstract!Close(h, k)
    BY <1>2, <1>7, <1>8, <1>11 DEF Abstract!Close
<1> QED
    BY <1>12 DEF Abstract!Next

\* bcache_sync writes a buffer that nobody holds: the disk has its data
\* already, unless the block is bad.
LEMMA SyncWrites ==
    ASSUME IInv, IInv', NEW h \in Harts, sync_write(h)
    PROVE  Abstract!Next \/ UNCHANGED Abstract!vars
<1>1. PICK b : b = lru[pos[h]]
    OBVIOUS
<1>2. pc[h] = "sync_lock" /\ buf_lock[b] = Nobody /\ put(b) /\ UNCHANGED held
    BY <1>1 DEF sync_write
<1>3. b \in hashed /\ bufs[b].valid /\ b \in Bufs
    BY <1>1, <1>2 DEF IInv, TypeOK, Syncing
<1>4. /\ \A c \in Bufs : c # b => bufs'[c] = bufs[c]
      /\ bufs'[b].block = bufs[b].block /\ bufs'[b].data = bufs[b].data
    BY <1>2, <1>3, PutFacts
<1>5. PICK k \in Blocks : k = bufs[b].block
    BY <1>3 DEF IInv, Current
<1>6. bufs[b].data = disk[k] \/ k \in failed
    <2>1. \A g \in Harts : ~(at[g] = b /\ pc[g] = "write")
        BY <1>2, <1>3, BcacheAssumption DEF IInv, Asking, Owned, BcacheAssumption
    <2> QED
        BY <1>3, <1>5, <2>1 DEF IInv, Current
<1>7. Owner' = Owner /\ Seen' = Seen
    BY <1>2, <1>4, SameView
<1>8. disk \in [Blocks -> Values] /\ bufs[b].data \in Values
    BY <1>3 DEF IInv, TypeOK, Buffer
<1>9. CASE disk' = [disk EXCEPT ![k] = bufs[b].data] /\ UNCHANGED failed /\ k \in failed
    <2>1. Abstract!Write(k)
        BY <1>7, <1>8, <1>9 DEF Abstract!Write
    <2> QED
        BY <2>1 DEF Abstract!Next
<1>10. CASE disk' = [disk EXCEPT ![k] = bufs[b].data] /\ UNCHANGED failed /\ bufs[b].data = disk[k]
    <2>1. disk' = disk
        BY <1>8, <1>10
    <2> QED
        BY <1>7, <1>10, <2>1 DEF Abstract!vars
<1>11. CASE failed' = failed \cup {k} /\ UNCHANGED disk
    <2>1. Abstract!Write(k)
        BY <1>7, <1>11 DEF Abstract!Write
    <2> QED
        BY <2>1 DEF Abstract!Next
<1> QED
    BY <1>2, <1>5, <1>6, <1>9, <1>10, <1>11 DEF put

\* The rest of bcache_get, brelse and bcache_sync are not seen by the users: an
\* eviction writes nothing and takes a buffer that nobody holds.
LEMMA Hidden ==
    ASSUME IInv, IInv', NEW h \in Harts,
           \/ bread(h) \/ bcache_get(h) \/ lock_buf(h) \/ brelse_end(h) \/ sync_begin(h) \/ sync_scan(h)
    PROVE  UNCHANGED Abstract!vars
<1>1. UNCHANGED <<held, failed>>
    BY DEF bread, bcache_get, lock_buf, brelse_end, sync_begin, sync_scan
<1>2. bufs \in [Bufs -> Buffer] /\ \A g \in Harts : held[g] \subseteq Bufs
    BY DEF IInv, TypeOK
<1> DEFINE Same == /\ UNCHANGED disk
                   /\ \A g \in Harts, c \in Bufs : c \in held[g] =>
                         bufs'[c].block = bufs[c].block /\ bufs'[c].data = bufs[c].data
<1>3. Same
    <2>1. CASE UNCHANGED <<bufs, disk>>
        BY <2>1
    <2>2. ASSUME NEW b, NEW n, bufs' = [bufs EXCEPT ![b].refcnt = n], UNCHANGED disk
          PROVE  Same
        <3>1. \A c \in Bufs : bufs'[c].block = bufs[c].block /\ bufs'[c].data = bufs[c].data
            BY <1>2, <2>2 DEF Buffer
        <3> QED
            BY <2>2, <3>1
    <2>3. CASE bcache_get(h)
        <3>1. ASSUME NEW b \in lookup(want[h]), hit(h, b)
              PROVE  bufs' = [bufs EXCEPT ![b].refcnt = bufs[b].refcnt + 1] /\ UNCHANGED disk
            BY <3>1 DEF hit
        <3>2. CASE miss(h)
            <4>1. /\ evict \in Bufs /\ \A g \in Harts : evict \notin held[g]
                  /\ written_back = disk
                BY <3>2, Unused DEF miss
            <4>2. UNCHANGED disk /\ \A c \in Bufs : c # evict => bufs'[c] = bufs[c]
                BY <1>2, <3>2, <4>1 DEF miss
            <4> QED
                BY <4>1, <4>2
        <3> QED
            BY <2>1, <2>2, <2>3, <3>1, <3>2 DEF bcache_get
    <2>4. CASE brelse_end(h)
        <3>1. bufs' = [bufs EXCEPT ![at[h]].refcnt = bufs[at[h]].refcnt - 1] /\ UNCHANGED disk
            BY <2>4 DEF brelse_end
        <3> QED
            BY <2>2, <3>1
    <2>5. CASE bread(h) \/ lock_buf(h) \/ sync_begin(h) \/ sync_scan(h)
        BY <2>1, <2>5 DEF bread, lock_buf, sync_begin, sync_scan
    <2> QED
        BY <2>3, <2>4, <2>5
<1>4. Owner' = Owner /\ Seen' = Seen
    BY <1>1, <1>3, SameView
<1> QED
    BY <1>1, <1>3, <1>4 DEF Abstract!vars

LEMMA InitView == Init => Abstract!Init
<1> SUFFICES ASSUME Init PROVE Abstract!Init
    OBVIOUS
<1>1. OwnedBlocks
    BY InitIInv, OwnerIs
<1>2. \A h \in Harts : held[h] = {}
    BY DEF Init
<1>3. \A k \in Blocks : Owner[k] = Nobody /\ Seen[k] = Nobody
    BY <1>1, <1>2 DEF OwnedBlocks
<1>4. Owner = [k \in Blocks |-> Nobody] /\ Seen = [k \in Blocks |-> Nobody]
    BY <1>3, Views
<1> QED
    BY <1>4 DEF Init, Abstract!Init

\* The cache implements BlockStore: a block belongs to one hart at a time, bread
\* shows what the disk holds, and what was written is on the disk when the
\* block is given back, unless an I/O error was met.
THEOREM Refinement == Spec => Implements
<1>1. Init => Abstract!Init
    BY InitView
<1>2. IInv /\ IInv' /\ [Next]_vars => [Abstract!Next]_(Abstract!vars)
    <2> SUFFICES ASSUME IInv, IInv', [Next]_vars
                 PROVE  Abstract!Next \/ UNCHANGED Abstract!vars
        OBVIOUS
    <2>1. CASE UNCHANGED vars
        <3>1. Owner' = Owner /\ Seen' = Seen
            BY <2>1, SameView DEF vars
        <3> QED
            BY <2>1, <3>1 DEF vars, Abstract!vars
    <2>2. ASSUME NEW h \in Harts,
                 \/ bread(h) \/ bcache_get(h) \/ lock_buf(h) \/ fill(h)
                 \/ bwrite(h) \/ bwrite_end(h) \/ brelse(h) \/ brelse_end(h)
                 \/ sync_begin(h) \/ sync_scan(h) \/ sync_write(h)
          PROVE  Abstract!Next \/ UNCHANGED Abstract!vars
        BY <2>2, Hidden, FillOpens, WriteEdits, WriteEndWrites, ReleaseCloses, SyncWrites
    <2> QED
        BY <2>1, <2>2 DEF Next
<1> QED
    BY <1>1, <1>2, Invariance, PTL DEF Spec, Implements, Abstract!Spec
==============================================================================
