------------------------------ MODULE Vfs_proofs ------------------------------
(* Proofs about the dentry cache, the path walk and the calls of the virtual *)
(* file system, for any number of dentries, any names, paths and disks.      *)
EXTENDS Vfs, FiniteSetTheorems, WellFoundedInduction, TLAPS

\* A set of naturals has a least element, and Min is it.
LEMMA LeastExists ==
    ASSUME NEW T, T \subseteq Nat, T # {}
    PROVE  \E x \in T : \A y \in T : x <= y
<1>1. \E x \in T : \A y \in T : ~(<<y, x>> \in OpToRel(<, Nat))
    BY NatLessThanWellFounded, WFMin
<1>2. \E x \in T : \A y \in T : ~(y < x)
    BY <1>1 DEF OpToRel
<1> QED
    BY <1>2

\* Min of a set of naturals is in it.
LEMMA MinIsIn ==
    ASSUME NEW T, T \subseteq Nat, T # {}
    PROVE  Min(T) \in T
BY LeastExists DEF Min
-----------------------------------------------------------------------------
(* The hash table. *)

\* The lowest bit of xor(x, y) is that of x + y.
LEMMA XorParity ==
    ASSUME NEW x \in Nat, NEW y \in Nat
    PROVE  xor(x, y) \in 0..127 /\ xor(x, y) % 2 = (x + y) % 2
<1> DEFINE d(b) == differ(x, y, b)
<1>1. \A b \in {1, 2, 4, 8, 16, 32, 64} : d(b) \in 0..1
    BY DEF differ
<1>2. d(1) = (x + y) % 2
    BY DEF differ
<1>3. xor(x, y) = d(1) + 2 * d(2) + 4 * d(4) + 8 * d(8) + 16 * d(16) + 32 * d(32) + 64 * d(64)
    BY DEF xor
<1>4. PICK a \in 0..1, b \in 0..1, c \in 0..1, e \in 0..1, f \in 0..1, g \in 0..1, h \in 0..1 :
          a = d(1) /\ b = d(2) /\ c = d(4) /\ e = d(8) /\ f = d(16) /\ g = d(32) /\ h = d(64)
    BY <1>1
<1>5. xor(x, y) = a + 2 * b + 4 * c + 8 * e + 16 * f + 32 * g + 64 * h /\ a = (x + y) % 2
    BY <1>2, <1>3, <1>4
<1>6. (a + 2 * b + 4 * c + 8 * e + 16 * f + 32 * g + 64 * h) % 2 = a
    OBVIOUS
<1> QED
    BY <1>5, <1>6

\* A key is the number of a bucket, and hashtable_insert never puts it there.
LEMMA HashMoves ==
    \A k \in 0..(HashSize - 1) : hash_ptr[k] \in 0..(HashSize - 1) /\ hash_ptr[k] # k
<1> SUFFICES ASSUME NEW k \in 0..(HashSize - 1)
             PROVE  hash_ptr[k] \in 0..(HashSize - 1) /\ hash_ptr[k] # k
    OBVIOUS
<1>0. HashSize \in {2, 4, 8, 16, 32, 64, 128}
    BY DcacheAssumption DEF DcacheAssumption
<1>1. hash_ptr[k] = (xor(69, k) * 33) % HashSize
    BY DEF hash_ptr
<1>2. k \in Nat
    BY <1>0
<1>3. PICK x \in 0..127 : x = xor(69, k) /\ x % 2 = (69 + k) % 2
    BY <1>2, XorParity
<1>4. (x * 33) % 2 # k % 2
    BY <1>2, <1>3
<1>5. (x * 33) % HashSize \in 0..(HashSize - 1) /\ ((x * 33) % HashSize) % 2 = (x * 33) % 2
    BY <1>0
<1> QED
    BY <1>1, <1>3, <1>4, <1>5

\* dentry_hash_key is the number of a bucket.
LEMMA KeyType ==
    ASSUME NEW p \in Dentries, NEW n, n \in Components
    PROVE  KeyOf[p][n] \in 0..(HashSize - 1)
<1>0. HashSize \in {2, 4, 8, 16, 32, 64, 128} /\ p \in Nat
    BY DcacheAssumption DEF DcacheAssumption, Dentries
<1>4. NameHash[n] \in Nat
    BY DcacheAssumption DEF DcacheAssumption
<1>1. KeyOf[p][n] = hash_ptr[xor(p, NameHash[n]) % HashSize]
    BY DEF KeyOf
<1>5. PICK m \in Nat : m = NameHash[n]
    BY <1>4
<1>6. p \in Nat
    BY <1>0
<1>7. xor(p, m) \in 0..127
    BY <1>6, XorParity
<1>2. PICK x \in 0..127 : x = xor(p, NameHash[n])
    BY <1>5, <1>7
<1>3. x % HashSize \in 0..(HashSize - 1)
    BY <1>0
<1> QED
    BY <1>1, <1>2, <1>3, HashMoves

\* Tables are functions from keys to dentries.
LEMMA TableShape ==
    ASSUME NEW H
    PROVE  H \in Tables <=> /\ H \in [DOMAIN H -> Dentries]
                            /\ DOMAIN H \subseteq 0..(HashSize - 1)
BY DEF Tables

\* hashtable_delete leaves a table.
LEMMA TableDelete ==
    ASSUME NEW H \in Tables, NEW k
    PROVE  hashtable_delete(H, k) \in Tables
<1>1. hashtable_delete(H, k) = [j \in DOMAIN H \ {k} |-> H[j]]
    BY DEF hashtable_delete
<1> QED
    BY <1>1, TableShape

\* hashtable_insert leaves a table.
LEMMA TableInsert ==
    ASSUME NEW H \in Tables, NEW k \in 0..(HashSize - 1), NEW d \in Dentries
    PROVE  hashtable_insert(H, k, d) \in Tables
<1>1. hashtable_insert(H, k, d) = [j \in DOMAIN H \cup {k} |-> IF j = k THEN d ELSE H[j]]
    BY DEF hashtable_insert
<1> QED
    BY <1>1, TableShape
-----------------------------------------------------------------------------
(* The dentries: what a new one, a freed one and a reference count change. *)

\* The dentries of an inode can be counted.
LEMMA UsersFinite ==
    ASSUME NEW D, NEW i
    PROVE  IsFiniteSet(Users(D, i)) /\ Cardinality(Users(D, i)) \in Nat
<1>1. NDentries \in Nat
    BY DcacheAssumption DEF DcacheAssumption
<1>2. IsFiniteSet(Dentries)
    BY <1>1, FS_Interval DEF Dentries
<1>3. Users(D, i) \in SUBSET Dentries
    BY DEF Users
<1>4. IsFiniteSet(Users(D, i))
    BY <1>2, <1>3, FS_Subset
<1> QED
    BY <1>4, FS_CardinalityType

Placing(D, d, e) == [D EXCEPT ![d] = e]
Counts(R, i) == [R EXCEPT ![i] = IF @ # 0 THEN @ + 1 ELSE inode_alloc]
Discounts(R, i) == [R EXCEPT ![i] = @ - 1]
Touching(D, d, r) == [D EXCEPT ![d].ref = r]

\* dentry_alloc with the inode the file system gives it.
LEMMA TreeGrows ==
    ASSUME NEW D, NEW H, NEW R, Tree(D, H, R),
           NEW d \in Dentries, ~D[d].live,
           NEW e \in Dentry, e.live, e.parent # 0, NEW i \in Inos, e.ino = i,
           NEW E, E = Placing(D, d, e), NEW S, S = Counts(R, i)
    PROVE  Tree(E, H, S)
<1> USE DEF Placing, Counts
<1>1. /\ D \in [Dentries -> Dentry] /\ H \in Tables /\ R \in [Inos -> Nat]
      /\ \A x \in Dentries : IF D[x].live THEN D[x].parent # 0 /\ D[x].ino # 0 ELSE D[x] = NoDentry
      /\ \A j \in DOMAIN H : D[H[j]].live /\ KeyOf[D[H[j]].parent][D[H[j]].name] = j
      /\ \A j \in Inos : R[j] = Cardinality(Users(D, j))
    BY DEF Tree
<1>2. E \in [Dentries -> Dentry] /\ E[d] = e /\ \A x \in Dentries \ {d} : E[x] = D[x]
    BY <1>1
<1>3. S \in [Inos -> Nat]
    BY <1>1 DEF inode_alloc
<1>4. \A x \in Dentries : IF E[x].live THEN E[x].parent # 0 /\ E[x].ino # 0 ELSE E[x] = NoDentry
    <2>1. e.ino # 0
        BY DcacheAssumption DEF DcacheAssumption
    <2> QED
        BY <1>1, <1>2, <2>1
<1>5. H \in [DOMAIN H -> Dentries] /\ \A j \in DOMAIN H : H[j] # d
    BY <1>1, TableShape
<1>6. \A j \in DOMAIN H : E[H[j]].live /\ KeyOf[E[H[j]].parent][E[H[j]].name] = j
    <2>1. \A j \in DOMAIN H : H[j] \in Dentries /\ E[H[j]] = D[H[j]]
        BY <1>2, <1>5
    <2> QED
        BY <1>1, <2>1
<1>7. \A j \in Inos : S[j] = Cardinality(Users(E, j))
    <2> SUFFICES ASSUME NEW j \in Inos PROVE S[j] = Cardinality(Users(E, j))
        OBVIOUS
    <2>1. CASE j = i
        <3>1. Users(E, i) = Users(D, i) \cup {d} /\ d \notin Users(D, i)
            BY <1>2 DEF Users
        <3>4. PICK U : U = Users(D, i) /\ IsFiniteSet(U) /\ Cardinality(U) = R[i]
            BY <1>1, UsersFinite
        <3>5. Cardinality(U \cup {d}) = Cardinality(U) + 1
            BY <3>1, <3>4, FS_AddElement
        <3>2. Cardinality(Users(E, i)) = R[i] + 1
            BY <3>1, <3>4, <3>5
        <3>3. S[i] = R[i] + 1
            BY <1>1 DEF inode_alloc
        <3> QED
            BY <2>1, <3>2, <3>3
    <2>2. CASE j # i
        <3>1. Users(E, j) = Users(D, j)
            BY <1>2, <2>2 DEF Users
        <3>2. S[j] = R[j]
            BY <1>1, <2>2
        <3> QED
            BY <1>1, <3>1, <3>2
    <2> QED
        BY <2>1, <2>2
<1> QED
    BY <1>1, <1>2, <1>3, <1>4, <1>6, <1>7 DEF Tree

\* dentry_insert under a key that is free.
LEMMA TreeHashes ==
    ASSUME NEW D, NEW H, NEW R, Tree(D, H, R), NEW d \in Dentries, D[d].live,
           NEW k, k = KeyOf[D[d].parent][D[d].name], k \notin DOMAIN H
    PROVE  Tree(D, hashtable_insert(H, k, d), R)
<1>1. /\ D \in [Dentries -> Dentry] /\ H \in Tables /\ D[d].parent # 0
      /\ \A j \in DOMAIN H : D[H[j]].live /\ KeyOf[D[H[j]].parent][D[H[j]].name] = j
    BY DEF Tree
<1>2. D[d].parent \in Dentries /\ D[d].name \in Components
    <2>1. PICK e \in Dentry : e = D[d]
        BY <1>1
    <2>2. e.parent \in Dentries \cup {0} /\ e.name \in Components
        BY DEF Dentry
    <2> QED
        BY <1>1, <2>1, <2>2
<1>3. k \in 0..(HashSize - 1)
    BY <1>2, KeyType
<1>4. PICK G : G = hashtable_insert(H, k, d)
    OBVIOUS
<1>5. G \in Tables
    BY <1>1, <1>3, <1>4, TableInsert
<1>6. DOMAIN G = DOMAIN H \cup {k} /\ G[k] = d /\ \A j \in DOMAIN H : G[j] = H[j]
    BY <1>4 DEF hashtable_insert
<1>7. \A j \in DOMAIN G : D[G[j]].live /\ KeyOf[D[G[j]].parent][D[G[j]].name] = j
    BY <1>1, <1>6
<1>8. Tree(D, G, R)
    BY <1>5, <1>7 DEF Tree
<1> QED
    BY <1>4, <1>8

\* dentry_free.
LEMMA TreeShrinks ==
    ASSUME NEW D, NEW H, NEW R, Tree(D, H, R),
           NEW d \in Dentries, D[d].live, NEW i, i = D[d].ino,
           NEW E, E = Placing(D, d, NoDentry),
           NEW G, G = hashtable_delete(H, KeyOf[D[d].parent][D[d].name]),
           NEW S, S = Discounts(R, i)
    PROVE  i \in Inos /\ R[i] \in Nat \ {0} /\ Tree(E, G, S)
<1> USE DEF Placing, Discounts
<1>1. /\ D \in [Dentries -> Dentry] /\ H \in Tables /\ R \in [Inos -> Nat]
      /\ \A x \in Dentries : IF D[x].live THEN D[x].parent # 0 /\ D[x].ino # 0 ELSE D[x] = NoDentry
      /\ \A j \in DOMAIN H : D[H[j]].live /\ KeyOf[D[H[j]].parent][D[H[j]].name] = j
      /\ \A j \in Inos : R[j] = Cardinality(Users(D, j))
    BY DEF Tree
<1>2. i \in Inos
    <2>1. D[d] \in Dentry /\ D[d].ino # 0
        BY <1>1
    <2>2. D[d].ino \in Inos \cup {0}
        BY <2>1 DEF Dentry
    <2> QED
        BY <2>1, <2>2
<1>3. NoDentry \in Dentry /\ ~NoDentry.live
    BY DEF NoDentry, Dentry, Components
<1>4. E \in [Dentries -> Dentry] /\ E[d] = NoDentry /\ \A x \in Dentries \ {d} : E[x] = D[x]
    BY <1>1, <1>3
<1>5. \A x \in Dentries : IF E[x].live THEN E[x].parent # 0 /\ E[x].ino # 0 ELSE E[x] = NoDentry
    BY <1>1, <1>3, <1>4
<1>6. /\ Users(E, i) = Users(D, i) \ {d} /\ d \in Users(D, i)
      /\ \A j \in Inos : j # i => Users(E, j) = Users(D, j)
    BY <1>3, <1>4 DEF Users
<1>7. R[i] \in Nat \ {0} /\ Cardinality(Users(E, i)) = R[i] - 1
    <2>1. Cardinality(Users(D, i)) # 0
        BY <1>6, UsersFinite, FS_EmptySet
    <2>2. PICK U : U = Users(D, i) /\ IsFiniteSet(U) /\ Cardinality(U) = R[i]
        BY <1>1, <1>2, UsersFinite
    <2>3. Cardinality(U \ {d}) = Cardinality(U) - 1
        BY <1>6, <2>2, FS_RemoveElement
    <2> QED
        BY <1>1, <1>2, <1>6, <2>1, <2>2, <2>3
<1>8. S \in [Inos -> Nat] /\ \A j \in Inos : S[j] = Cardinality(Users(E, j))
    <2>1. S \in [Inos -> Nat] /\ S[i] = R[i] - 1 /\ \A j \in Inos : j # i => S[j] = R[j]
        BY <1>1, <1>2, <1>7
    <2>2. ASSUME NEW j \in Inos PROVE S[j] = Cardinality(Users(E, j))
        <3>1. CASE j = i
            BY <1>7, <2>1, <3>1
        <3>2. CASE j # i
            BY <1>1, <1>6, <2>1, <3>2
        <3> QED
            BY <3>1, <3>2
    <2> QED
        BY <2>1, <2>2
<1>9. G \in Tables
    BY <1>1, TableDelete
<1>10. \A j \in DOMAIN G : E[G[j]].live /\ KeyOf[E[G[j]].parent][E[G[j]].name] = j
    <2>1. \A j \in DOMAIN G : j \in DOMAIN H /\ G[j] = H[j] /\ j # KeyOf[D[d].parent][D[d].name]
        BY DEF hashtable_delete
    <2>2. \A j \in DOMAIN G : G[j] \in Dentries /\ G[j] # d
        BY <1>1, <2>1, TableShape
    <2>3. ASSUME NEW j \in DOMAIN G
          PROVE  E[G[j]].live /\ KeyOf[E[G[j]].parent][E[G[j]].name] = j
        <3>1. E[G[j]] = D[H[j]] /\ j \in DOMAIN H
            BY <1>4, <2>1, <2>2
        <3>2. D[H[j]].live /\ KeyOf[D[H[j]].parent][D[H[j]].name] = j
            BY <1>1, <3>1
        <3> QED
            BY <3>1, <3>2
    <2> QED
        BY <2>3
<1> QED
    BY <1>2, <1>4, <1>5, <1>7, <1>8, <1>9, <1>10 DEF Tree

\* A dentry that had no inode yet: the node under its key goes.
LEMMA TreeUnhashes ==
    ASSUME NEW D, NEW H, NEW R, Tree(D, H, R), NEW k
    PROVE  Tree(D, hashtable_delete(H, k), R)
<1>1. PICK G : G = hashtable_delete(H, k)
    OBVIOUS
<1>2. G \in Tables
    BY <1>1, TableDelete DEF Tree
<1>3. \A j \in DOMAIN G : j \in DOMAIN H /\ G[j] = H[j]
    BY <1>1 DEF hashtable_delete
<1> QED
    BY <1>1, <1>2, <1>3 DEF Tree

\* dentry_get and dentry_put.
LEMMA TreeRecounts ==
    ASSUME NEW D, NEW H, NEW R, Tree(D, H, R),
           NEW d \in Dentries, D[d].live, NEW r \in Nat,
           NEW E, E = Touching(D, d, r)
    PROVE  Tree(E, H, R)
<1> USE DEF Touching
<1>1. /\ D \in [Dentries -> Dentry] /\ H \in Tables /\ R \in [Inos -> Nat]
      /\ \A x \in Dentries : IF D[x].live THEN D[x].parent # 0 /\ D[x].ino # 0 ELSE D[x] = NoDentry
      /\ \A j \in DOMAIN H : D[H[j]].live /\ KeyOf[D[H[j]].parent][D[H[j]].name] = j
      /\ \A j \in Inos : R[j] = Cardinality(Users(D, j))
    BY DEF Tree
<1>2. D[d] \in Dentry /\ E[d] = [D[d] EXCEPT !.ref = r] /\ \A x \in Dentries \ {d} : E[x] = D[x]
    BY <1>1
<1>3. /\ E[d] \in Dentry /\ E[d].live = D[d].live /\ E[d].parent = D[d].parent
      /\ E[d].name = D[d].name /\ E[d].ino = D[d].ino
    <2>1. PICK e \in Dentry : e = D[d]
        BY <1>2
    <2>2. E[d] = [e EXCEPT !.ref = r]
        BY <1>2, <2>1
    <2>3. [e EXCEPT !.ref = r] \in Dentry
        BY DEF Dentry
    <2>4. PICK f \in Dentry : f = [e EXCEPT !.ref = r]
        BY <2>3
    <2>5. f.live = e.live /\ f.parent = e.parent /\ f.name = e.name /\ f.ino = e.ino
        BY <2>4 DEF Dentry
    <2> QED
        BY <2>1, <2>2, <2>4, <2>5
<1>4. E \in [Dentries -> Dentry]
    BY <1>1, <1>2, <1>3
<1> HIDE DEF Touching
<1>5. \A x \in Dentries : /\ E[x].live = D[x].live /\ E[x].parent = D[x].parent
                          /\ E[x].name = D[x].name /\ E[x].ino = D[x].ino
    BY <1>2, <1>3
<1>6. \A x \in Dentries : IF E[x].live THEN E[x].parent # 0 /\ E[x].ino # 0 ELSE E[x] = NoDentry
    BY <1>1, <1>2, <1>5
<1>7. \A j \in DOMAIN H : E[H[j]].live /\ KeyOf[E[H[j]].parent][E[H[j]].name] = j
    BY <1>1, <1>5, TableShape
<1>8. \A j \in Inos : Users(E, j) = Users(D, j)
    BY <1>5 DEF Users
<1> QED
    BY <1>1, <1>4, <1>6, <1>7, <1>8 DEF Tree
-----------------------------------------------------------------------------
(* The operations of inode.c and dentry.c as changes of the three tables. *)

With(s, D, H, R) == [s EXCEPT !.dent = D, !.ht = H, !.iref = R]
TablesOk(D, H, R) == D \in [Dentries -> Dentry] /\ H \in Tables /\ R \in [Inos -> Nat]
SameRest(s, t) == /\ t.entry = s.entry /\ t.dirs = s.dirs /\ t.s_count = s.s_count
                  /\ t.mounts = s.mounts /\ t.files = s.files

\* The three tables of a state.
LEMMA StateTables ==
    ASSUME NEW s \in State
    PROVE  TablesOk(s.dent, s.ht, s.iref)
BY DEF State, TablesOk

\* A state with other tables.
LEMMA WithFields ==
    ASSUME NEW s \in State, NEW D, NEW H, NEW R, NEW t, t = With(s, D, H, R)
    PROVE  /\ t.dent = D /\ t.ht = H /\ t.iref = R /\ SameRest(s, t)
           /\ TablesOk(D, H, R) => t \in State
BY DEF With, State, TablesOk, SameRest

New(d, parent, sb, n) ==
    [live |-> TRUE, parent |-> IF parent = 0 THEN d ELSE parent,
     name |-> n, sb |-> sb, ino |-> 0, ref |-> 1]

\* dentry_alloc fails and changes nothing, or takes a free object.
LEMMA AllocIs ==
    ASSUME NEW s \in State, NEW parent \in Dentries \cup {0}, NEW sb \in Sbs \cup {NoName},
           NEW n \in Components, NEW a, a = dentry_alloc(s, parent, sb, n)
    PROVE  \/ a.err = "ENOMEM" /\ a.s = s
           \/ /\ a.err = "0" /\ a.d \in Dentries /\ ~s.dent[a.d].live
              /\ New(a.d, parent, sb, n) \in Dentry
              /\ a.s = With(s, Placing(s.dent, a.d, New(a.d, parent, sb, n)), s.ht, s.iref)
              /\ a.s \in State
<1> USE DEF Placing
<1> DEFINE free == {d \in Dentries : ~s.dent[d].live}
<1>1. CASE free = {}
    BY <1>1 DEF dentry_alloc, Fail
<1>2. CASE free # {}
    <2>1. free \subseteq Nat
        BY DEF Dentries
    <2>2. PICK d : d = Min(free) /\ d \in free
        BY <1>2, <2>1, MinIsIn
    <2>3. a = Ok([s EXCEPT !.dent[d] = New(d, parent, sb, n)], d)
        BY <1>2, <2>2 DEF dentry_alloc, New
    <2>4. New(d, parent, sb, n) \in Dentry
        <3>1. 1 \in Nat /\ d \in Dentries
            BY <2>2
        <3> QED
            BY <3>1 DEF New, Dentry
    <2>5. [s EXCEPT !.dent[d] = New(d, parent, sb, n)]
            = With(s, [s.dent EXCEPT ![d] = New(d, parent, sb, n)], s.ht, s.iref)
        BY DEF With, State
    <2>6. a.err = "0" /\ a.d = d
          /\ a.s = With(s, [s.dent EXCEPT ![d] = New(d, parent, sb, n)], s.ht, s.iref)
        BY <2>3, <2>5 DEF Ok
    <2>7. TablesOk([s.dent EXCEPT ![d] = New(d, parent, sb, n)], s.ht, s.iref)
        BY <2>2, <2>4, StateTables DEF TablesOk
    <2> QED
        BY <2>2, <2>4, <2>6, <2>7, WithFields
<1> QED
    BY <1>1, <1>2

\* The inode of a dentry is set and counted.
LEMMA InstantiateIs ==
    ASSUME NEW s \in State, NEW d \in Dentries, NEW i \in Inos,
           NEW t, t = Instantiate(s, d, i)
    PROVE  /\ t = With(s, [s.dent EXCEPT ![d].ino = i], s.ht, Counts(s.iref, i))
           /\ t \in State
<1>1. inode_get(s, i) = [s EXCEPT !.iref = Counts(s.iref, i)]
    BY DEF inode_get, Counts, State
<1>2. t = With(s, [s.dent EXCEPT ![d].ino = i], s.ht, Counts(s.iref, i))
    BY <1>1 DEF Instantiate, With, State
<1>3. PICK D \in [Dentries -> Dentry] : D = s.dent
    BY StateTables DEF TablesOk
<1>4. D[d] \in Dentry
    OBVIOUS
<1>5. [D[d] EXCEPT !.ino = i] \in Dentry
    BY <1>4 DEF Dentry
<1>6. [D EXCEPT ![d].ino = i] \in [Dentries -> Dentry]
    BY <1>5
<1>7. Counts(s.iref, i) \in [Inos -> Nat]
    BY StateTables DEF TablesOk, Counts, inode_alloc
<1> QED
    BY <1>2, <1>3, <1>6, <1>7, StateTables, WithFields DEF TablesOk

\* dentry_free gives up the inode, the node under its key and the object.
LEMMA FreeIs ==
    ASSUME NEW s \in State, NEW d \in Dentries, NEW i, i = s.dent[d].ino,
           i # 0 => i \in Inos /\ s.iref[i] \in Nat \ {0},
           NEW t, t = dentry_free(s, d)
    PROVE  t = With(s, Placing(s.dent, d, NoDentry),
                    hashtable_delete(s.ht, KeyOf[s.dent[d].parent][s.dent[d].name]),
                    IF i = 0 THEN s.iref ELSE Discounts(s.iref, i))
<1> USE DEF Placing, Discounts
<1>1. dentry_hash_key(s, d) = KeyOf[s.dent[d].parent][s.dent[d].name]
    BY DEF dentry_hash_key
<1>2. inode_put(s, i) = [s EXCEPT !.iref = IF i = 0 THEN s.iref ELSE [s.iref EXCEPT ![i] = @ - 1]]
    <2>1. CASE i = 0
        BY <2>1 DEF inode_put, State
    <2>2. CASE i # 0
        <3>1. [s.iref EXCEPT ![i] = 0] = [s.iref EXCEPT ![i] = @ - 1] \/ s.iref[i] # 1
            BY StateTables, <2>2 DEF TablesOk
        <3> QED
            BY <2>2, <3>1 DEF inode_put, inode_free, State
    <2> QED
        BY <2>1, <2>2
<1> QED
    BY <1>1, <1>2 DEF dentry_free, With, State

\* dentry_insert adds a node, unless the key is taken.
LEMMA InsertIs ==
    ASSUME NEW s \in State, NEW d \in Dentries, NEW k, k = KeyOf[s.dent[d].parent][s.dent[d].name],
           NEW r, r = dentry_insert(s, d)
    PROVE  \/ k \in DOMAIN s.ht /\ r = Fail(s, "EEXIST")
           \/ k \notin DOMAIN s.ht
              /\ r = Ok(With(s, s.dent, hashtable_insert(s.ht, k, d), s.iref), d)
<1>1. dentry_hash_key(s, d) = k
    BY DEF dentry_hash_key
<1>2. \A j \in DOMAIN s.ht : s.ht[j] # 0
    <2>1. s.ht \in [DOMAIN s.ht -> Dentries]
        BY StateTables, TableShape DEF TablesOk
    <2> QED
        BY <2>1 DEF Dentries
<1>3. hashtable_lookup(s.ht, k) # 0 <=> k \in DOMAIN s.ht
    BY <1>2 DEF hashtable_lookup
<1>4. [s EXCEPT !.ht = hashtable_insert(s.ht, k, d)] = With(s, s.dent, hashtable_insert(s.ht, k, d), s.iref)
    BY DEF With, State
<1> QED
    BY <1>1, <1>3, <1>4 DEF dentry_insert

\* dentry_get and dentry_put write d_refcnt.
Recounts(s, t, d, r) == t = With(s, Touching(s.dent, d, r), s.ht, s.iref)

\* dentry_get adds one to d_refcnt, which wraps.
LEMMA GetIs ==
    ASSUME NEW s \in State, NEW d \in Dentries, NEW t, t = dentry_get(s, d)
    PROVE  \E r \in Nat : r = (s.dent[d].ref + 1) % RefMod /\ Recounts(s, t, d, r)
<1>1. s.dent[d].ref \in Nat
    BY DEF State, Dentry
<1>2. (s.dent[d].ref + 1) % RefMod \in Nat
    BY <1>1, DcacheAssumption DEF DcacheAssumption
<1>3. t = With(s, [s.dent EXCEPT ![d].ref = (s.dent[d].ref + 1) % RefMod], s.ht, s.iref)
    BY DEF dentry_get, With, State
<1> QED
    BY <1>2, <1>3 DEF Recounts, Touching

\* dentry_put takes one from d_refcnt, which wraps.
LEMMA PutIs ==
    ASSUME NEW s \in State, NEW d \in Dentries, NEW t, t = dentry_put(s, d)
    PROVE  \E r \in Nat : r = (s.dent[d].ref + RefMod - 1) % RefMod /\ Recounts(s, t, d, r)
<1>1. s.dent[d].ref \in Nat
    BY DEF State, Dentry
<1>2. (s.dent[d].ref + RefMod - 1) % RefMod \in Nat
    BY <1>1, DcacheAssumption DEF DcacheAssumption
<1>3. t = With(s, [s.dent EXCEPT ![d].ref = (s.dent[d].ref + RefMod - 1) % RefMod], s.ht, s.iref)
    BY DEF dentry_put, With, State
<1> QED
    BY <1>2, <1>3 DEF Recounts, Touching
-----------------------------------------------------------------------------
(* A call in progress.  D0 are the dentries when it began: they are all still *)
(* there, and only the counts of roots have changed.  What a walk reaches is  *)
(* a root or a dentry of its own, and so are the parents of the call's own.   *)

Kept(D0, D) ==
    \A d \in Dentries : D0[d].live =>
        /\ D[d].live /\ D[d].parent = D0[d].parent /\ D[d].name = D0[d].name /\ D[d].ino = D0[d].ino
        /\ D0[d].parent # d => D[d].ref = D0[d].ref
Reached(D0, D, d) == d \in Dentries /\ D[d].live /\ (D0[d].live => IsRoot(D0, d))
Linked(D0, D) == \A d \in Dentries : D[d].live /\ ~D0[d].live => Reached(D0, D, D[d].parent)

\* A call that has done nothing yet.
LEMMA KeptSelf ==
    ASSUME NEW D
    PROVE  Kept(D, D) /\ Linked(D, D)
BY DEF Kept, Linked

\* Two steps of a call are one.
LEMMA KeptTwice ==
    ASSUME NEW C, NEW D, NEW E, Kept(C, D), Kept(D, E)
    PROVE  Kept(C, E)
BY DEF Kept

\* A walk from one moment of a call is a walk from its beginning.
LEMMA ReachedFromBefore ==
    ASSUME NEW C, NEW D, NEW E, Kept(C, D), Kept(D, E), NEW d, Reached(D, E, d)
    PROVE  Reached(C, E, d)
BY DEF Kept, Reached, IsRoot

\* Two steps of a call that link dentries are one.
LEMMA LinkedTwice ==
    ASSUME NEW C, NEW D, NEW E, Kept(C, D), Kept(D, E), Linked(C, D), Linked(D, E)
    PROVE  Linked(C, E)
<1> SUFFICES ASSUME NEW d \in Dentries, E[d].live, ~C[d].live
             PROVE  Reached(C, E, E[d].parent)
    BY DEF Linked
<1>1. CASE ~D[d].live
    BY <1>1, ReachedFromBefore DEF Linked
<1>2. CASE D[d].live
    <2>1. Reached(C, D, D[d].parent) /\ E[d].parent = D[d].parent
        BY <1>2 DEF Linked, Kept
    <2> QED
        BY <2>1 DEF Reached, Kept
<1> QED
    BY <1>1, <1>2

\* The parent of what a walk reaches, for "..".
LEMMA ReachedParent ==
    ASSUME NEW C, NEW D, Kept(C, D), Linked(C, D), NEW d, Reached(C, D, d)
    PROVE  Reached(C, D, D[d].parent)
BY DEF Kept, Linked, Reached, IsRoot

\* A new dentry.
LEMMA Grown ==
    ASSUME NEW C, NEW D \in [Dentries -> Dentry], Kept(C, D),
           NEW d \in Dentries, ~D[d].live, NEW e \in Dentry, e.live,
           NEW E, E = Placing(D, d, e)
    PROVE  /\ Kept(C, E) /\ Reached(C, E, d) /\ ~C[d].live
           /\ \A x : Reached(C, D, x) => Reached(C, E, x) /\ x # d /\ E[x] = D[x]
           /\ Linked(C, D) /\ Reached(C, D, e.parent) => Linked(C, E)
<1> USE DEF Placing
<1>1. ~C[d].live
    BY DEF Kept
<1>2. E[d] = e /\ \A x \in Dentries \ {d} : E[x] = D[x]
    OBVIOUS
<1>3. Kept(C, E)
    BY <1>1, <1>2 DEF Kept
<1>4. Reached(C, E, d)
    BY <1>1, <1>2 DEF Reached
<1>5. \A x : Reached(C, D, x) => Reached(C, E, x) /\ x # d /\ E[x] = D[x]
    BY <1>2 DEF Reached
<1>6. ASSUME Linked(C, D), Reached(C, D, e.parent) PROVE Linked(C, E)
    <2> SUFFICES ASSUME NEW x \in Dentries, E[x].live, ~C[x].live
                 PROVE  Reached(C, E, E[x].parent)
        BY DEF Linked
    <2>1. CASE x = d
        BY <1>2, <1>5, <1>6, <2>1
    <2>2. CASE x # d
        BY <1>2, <1>5, <1>6, <2>2 DEF Linked
    <2> QED
        BY <2>1, <2>2
<1> QED
    BY <1>1, <1>3, <1>4, <1>5, <1>6

\* A count.
LEMMA Recounted ==
    ASSUME NEW C, NEW D \in [Dentries -> Dentry], Kept(C, D),
           NEW d, Reached(C, D, d), NEW r \in Nat,
           NEW E, E = Touching(D, d, r)
    PROVE  /\ Kept(C, E) /\ (Linked(C, D) => Linked(C, E))
           /\ \A x : Reached(C, D, x) => Reached(C, E, x)
           /\ E[d].ref = r
           /\ \A x \in Dentries : E[x].parent = D[x].parent /\ E[x].ino = D[x].ino
           /\ \A x \in Dentries : x # d => E[x] = D[x]
<1> USE DEF Touching
<1>0. d \in Dentries
    BY DEF Reached
<1>1. \A x \in Dentries : x # d => E[x] = D[x]
    OBVIOUS
<1>2. E[d] = [D[d] EXCEPT !.ref = r] /\ D[d] \in Dentry
    BY <1>0
<1>3. /\ E[d].ref = r /\ E[d].parent = D[d].parent /\ E[d].name = D[d].name
      /\ E[d].ino = D[d].ino /\ E[d].live = D[d].live
    <2>1. PICK e \in Dentry : e = D[d]
        BY <1>2
    <2>2. PICK f : f = [e EXCEPT !.ref = r]
        OBVIOUS
    <2>3. f.ref = r /\ f.live = e.live /\ f.parent = e.parent /\ f.name = e.name /\ f.ino = e.ino
        BY <2>2 DEF Dentry
    <2> QED
        BY <1>2, <2>1, <2>2, <2>3
<1>4. \A x \in Dentries : (E[x].live <=> D[x].live) /\ E[x].parent = D[x].parent
                          /\ E[x].name = D[x].name /\ E[x].ino = D[x].ino
    BY <1>1, <1>3
<1>5. C[d].live => C[d].parent = d
    BY DEF Reached, IsRoot
<1>6. Kept(C, E)
    BY <1>1, <1>4, <1>5 DEF Kept
<1>7. \A x : Reached(C, D, x) => Reached(C, E, x)
    BY <1>4 DEF Reached
<1>8. Linked(C, D) => Linked(C, E)
    BY <1>4, <1>7 DEF Linked
<1> QED
    BY <1>1, <1>3, <1>4, <1>6, <1>7, <1>8

\* A dentry of the call is freed.
LEMMA Shrunk ==
    ASSUME NEW C, NEW D \in [Dentries -> Dentry], Kept(C, D),
           NEW d \in Dentries, ~C[d].live, NEW E, E = Placing(D, d, NoDentry)
    PROVE  Kept(C, E) /\ \A x \in Dentries : x # d => E[x] = D[x]
<1> USE DEF Placing
<1>1. \A x \in Dentries : x # d => E[x] = D[x]
    OBVIOUS
<1> QED
    BY <1>1 DEF Kept
-----------------------------------------------------------------------------
(* The same for the state that a call threads through its steps. *)

Sound(s) == s \in State /\ Tree(s.dent, s.ht, s.iref)
Ends(s0, s) == /\ Sound(s) /\ s.mounts = s0.mounts /\ s.files = s0.files
               /\ Kept(s0.dent, s.dent)
Working(s0, s) == Ends(s0, s) /\ Linked(s0.dent, s.dent)

\* Every call begins like this.
LEMMA WorkingSelf ==
    ASSUME NEW s, Sound(s)
    PROVE  Working(s, s)
BY KeptSelf DEF Working, Ends

\* A call inside a call.
LEMMA EndsTwice ==
    ASSUME NEW s, NEW t, NEW u, Ends(s, t), Ends(t, u)
    PROVE  Ends(s, u) /\ (Working(s, t) /\ Working(t, u) => Working(s, u))
BY KeptTwice, LinkedTwice DEF Working, Ends

\* Disks, super blocks and the hash table are not looked at.
LEMMA WorkingAside ==
    ASSUME NEW s0, NEW s, NEW t, Ends(s0, s), Sound(t), t.dent = s.dent,
           t.mounts = s.mounts, t.files = s.files
    PROVE  /\ Ends(s0, t)
           /\ Working(s0, s) => Working(s0, t)
           /\ \A x : Reached(s0.dent, s.dent, x) => Reached(s0.dent, t.dent, x)
BY DEF Working, Ends

Recounting(s0, s, t, d) ==
    /\ Ends(s0, t) /\ (Working(s0, s) => Working(s0, t)) /\ SameRest(s, t)
    /\ \A x : Reached(s0.dent, s.dent, x) => Reached(s0.dent, t.dent, x)
    /\ \A x \in Dentries : t.dent[x].parent = s.dent[x].parent /\ t.dent[x].ino = s.dent[x].ino
    /\ \A x \in Dentries : x # d => t.dent[x] = s.dent[x]

\* A count of a dentry that the call has reached.
LEMMA WorkingRecount ==
    ASSUME NEW s0, NEW s, Ends(s0, s), NEW d, Reached(s0.dent, s.dent, d),
           NEW r \in Nat, NEW t, Recounts(s, t, d, r)
    PROVE  Recounting(s0, s, t, d) /\ t.dent[d].ref = r
<1>1. PICK D \in [Dentries -> Dentry] : D = s.dent
    BY StateTables DEF Ends, Sound, TablesOk
<1>2. d \in Dentries /\ s.dent[d].live
    BY DEF Reached
<1>3. PICK E : E = Touching(D, d, r)
    OBVIOUS
<1>4. t = With(s, E, s.ht, s.iref) /\ s \in State
    BY <1>1, <1>3 DEF Recounts, Ends, Sound
<1>5. Tree(E, s.ht, s.iref)
    BY <1>1, <1>2, <1>3, TreeRecounts DEF Ends, Sound
<1>6. TablesOk(E, s.ht, s.iref)
    BY <1>5 DEF Tree, TablesOk
<1>7. t.dent = E /\ t.ht = s.ht /\ t.iref = s.iref /\ SameRest(s, t) /\ t \in State
    BY <1>4, <1>6, WithFields
<1>8. Sound(t)
    BY <1>5, <1>7 DEF Sound
<1>9. Kept(s0.dent, D) /\ Reached(s0.dent, D, d)
    BY <1>1 DEF Ends
<1>12. PICK C : C = s0.dent
    OBVIOUS
<1>10. /\ Kept(C, E) /\ (Linked(C, D) => Linked(C, E))
       /\ \A x : Reached(C, D, x) => Reached(C, E, x)
       /\ E[d].ref = r
       /\ \A x \in Dentries : E[x].parent = D[x].parent /\ E[x].ino = D[x].ino
       /\ \A x \in Dentries : x # d => E[x] = D[x]
    <2>1. Kept(C, D) /\ Reached(C, D, d)
        BY <1>9, <1>12
    <2> QED
        BY <1>3, <2>1, Recounted
<1>11. Ends(s0, t) /\ (Working(s0, s) => Working(s0, t))
    BY <1>1, <1>7, <1>8, <1>10, <1>12 DEF Working, Ends, SameRest
<1> QED
    BY <1>1, <1>7, <1>10, <1>11, <1>12 DEF Recounting

\* dentry_get of a dentry that the call has reached.
LEMMA WorkingGet ==
    ASSUME NEW s0, NEW s, Ends(s0, s), NEW d, Reached(s0.dent, s.dent, d),
           NEW t, t = dentry_get(s, d)
    PROVE  Recounting(s0, s, t, d) /\ t.dent[d].ref = (s.dent[d].ref + 1) % RefMod
<1>1. s \in State /\ d \in Dentries
    BY DEF Ends, Sound, Reached
<1>2. PICK r \in Nat : r = (s.dent[d].ref + 1) % RefMod /\ Recounts(s, t, d, r)
    BY <1>1, GetIs
<1> QED
    BY <1>2, WorkingRecount

\* dentry_put of a dentry that the call has reached.
LEMMA WorkingPut ==
    ASSUME NEW s0, NEW s, Ends(s0, s), NEW d, Reached(s0.dent, s.dent, d),
           NEW t, t = dentry_put(s, d)
    PROVE  Recounting(s0, s, t, d) /\ t.dent[d].ref = (s.dent[d].ref + RefMod - 1) % RefMod
<1>1. s \in State /\ d \in Dentries
    BY DEF Ends, Sound, Reached
<1>2. PICK r \in Nat : r = (s.dent[d].ref + RefMod - 1) % RefMod /\ Recounts(s, t, d, r)
    BY <1>1, PutIs
<1> QED
    BY <1>2, WorkingRecount

\* dentry_alloc with an inode.
LEMMA Born ==
    ASSUME NEW s, Sound(s), NEW d \in Dentries, ~s.dent[d].live,
           NEW f \in Dentry, f.live, f.parent # 0,
           NEW b \in State, b.dent = Placing(s.dent, d, f), NEW H, b.ht = H,
           b.iref = s.iref,
           NEW i \in Inos, NEW t, t = Instantiate(b, d, i),
           NEW e, e = [f EXCEPT !.ino = i]
    PROVE  /\ e \in Dentry /\ e.live /\ e.parent = f.parent /\ e.name = f.name /\ e.ref = f.ref
           /\ e.ino = i
           /\ t \in State /\ t.dent = Placing(s.dent, d, e) /\ t.ht = H /\ SameRest(b, t)
           /\ Tree(t.dent, s.ht, t.iref)
<1>1. PICK D \in [Dentries -> Dentry] : D = s.dent
    BY StateTables DEF Sound, TablesOk
<1>2. /\ e \in Dentry /\ e.live /\ e.parent = f.parent /\ e.name = f.name /\ e.ref = f.ref
      /\ e.ino = i
    BY DEF Dentry
<1>3. PICK E : E = Placing(D, d, e)
    OBVIOUS
<1>4. [b.dent EXCEPT ![d].ino = i] = E
    BY <1>1, <1>2, <1>3 DEF Placing
<1>5. t = With(b, E, H, Counts(s.iref, i)) /\ t \in State
    BY <1>4, InstantiateIs
<1>6. t.dent = E /\ t.ht = H /\ t.iref = Counts(s.iref, i) /\ SameRest(b, t)
    BY <1>5, WithFields
<1>7. Tree(E, s.ht, Counts(s.iref, i))
    <2>1. PICK G, R, S : G = s.ht /\ R = s.iref /\ S = Counts(R, i)
        OBVIOUS
    <2>2. E = Placing(D, d, e)
        BY <1>3
    <2>3. Tree(D, G, R) /\ ~D[d].live /\ e.parent # 0 /\ e.live /\ e.ino = i /\ e \in Dentry
        BY <1>1, <1>2, <2>1 DEF Sound
    <2>4. Tree(E, G, S)
        BY <2>1, <2>2, <2>3, TreeGrows
    <2> QED
        BY <2>1, <2>4
<1> QED
    BY <1>1, <1>2, <1>3, <1>5, <1>6, <1>7

\* dentry_insert, with or without a free key.
LEMMA Hashed ==
    ASSUME NEW s, Sound(s), NEW d \in Dentries, s.dent[d].live,
           NEW t, t = dentry_insert(s, d).s
    PROVE  Sound(t) /\ t.dent = s.dent /\ SameRest(s, t)
<1>1. PICK k : k = KeyOf[s.dent[d].parent][s.dent[d].name]
    OBVIOUS
<1>2. s \in State
    BY DEF Sound
<1>3. CASE k \in DOMAIN s.ht
    <2>1. dentry_insert(s, d) = Fail(s, "EEXIST")
        BY <1>1, <1>2, <1>3, InsertIs
    <2> QED
        BY <2>1 DEF Fail, SameRest
<1>4. CASE k \notin DOMAIN s.ht
    <2>1. PICK G : G = hashtable_insert(s.ht, k, d)
        OBVIOUS
    <2>2. dentry_insert(s, d) = Ok(With(s, s.dent, G, s.iref), d)
        BY <1>1, <1>2, <1>4, <2>1, InsertIs
    <2>3. t = With(s, s.dent, G, s.iref)
        BY <2>2 DEF Ok
    <2>4. PICK D, H, R : D = s.dent /\ H = s.ht /\ R = s.iref
        OBVIOUS
    <2>5. Tree(D, G, R)
        <3>1. Tree(D, H, R) /\ D[d].live /\ k = KeyOf[D[d].parent][D[d].name] /\ k \notin DOMAIN H
            BY <1>1, <1>4, <2>4 DEF Sound
        <3> QED
            BY <2>1, <2>4, <3>1, TreeHashes
    <2>6. TablesOk(D, G, R)
        BY <2>5 DEF Tree, TablesOk
    <2> QED
        BY <1>2, <2>3, <2>4, <2>5, <2>6, WithFields DEF Sound
<1> QED
    BY <1>3, <1>4

\* dentry_free of a dentry that has no inode yet: only the hash table may lose a node.
LEMMA Unborn ==
    ASSUME NEW s, Sound(s), NEW d \in Dentries, ~s.dent[d].live,
           NEW f \in Dentry, f.ino = 0,
           NEW b, b = With(s, Placing(s.dent, d, f), s.ht, s.iref), b \in State,
           NEW t, t = dentry_free(b, d)
    PROVE  Sound(t) /\ t.dent = s.dent /\ SameRest(s, t)
<1>0. PICK D \in [Dentries -> Dentry] : D = s.dent
    BY StateTables DEF Sound, TablesOk
<1>1. PICK H, R : D = s.dent /\ H = s.ht /\ R = s.iref /\ Tree(D, H, R)
    BY <1>0 DEF Sound
<1>2. D[d] = NoDentry
    BY <1>1 DEF Tree
<1>3. s \in State
    BY DEF Sound
<1>4. b.dent = Placing(D, d, f) /\ b.ht = H /\ b.iref = R /\ SameRest(s, b)
    BY <1>1, <1>3, WithFields
<1>5. b.dent[d] = f
    BY <1>1, <1>4 DEF Placing
<1>6. PICK k : k = KeyOf[f.parent][f.name]
    OBVIOUS
<1>7. t = With(b, Placing(b.dent, d, NoDentry), hashtable_delete(H, k), R)
    BY <1>4, <1>5, <1>6, FreeIs
<1>8. Placing(b.dent, d, NoDentry) = D
    <2>1. Placing(Placing(D, d, f), d, NoDentry) = [x \in Dentries |-> IF x = d THEN NoDentry ELSE D[x]]
        BY DEF Placing
    <2>2. D = [x \in Dentries |-> IF x = d THEN NoDentry ELSE D[x]]
        BY <1>2
    <2> QED
        BY <1>4, <2>1, <2>2
<1>9. Tree(D, hashtable_delete(H, k), R)
    BY <1>1, TreeUnhashes
<1>10. TablesOk(D, hashtable_delete(H, k), R)
    BY <1>9 DEF Tree, TablesOk
<1>11. /\ t.dent = D /\ t.ht = hashtable_delete(H, k) /\ t.iref = R /\ SameRest(b, t)
       /\ t \in State
    BY <1>7, <1>8, <1>10, WithFields
<1> QED
    BY <1>1, <1>4, <1>9, <1>11 DEF Sound, SameRest

\* dentry_free of a dentry of the call.
LEMMA Gone ==
    ASSUME NEW s0, NEW s, Ends(s0, s), NEW d \in Dentries, s.dent[d].live, ~s0.dent[d].live,
           NEW t, t = dentry_free(s, d)
    PROVE  /\ Ends(s0, t) /\ SameRest(s, t)
           /\ \A x \in Dentries : x # d => t.dent[x] = s.dent[x]
           /\ \A x : Reached(s0.dent, s.dent, x) /\ x # d => Reached(s0.dent, t.dent, x)
<1>0. PICK D \in [Dentries -> Dentry] : D = s.dent
    BY StateTables DEF Ends, Sound, TablesOk
<1>1. PICK H, R : D = s.dent /\ H = s.ht /\ R = s.iref /\ Tree(D, H, R)
    BY <1>0 DEF Ends, Sound
<1>2. s \in State /\ D[d].live
    BY <1>1 DEF Ends, Sound
<1>3. PICK i, E, G, S : /\ i = D[d].ino /\ E = Placing(D, d, NoDentry)
                        /\ G = hashtable_delete(H, KeyOf[D[d].parent][D[d].name])
                        /\ S = Discounts(R, i)
    OBVIOUS
<1>4. i \in Inos /\ R[i] \in Nat \ {0} /\ Tree(E, G, S)
    BY <1>1, <1>2, <1>3, TreeShrinks
<1>5. i # 0
    BY <1>4, DcacheAssumption DEF DcacheAssumption
<1>6. t = With(s, E, G, S)
    BY <1>1, <1>2, <1>3, <1>4, <1>5, FreeIs
<1>7. TablesOk(E, G, S)
    BY <1>4 DEF Tree, TablesOk
<1>8. t.dent = E /\ t.ht = G /\ t.iref = S /\ SameRest(s, t) /\ t \in State
    BY <1>2, <1>6, <1>7, WithFields
<1>9. PICK C : C = s0.dent
    OBVIOUS
<1>10. Kept(C, E) /\ \A x \in Dentries : x # d => E[x] = D[x]
    <2>1. Kept(C, D) /\ ~C[d].live
        BY <1>1, <1>9 DEF Ends
    <2> QED
        BY <1>3, <2>1, Shrunk
<1>11. Ends(s0, t)
    BY <1>4, <1>8, <1>9, <1>10 DEF Ends, Sound, SameRest
<1>12. \A x : Reached(C, D, x) /\ x # d => Reached(C, E, x)
    BY <1>10 DEF Reached
<1> QED
    BY <1>1, <1>8, <1>9, <1>10, <1>11, <1>12
-----------------------------------------------------------------------------
(* Lookups. *)

\* dentry_lookup finds nothing: the bucket it searches for a key is never the one
\* hashtable_insert has put that key in.
LEMMA LookupMisses ==
    ASSUME NEW s, Sound(s), NEW parent \in Dentries, NEW n \in Components
    PROVE  dentry_lookup(s, parent, n) = 0
<1> DEFINE hit == {k \in DOMAIN s.ht :
                      /\ hash_ptr[k] = KeyOf[parent][n]
                      /\ s.dent[s.ht[k]].parent = parent /\ s.dent[s.ht[k]].name = n}
<1>1. ASSUME NEW k \in hit PROVE FALSE
    <2>1. /\ k \in DOMAIN s.ht /\ hash_ptr[k] = KeyOf[parent][n]
          /\ s.dent[s.ht[k]].parent = parent /\ s.dent[s.ht[k]].name = n
        BY <1>1
    <2>2. KeyOf[s.dent[s.ht[k]].parent][s.dent[s.ht[k]].name] = k
        BY <2>1 DEF Sound, Tree
    <2>3. hash_ptr[k] = k
        BY <2>1, <2>2
    <2>4. k \in 0..(HashSize - 1)
        BY <2>1, TableShape DEF Sound, Tree
    <2> QED
        BY <2>3, <2>4, HashMoves
<1>2. hit = {}
    BY <1>1
<1> QED
    BY <1>2 DEF dentry_lookup

\* The entries of a directory on disk name inodes.
LEMMA NamedShape ==
    ASSUME NEW s \in State, NEW d, NEW e \in Named(s, d)
    PROVE  e[3] \in Inos /\ s.dent[d].name \in Names
BY DEF State, Named

\* vfs_lookup_single leaves all dentries alone, or adds one below the directory.
LookedUp(s, base, r) ==
    /\ Sound(r.s) /\ SameRest(s, r.s)
    /\ \/ r.err # "0" /\ r.s.dent = s.dent
       \/ /\ r.err = "0" /\ r.d \in Dentries /\ ~s.dent[r.d].live
          /\ \E e \in Dentry : /\ e.live /\ e.parent = base /\ e.ref = 1
                               /\ r.s.dent = Placing(s.dent, r.d, e)

\* The directory is searched on disk, as the cache never has the name.
LEMMA LookupIn ==
    ASSUME NEW s, Sound(s), NEW base \in Dentries, NEW n \in Components,
           NEW r, r = lookup_in(s, base, n)
    PROVE  LookedUp(s, base, r)
<1>1. CASE ~IsDir(s, base)
    BY <1>1 DEF lookup_in, Fail, LookedUp, SameRest
<1>2. CASE IsDir(s, base)
    <2>1. PICK a, l : a = dentry_alloc(s, base, s.dent[base].sb, n) /\ l = fs_lookup(a.s, a.d)
        OBVIOUS
    <2>2. dentry_lookup(s, base, n) = 0
        BY LookupMisses
    <2>3. r = IF a.err = "0"
                THEN IF l.err = "0" THEN Ok(dentry_insert(l.s, a.d).s, a.d)
                     ELSE Fail(dentry_free(a.s, a.d), l.err)
                ELSE a
        BY <1>2, <2>1, <2>2 DEF lookup_in, Then, Call
    <2>4. s \in State /\ base # 0
        BY DEF Sound, Dentries
    <2>5. PICK sb \in Sbs \cup {NoName} : sb = s.dent[base].sb
        <3>1. s.dent[base] \in Dentry
            BY <2>4 DEF State
        <3> QED
            BY <3>1 DEF Dentry
    <2>6. PICK d, f : d = a.d /\ f = New(d, base, sb, n)
        OBVIOUS
    <2>7. \/ a.err = "ENOMEM" /\ a.s = s
          \/ /\ a.err = "0" /\ d \in Dentries /\ ~s.dent[d].live /\ f \in Dentry
             /\ a.s = With(s, Placing(s.dent, d, f), s.ht, s.iref) /\ a.s \in State
        BY <2>1, <2>4, <2>5, <2>6, AllocIs
    <2>8. CASE a.err = "ENOMEM" /\ a.s = s
        BY <2>3, <2>8 DEF LookedUp, SameRest
    <2>9. CASE /\ a.err = "0" /\ d \in Dentries /\ ~s.dent[d].live /\ f \in Dentry
               /\ a.s = With(s, Placing(s.dent, d, f), s.ht, s.iref) /\ a.s \in State
        <3>1. f.live /\ f.parent = base /\ f.ref = 1 /\ f.ino = 0
            BY <2>4, <2>6 DEF New
        <3>2. /\ a.s.dent = Placing(s.dent, d, f) /\ a.s.ht = s.ht /\ a.s.iref = s.iref
              /\ SameRest(s, a.s)
            BY <2>4, <2>9, WithFields
        <3>3. CASE Named(a.s, d) = {}
            <4>1. r = Fail(dentry_free(a.s, d), "ENOENT")
                BY <2>1, <2>3, <2>6, <2>9, <3>3 DEF fs_lookup, Fail
            <4>2. PICK t : t = dentry_free(a.s, d)
                OBVIOUS
            <4>3. Sound(t) /\ t.dent = s.dent /\ SameRest(s, t)
                BY <2>9, <3>1, <4>2, Unborn
            <4> QED
                BY <4>1, <4>2, <4>3 DEF Fail, LookedUp
        <3>4. CASE Named(a.s, d) # {}
            <4>1. PICK i : i = (CHOOSE e \in Named(a.s, d) : TRUE)[3]
                OBVIOUS
            <4>2. i \in Inos
                BY <2>9, <3>4, <4>1, NamedShape
            <4>3. PICK t : t = Instantiate(a.s, d, i)
                OBVIOUS
            <4>4. l = Ok(t, d)
                BY <2>1, <2>6, <3>4, <4>1, <4>3 DEF fs_lookup
            <4>5. PICK e : e = [f EXCEPT !.ino = i]
                OBVIOUS
            <4>6. /\ e \in Dentry /\ e.live /\ e.parent = f.parent /\ e.ref = f.ref
                  /\ t \in State /\ t.dent = Placing(s.dent, d, e) /\ t.ht = s.ht
                  /\ SameRest(a.s, t) /\ Tree(t.dent, s.ht, t.iref)
                BY <2>4, <2>9, <3>1, <3>2, <4>2, <4>3, <4>5, Born
            <4>7. Sound(t) /\ t.dent[d].live
                BY <2>4, <2>9, <4>6 DEF Sound, Placing, State
            <4>8. PICK u : u = dentry_insert(t, d).s
                OBVIOUS
            <4>9. Sound(u) /\ u.dent = t.dent /\ SameRest(t, u)
                BY <2>9, <4>7, <4>8, Hashed
            <4>10. r = Ok(u, d)
                BY <2>3, <2>6, <2>9, <4>4, <4>8 DEF Ok
            <4>11. SameRest(s, u)
                BY <3>2, <4>6, <4>9 DEF SameRest
            <4> QED
                BY <2>9, <3>1, <4>6, <4>9, <4>10, <4>11 DEF Ok, LookedUp
        <3> QED
            BY <3>3, <3>4
    <2> QED
        BY <2>7, <2>8, <2>9
<1> QED
    BY <1>1, <1>2
-----------------------------------------------------------------------------
(* Path walks. *)

RootsOk(s) == \A i \in DOMAIN s.mounts : s.mounts[i].root \in Dentries /\ IsRoot(s.dent, s.mounts[i].root)

\* What is mounted is a root.
LEMMA MountRoot ==
    ASSUME NEW s0, RootsOk(s0), NEW s, Ends(s0, s), NEW d, NEW r, r = vfs_lookup_mount(s, d)
    PROVE  r = 0 \/ (Reached(s0.dent, s.dent, r) /\ s.dent[r].parent = r)
<1> DEFINE hit == {i \in DOMAIN s.mounts : /\ s.dent[s.mounts[i].mp].parent = s.dent[d].parent
                                           /\ s.dent[s.mounts[i].mp].name = s.dent[d].name}
<1>1. CASE hit = {}
    BY <1>1 DEF vfs_lookup_mount
<1>2. CASE hit # {}
    <2>1. s.mounts \in Seq([mp : Dentries, root : Dentries, sb : Sbs])
        BY DEF Ends, Sound, State
    <2>2. hit \subseteq Nat
        BY <2>1
    <2>3. PICK i : i = Min(hit) /\ i \in hit
        BY <1>2, <2>2, MinIsIn
    <2>4. r = s.mounts[i].root
        BY <1>2, <2>3 DEF vfs_lookup_mount
    <2>5. r \in Dentries /\ IsRoot(s0.dent, r)
        BY <2>3, <2>4 DEF RootsOk, Ends
    <2> QED
        BY <2>5 DEF Ends, Kept, Reached, IsRoot
<1> QED
    BY <1>1, <1>2

\* One step down: vfs_lookup_single and follow_mount.  If the place is no root its
\* one count is that of the walk, and its parent is the directory or a root.
StepsTo(s0, s, d, f) ==
    /\ f.err = "0" /\ Working(s0, f.s)
    /\ Reached(s0.dent, f.s.dent, f.d) /\ Reached(s0.dent, f.s.dent, d)
    /\ \/ f.s.dent[f.d].parent = f.d
       \/ /\ f.d # d /\ f.s.dent[f.d].ref = 1 /\ f.s.dent[d] = s.dent[d]
          /\ \/ f.s.dent[f.d].parent = d
             \/ f.s.dent[f.s.dent[f.d].parent].parent = f.s.dent[f.d].parent

\* vfs_lookup_single starts in the directory or in the root mounted on it.
LEMMA LookupSingle ==
    ASSUME NEW s0, RootsOk(s0), NEW s, Working(s0, s), NEW d, Reached(s0.dent, s.dent, d),
           NEW n \in Components, NEW l, l = vfs_lookup_single(s, d, n),
           NEW f, f = follow_mount(l.s, l.d)
    PROVE  IF l.err = "0" THEN StepsTo(s0, s, d, f)
           ELSE Working(s0, l.s) /\ \A x : Reached(s0.dent, s.dent, x) => Reached(s0.dent, l.s.dent, x)
<1>1. PICK base : base = mounted_on(s, d)
    OBVIOUS
<1>2. Ends(s0, s) /\ Sound(s)
    BY DEF Working, Ends
<1>3. Reached(s0.dent, s.dent, base) /\ (base = d \/ s.dent[base].parent = base)
    <2>1. PICK root : root = vfs_lookup_mount(s, d)
        OBVIOUS
    <2>2. root = 0 \/ (Reached(s0.dent, s.dent, root) /\ s.dent[root].parent = root)
        BY <1>2, <2>1, MountRoot
    <2> QED
        BY <1>1, <2>1, <2>2 DEF mounted_on
<1>4. base \in Dentries
    BY <1>3 DEF Reached
<1>5. LookedUp(s, base, l)
    BY <1>1, <1>2, <1>4, LookupIn DEF vfs_lookup_single
<1>6. CASE l.err # "0"
    <2>1. Sound(l.s) /\ l.s.dent = s.dent /\ l.s.mounts = s.mounts /\ l.s.files = s.files
        BY <1>5, <1>6 DEF LookedUp, SameRest
    <2>2. PICK t : t = l.s
        OBVIOUS
    <2>3. /\ Working(s0, t)
          /\ \A x : Reached(s0.dent, s.dent, x) => Reached(s0.dent, t.dent, x)
        BY <1>2, <2>1, <2>2, WorkingAside
    <2> QED
        BY <1>6, <2>2, <2>3
<1>7. CASE l.err = "0"
    <2>1. PICK t, c : t = l.s /\ c = l.d
        OBVIOUS
    <2>2. Sound(t) /\ SameRest(s, t) /\ c \in Dentries /\ ~s.dent[c].live
        BY <1>5, <1>7, <2>1 DEF LookedUp
    <2>3. PICK e \in Dentry : e.live /\ e.parent = base /\ e.ref = 1 /\ t.dent = Placing(s.dent, c, e)
        BY <1>5, <1>7, <2>1 DEF LookedUp
    <2>4. PICK C, D, E : C = s0.dent /\ D = s.dent /\ E = t.dent
        OBVIOUS
    <2>5. D \in [Dentries -> Dentry] /\ Kept(C, D) /\ Linked(C, D)
        BY <1>2, <2>4, StateTables DEF Working, Ends, Sound, TablesOk
    <2>6. /\ Kept(C, E) /\ Reached(C, E, c) /\ Linked(C, E)
          /\ \A x : Reached(C, D, x) => Reached(C, E, x) /\ x # c /\ E[x] = D[x]
        <3>1. ~D[c].live /\ E = Placing(D, c, e) /\ Reached(C, D, e.parent)
            BY <1>3, <2>2, <2>3, <2>4
        <3> QED
            BY <2>2, <2>3, <2>5, <3>1, Grown
    <2>7. E[c] = e
        BY <2>2, <2>3, <2>4, <2>5 DEF Placing
    <2>8. Working(s0, t)
        BY <2>2, <2>4, <2>6, <1>2 DEF Working, Ends, SameRest
    <2>9. PICK root : root = vfs_lookup_mount(t, c)
        OBVIOUS
    <2>10. Ends(s0, t)
        BY <2>8 DEF Working
    <2>11. root = 0 \/ (Reached(s0.dent, t.dent, root) /\ t.dent[root].parent = root)
        BY <2>9, <2>10, MountRoot
    <2>12. Reached(C, E, d) /\ d # c /\ E[d] = D[d] /\ Reached(C, E, base) /\ E[base] = D[base]
        BY <1>3, <2>4, <2>6
    <2>13. CASE root = 0
        <3>1. f = Ok(t, c)
            BY <2>1, <2>9, <2>13 DEF follow_mount
        <3>2. f.s = t /\ f.d = c /\ f.err = "0"
            BY <3>1 DEF Ok
        <3>3. E[c].parent = base /\ E[c].ref = 1 /\ (base = d \/ E[base].parent = base)
            BY <1>3, <2>3, <2>4, <2>7, <2>12
        <3>4. StepsTo(s0, s, d, f)
            BY <2>4, <2>6, <2>8, <2>12, <3>2, <3>3 DEF StepsTo
        <3> QED
            BY <1>7, <3>4
    <2>14. CASE root # 0
        <3>1. PICK u, v : u = dentry_put(t, c) /\ v = dentry_get(u, root)
            OBVIOUS
        <3>2. f = Ok(v, root)
            BY <2>1, <2>9, <2>14, <3>1 DEF follow_mount
        <3>3. f.s = v /\ f.d = root /\ f.err = "0"
            BY <3>2 DEF Ok
        <3>4. Recounting(s0, t, u, c)
            BY <2>4, <2>6, <2>10, <3>1, WorkingPut
        <3>5. Working(s0, u) /\ Reached(s0.dent, u.dent, root) /\ Reached(s0.dent, u.dent, d)
              /\ Ends(s0, u) /\ u.dent[root].parent = root
            BY <2>4, <2>8, <2>11, <2>12, <2>14, <3>4 DEF Recounting, Reached
        <3>6. Recounting(s0, u, v, root)
            BY <3>1, <3>5, WorkingGet
        <3>7. Working(s0, v) /\ Reached(s0.dent, v.dent, root) /\ Reached(s0.dent, v.dent, d)
              /\ v.dent[root].parent = root
            BY <3>5, <3>6 DEF Recounting, Reached
        <3>8. StepsTo(s0, s, d, f)
            BY <3>3, <3>7 DEF StepsTo
        <3> QED
            BY <1>7, <3>8
    <2> QED
        BY <2>13, <2>14
<1> QED
    BY <1>6, <1>7

\* Where a walk without ".." stands: the counts it has left.
Fine(D, d) ==
    D[d].parent # d => /\ D[d].ref = 1
                       /\ D[D[d].parent].parent # D[d].parent => D[D[d].parent].ref = 0
Low(D, d) == D[d].parent # d => D[d].ref \in {0, 1}

Walked(s0, w) ==
    /\ w = [s |-> w.s, d |-> w.d, err |-> w.err, first |-> w.first]
    /\ Working(s0, w.s)
    /\ w.err = "0" => Reached(s0.dent, w.s.dent, w.d)

\* The last reference is put.
LEMMA PutOfOne == (1 + RefMod - 1) % RefMod = 0
BY DcacheAssumption DEF DcacheAssumption

\* One component of a walk.
LEMMA WalkStep ==
    ASSUME NEW s0, RootsOk(s0), NEW w, Walked(s0, w), NEW n \in Components,
           NEW t, t = walk_step(w, n)
    PROVE  /\ Walked(s0, t)
           /\ t.err = "0" => w.err = "0"
           /\ t.err = "0" /\ Fine(w.s.dent, w.d) => Low(t.s.dent, t.d)
           /\ t.err = "0" /\ Fine(w.s.dent, w.d) /\ n # ".." => Fine(t.s.dent, t.d)
<1>1. CASE w.err # "0"
    BY <1>1 DEF walk_step, Then
<1>2. CASE w.err = "0"
    <2>1. PICK s, d, b : s = w.s /\ d = w.d /\ b = w.first
        OBVIOUS
    <2>2. w = [s |-> s, d |-> d, err |-> "0", first |-> b] /\ Working(s0, s) /\ Reached(s0.dent, s.dent, d)
        BY <1>2, <2>1 DEF Walked
    <2>3. Ends(s0, s) /\ d \in Dentries
        BY <2>2 DEF Working, Reached
    <2>4. ASSUME Fine(s.dent, d) PROVE Low(s.dent, d)
        BY <2>4 DEF Fine, Low
    <2>5. CASE ~b /\ ~IsDir(s, d)
        <3>1. PICK u : u = dentry_put(s, d)
            OBVIOUS
        <3>2. t = [s |-> u, d |-> d, err |-> "ENOTDIR", first |-> b]
            BY <2>2, <2>5, <3>1 DEF walk_step, Then
        <3>3. Recounting(s0, s, u, d)
            BY <2>2, <2>3, <3>1, WorkingPut
        <3> QED
            BY <2>2, <3>2, <3>3 DEF Recounting, Walked
    <2>6. CASE ~(~b /\ ~IsDir(s, d)) /\ n = "."
        <3>1. t = [s |-> s, d |-> d, err |-> "0", first |-> FALSE]
            BY <2>2, <2>6 DEF walk_step, Then
        <3>2. Walked(s0, t)
            BY <2>2, <3>1 DEF Walked
        <3> QED
            BY <1>2, <2>1, <2>4, <3>1, <3>2
    <2>7. CASE ~(~b /\ ~IsDir(s, d)) /\ n = ".."
        <3>1. PICK c : c = s.dent[d].parent
            OBVIOUS
        <3>2. t = [s |-> s, d |-> c, err |-> "0", first |-> FALSE]
            BY <2>2, <2>7, <3>1 DEF walk_step, Then, walk_dotdot
        <3>3. Reached(s0.dent, s.dent, c)
            BY <2>2, <2>3, <3>1, ReachedParent DEF Working, Ends
        <3>4. Walked(s0, t)
            BY <2>2, <3>2, <3>3 DEF Walked
        <3>5. Fine(s.dent, d) => Low(s.dent, c)
            BY <3>1 DEF Fine, Low
        <3> QED
            BY <1>2, <2>1, <2>7, <3>2, <3>4, <3>5
    <2>8. CASE ~(~b /\ ~IsDir(s, d)) /\ n # "." /\ n # ".."
        <3>1. PICK l, f : l = vfs_lookup_single(s, d, n) /\ f = follow_mount(l.s, l.d)
            OBVIOUS
        <3>2. IF l.err = "0" THEN StepsTo(s0, s, d, f)
              ELSE Working(s0, l.s) /\ \A x : Reached(s0.dent, s.dent, x) => Reached(s0.dent, l.s.dent, x)
            BY <2>2, <3>1, LookupSingle
        <3>3. CASE l.err # "0"
            <4>1. t = [s |-> l.s, d |-> d, err |-> l.err, first |-> b]
                BY <2>2, <2>8, <3>1, <3>3 DEF walk_step, Then, Call
            <4> QED
                BY <3>2, <3>3, <4>1 DEF Walked
        <3>4. CASE l.err = "0"
            <4>1. PICK g, c, u : g = f.s /\ c = f.d /\ u = dentry_put(g, d)
                OBVIOUS
            <4>2. StepsTo(s0, s, d, f) /\ f.err = "0"
                BY <3>2, <3>4 DEF StepsTo
            <4>3. t = [s |-> u, d |-> c, err |-> "0", first |-> FALSE]
                BY <2>2, <2>8, <3>1, <3>4, <4>1, <4>2 DEF walk_step, Then, Call
            <4>4. Working(s0, g) /\ Reached(s0.dent, g.dent, c) /\ Reached(s0.dent, g.dent, d)
                BY <4>1, <4>2 DEF StepsTo
            <4>5. Ends(s0, g) /\ c \in Dentries
                BY <4>4 DEF Working, Reached
            <4>6. Recounting(s0, g, u, d) /\ u.dent[d].ref = (g.dent[d].ref + RefMod - 1) % RefMod
                BY <4>1, <4>4, <4>5, WorkingPut
            <4>7. Walked(s0, t)
                BY <4>3, <4>4, <4>6 DEF Recounting, Walked
            <4>8. ASSUME Fine(s.dent, d) PROVE Fine(u.dent, c)
                <5>1. PICK G, U : G = g.dent /\ U = u.dent
                    OBVIOUS
                <5>2. /\ \A x \in Dentries : U[x].parent = G[x].parent
                      /\ \A x \in Dentries : x # d => U[x] = G[x]
                      /\ U[d].ref = (G[d].ref + RefMod - 1) % RefMod
                    BY <4>6, <5>1 DEF Recounting
                <5>3. CASE G[c].parent = c
                    BY <4>5, <5>1, <5>2, <5>3 DEF Fine
                <5>4. CASE G[c].parent # c
                    <6>1. PICK p : p = G[c].parent
                        OBVIOUS
                    <6>2. /\ c # d /\ G[c].ref = 1 /\ G[d] = s.dent[d]
                          /\ p = d \/ G[p].parent = p
                        BY <4>1, <4>2, <5>1, <5>4, <6>1 DEF StepsTo
                    <6>3. U[c].ref = 1 /\ U[c].parent = p
                        BY <4>5, <5>2, <6>1, <6>2
                    <6>4. p \in Dentries
                        <7>1. Reached(s0.dent, g.dent, g.dent[c].parent)
                            BY <4>4, ReachedParent DEF Working, Ends
                        <7> QED
                            BY <5>1, <6>1, <7>1 DEF Reached
                    <6>5. ASSUME U[p].parent # p PROVE U[p].ref = 0
                        <7>1. p = d /\ G[d].parent # d
                            BY <5>2, <6>2, <6>4, <6>5
                        <7>2. G[d].ref = 1
                            BY <4>8, <6>2, <7>1 DEF Fine
                        <7> QED
                            BY <5>2, <7>1, <7>2, PutOfOne
                    <6> QED
                        BY <5>1, <6>3, <6>5 DEF Fine
                <5> QED
                    BY <5>3, <5>4
            <4>9. Fine(u.dent, c) => Low(u.dent, c)
                BY DEF Fine, Low
            <4> QED
                BY <1>2, <2>1, <4>3, <4>7, <4>8, <4>9
        <3> QED
            BY <3>3, <3>4
    <2> QED
        BY <2>5, <2>6, <2>7, <2>8
<1> QED
    BY <1>1, <1>2

\* A walk has a state after each of its components.
Walks(u, start, p, m) ==
    u = [n \in 0..m |-> IF n = 0 THEN start ELSE walk_step(u[n - 1], p[n])]

\* The walk is what its recursive function says.
LEMMA WalkExists ==
    ASSUME NEW start, NEW p, NEW m \in Nat
    PROVE  \E u : Walks(u, start, p, m)
<1> DEFINE T == {k \in Nat : ~\E u : Walks(u, start, p, k)}
<1>1. SUFFICES ASSUME T # {} PROVE FALSE
    OBVIOUS
<1>2. PICK k \in T : \A j \in T : k <= j
    BY <1>1, LeastExists
<1>3. CASE k = 0
    <2>1. PICK u : u = [n \in 0..0 |-> start]
        OBVIOUS
    <2>2. u = [n \in 0..0 |-> IF n = 0 THEN start ELSE walk_step(u[n - 1], p[n])]
        BY <2>1
    <2> QED
        BY <1>3, <2>2 DEF Walks
<1>4. CASE k # 0
    <2>1. k - 1 \in Nat /\ k - 1 \notin T
        BY <1>2, <1>4
    <2>2. PICK u : Walks(u, start, p, k - 1)
        BY <2>1
    <2>3. /\ u = [n \in 0..(k - 1) |-> u[n]] /\ u[0] = start
          /\ \A n \in 1..(k - 1) : u[n] = walk_step(u[n - 1], p[n])
        <3>1. u = [n \in 0..(k - 1) |-> IF n = 0 THEN start ELSE walk_step(u[n - 1], p[n])]
            BY <2>2 DEF Walks
        <3>2. \A n \in 0..(k - 1) : u[n] = IF n = 0 THEN start ELSE walk_step(u[n - 1], p[n])
            BY <3>1
        <3> QED
            BY <2>1, <3>1, <3>2
    <2>4. PICK v : v = [n \in 0..k |-> IF n = k THEN walk_step(u[k - 1], p[k]) ELSE u[n]]
        OBVIOUS
    <2>5. \A n \in 0..(k - 1) : v[n] = u[n]
        BY <2>1, <2>4
    <2>6. v[k] = walk_step(v[k - 1], p[k])
        BY <2>1, <2>4, <2>5
    <2>7. \A n \in 0..k : v[n] = IF n = 0 THEN start ELSE walk_step(v[n - 1], p[n])
        <3>1. ASSUME NEW n \in 0..k PROVE v[n] = IF n = 0 THEN start ELSE walk_step(v[n - 1], p[n])
            <4>1. CASE n = k
                BY <1>4, <2>6, <4>1
            <4>2. CASE n = 0
                BY <1>4, <2>1, <2>3, <2>5, <4>2
            <4>3. CASE n # k /\ n # 0
                <5>1. n \in 1..(k - 1) /\ n - 1 \in 0..(k - 1) /\ n \in 0..(k - 1)
                    BY <2>1, <4>3
                <5> QED
                    BY <2>3, <2>5, <4>3, <5>1
            <4> QED
                BY <4>1, <4>2, <4>3
        <3> QED
            BY <3>1
    <2>8. v = [n \in 0..k |-> IF n = 0 THEN start ELSE walk_step(v[n - 1], p[n])]
        BY <2>4, <2>7
    <2> QED
        BY <2>8 DEF Walks
<1> QED
    BY <1>3, <1>4

\* vfs_path_walk keeps the call in progress, and where ".." ends the path at most,
\* what it returns is counted once or not at all.
NoClimb(p) == \A i \in 1..(Len(p) - 1) : p[i] # ".."

\* A walk that has reached a dentry reaches another one, or fails.
LEMMA PathWalk ==
    ASSUME NEW s0, RootsOk(s0), NEW s, Working(s0, s), NEW base, Reached(s0.dent, s.dent, base),
           s.dent[base].parent = base, NEW p \in Seq(Components),
           NEW w, w = vfs_path_walk(s, base, p)
    PROVE  Walked(s0, w) /\ (NoClimb(p) /\ w.err = "0" => Low(w.s.dent, w.d))
<1>1. PICK start : start = [s |-> s, d |-> base, err |-> "0", first |-> TRUE]
    OBVIOUS
<1>2. PICK m \in Nat : m = Len(p)
    OBVIOUS
<1>3. PICK u : Walks(u, start, p, m) /\ w = u[m]
    <2>1. \E u : Walks(u, start, p, m)
        BY WalkExists
    <2>2. w = (CHOOSE u : Walks(u, start, p, m))[m]
        BY <1>1, <1>2 DEF vfs_path_walk, Walks
    <2> QED
        BY <2>1, <2>2
<1>4. u[0] = start /\ \A n \in 1..m : u[n] = walk_step(u[n - 1], p[n])
    <2>1. \A n \in 0..m : u[n] = IF n = 0 THEN start ELSE walk_step(u[n - 1], p[n])
        BY <1>3 DEF Walks
    <2> QED
        BY <2>1
<1>5. Walked(s0, start) /\ Fine(start.s.dent, start.d) /\ Low(start.s.dent, start.d)
    BY <1>1 DEF Walked, Fine, Low
<1>6. \A n \in 1..m : p[n] \in Components
    BY <1>2
<1> DEFINE Good(n) ==
        /\ Walked(s0, u[n])
        /\ NoClimb(p) /\ u[n].err = "0" => Low(u[n].s.dent, u[n].d)
        /\ NoClimb(p) /\ u[n].err = "0" /\ n < m => Fine(u[n].s.dent, u[n].d)
           T == {n \in 0..m : ~Good(n)}
<1>7. T = {}
    <2>1. SUFFICES ASSUME T # {} PROVE FALSE
        OBVIOUS
    <2>0. T \subseteq Nat
        OBVIOUS
    <2>2. PICK k \in T : \A j \in T : k <= j
        <3> HIDE DEF T
        <3> QED
            BY <2>0, <2>1, LeastExists
    <2>3. k # 0
        BY <1>4, <1>5, <2>2
    <2>4. k - 1 \in 0..m /\ k \in 1..m /\ k - 1 < m /\ k - 1 \notin T
        BY <2>2, <2>3
    <2>5. Good(k - 1)
        BY <2>4
    <2>6. PICK v, t : v = u[k - 1] /\ t = u[k] /\ t = walk_step(v, p[k])
        BY <1>4, <2>4
    <2>7. /\ Walked(s0, v)
          /\ NoClimb(p) /\ v.err = "0" => Fine(v.s.dent, v.d)
        BY <2>4, <2>5, <2>6
    <2>8. /\ Walked(s0, t)
          /\ t.err = "0" => v.err = "0"
          /\ t.err = "0" /\ Fine(v.s.dent, v.d) => Low(t.s.dent, t.d)
          /\ t.err = "0" /\ Fine(v.s.dent, v.d) /\ p[k] # ".." => Fine(t.s.dent, t.d)
        <3>1. PICK n \in Components : n = p[k]
            BY <1>6, <2>4
        <3>2. t = walk_step(v, n)
            BY <2>6, <3>1
        <3>3. /\ Walked(s0, t)
              /\ t.err = "0" => v.err = "0"
              /\ t.err = "0" /\ Fine(v.s.dent, v.d) => Low(t.s.dent, t.d)
              /\ t.err = "0" /\ Fine(v.s.dent, v.d) /\ n # ".." => Fine(t.s.dent, t.d)
            BY <2>7, <3>2, WalkStep
        <3> QED
            BY <3>1, <3>3
    <2>9. NoClimb(p) /\ k < m => p[k] # ".."
        BY <1>2, <2>4 DEF NoClimb
    <2>10. Good(k)
        BY <2>6, <2>7, <2>8, <2>9
    <2> QED
        BY <2>2, <2>10
<1>8. Good(m)
    BY <1>7
<1> QED
    BY <1>3, <1>8

\* The roots of mounts stay roots, and every walk reaches them.
LEMMA RootsStay ==
    ASSUME NEW s0, RootsOk(s0), NEW s, Ends(s0, s)
    PROVE  /\ RootsOk(s)
           /\ \A i \in DOMAIN s.mounts : /\ Reached(s0.dent, s.dent, s.mounts[i].root)
                                         /\ s.dent[s.mounts[i].root].parent = s.mounts[i].root
BY DEF RootsOk, Ends, Kept, Reached, IsRoot

\* vfs_get_root: the walk starts at a root.
LEMMA GetRoot ==
    ASSUME NEW s0, RootsOk(s0), s0.mounts # <<>>, NEW s, Ends(s0, s), NEW b, b = vfs_get_root(s0)
    PROVE  b = vfs_get_root(s) /\ Reached(s0.dent, s.dent, b) /\ s.dent[b].parent = b
<1>1. s.mounts = s0.mounts /\ s.mounts \in Seq([mp : Dentries, root : Dentries, sb : Sbs])
    BY DEF Ends, Sound, State
<1>2. Len(s.mounts) \in DOMAIN s.mounts
    BY <1>1
<1> QED
    BY <1>1, <1>2, RootsStay DEF vfs_get_root

\* vfs_path_lookup.
Looked(s0, l) ==
    Working(s0, l.s) /\ (l.err = "0" => Reached(s0.dent, l.s.dent, l.d))

\* vfs_path_lookup, from a root that stays.
LEMMA PathLookup ==
    ASSUME NEW s0, RootsOk(s0), s0.mounts # <<>>, NEW s, Working(s0, s),
           NEW p \in Seq(Components), NEW l, l = vfs_path_lookup(s, p)
    PROVE  Looked(s0, l) /\ (NoClimb(p) /\ l.err = "0" => Low(l.s.dent, l.d))
<1>1. Ends(s0, s)
    BY DEF Working
<1>2. PICK b : b = vfs_get_root(s0)
    OBVIOUS
<1>3. b = vfs_get_root(s) /\ Reached(s0.dent, s.dent, b) /\ s.dent[b].parent = b
    BY <1>1, <1>2, GetRoot
<1>4. PICK t, w : t = dentry_get(s, b) /\ w = vfs_path_walk(t, b, p)
    OBVIOUS
<1>5. Recounting(s0, s, t, b)
    BY <1>1, <1>3, <1>4, WorkingGet
<1>6. Working(s0, t) /\ Reached(s0.dent, t.dent, b) /\ t.dent[b].parent = b
    BY <1>3, <1>5 DEF Recounting, Reached
<1>7. Walked(s0, w) /\ (NoClimb(p) /\ w.err = "0" => Low(w.s.dent, w.d))
    BY <1>4, <1>6, PathWalk
<1>8. l = IF w.err = "0" THEN Ok(w.s, w.d) ELSE Fail(dentry_put(w.s, b), w.err)
    BY <1>3, <1>4 DEF vfs_path_lookup, Call
<1>9. CASE w.err = "0"
    BY <1>7, <1>8, <1>9 DEF Ok, Walked, Looked
<1>10. CASE w.err # "0"
    <2>1. PICK x, u : x = w.s /\ u = dentry_put(x, b)
        OBVIOUS
    <2>2. Working(s0, x) /\ Ends(s0, x)
        BY <1>7, <2>1 DEF Walked, Working
    <2>3. Reached(s0.dent, x.dent, b)
        BY <1>2, <2>2, GetRoot
    <2>4. Recounting(s0, x, u, b)
        BY <2>1, <2>2, <2>3, WorkingPut
    <2>5. l = Fail(u, w.err)
        BY <1>8, <1>10, <2>1
    <2> QED
        BY <1>10, <2>2, <2>4, <2>5 DEF Fail, Recounting, Looked
<1> QED
    BY <1>9, <1>10

\* vfs_path_parent.
Parented(s0, b, w) ==
    /\ w = [s |-> w.s, d |-> w.d, base |-> b, err |-> w.err]
    /\ Working(s0, w.s)
    /\ w.err = "0" => Reached(s0.dent, w.s.dent, w.d)

\* One component of the walk to a parent.
LEMMA ParentStep ==
    ASSUME NEW s0, RootsOk(s0), NEW b, NEW w, Parented(s0, b, w), NEW n \in Components,
           NEW t, t = parent_step(w, n)
    PROVE  Parented(s0, b, t)
<1>1. CASE w.err # "0"
    BY <1>1 DEF parent_step, Then
<1>2. CASE w.err = "0"
    <2>1. PICK s, d : s = w.s /\ d = w.d
        OBVIOUS
    <2>2. w = [s |-> s, d |-> d, base |-> b, err |-> "0"] /\ Working(s0, s) /\ Reached(s0.dent, s.dent, d)
        BY <1>2, <2>1 DEF Parented
    <2>3. PICK l, f : l = vfs_lookup_single(s, d, n) /\ f = follow_mount(l.s, l.d)
        OBVIOUS
    <2>4. IF l.err = "0" THEN StepsTo(s0, s, d, f)
          ELSE Working(s0, l.s) /\ \A x : Reached(s0.dent, s.dent, x) => Reached(s0.dent, l.s.dent, x)
        BY <2>2, <2>3, LookupSingle
    <2>5. CASE l.err # "0"
        <3>1. t = [s |-> l.s, d |-> d, base |-> b, err |-> l.err]
            BY <2>2, <2>3, <2>5 DEF parent_step, Then, Call
        <3> QED
            BY <2>4, <2>5, <3>1 DEF Parented
    <2>6. CASE l.err = "0"
        <3>1. PICK g, c, u : g = f.s /\ c = f.d /\ u = dentry_put(g, d)
            OBVIOUS
        <3>2. StepsTo(s0, s, d, f) /\ f.err = "0"
            BY <2>4, <2>6 DEF StepsTo
        <3>3. t = [s |-> IF d # b THEN u ELSE g, d |-> c, base |-> b, err |-> "0"]
            BY <2>2, <2>3, <2>6, <3>1, <3>2 DEF parent_step, Then, Call
        <3>4. Working(s0, g) /\ Reached(s0.dent, g.dent, c) /\ Reached(s0.dent, g.dent, d)
            BY <3>1, <3>2 DEF StepsTo
        <3>5. Recounting(s0, g, u, d)
            BY <3>1, <3>4, WorkingPut DEF Working
        <3>6. Working(s0, u) /\ Reached(s0.dent, u.dent, c)
            BY <3>4, <3>5 DEF Recounting
        <3>7. CASE d # b
            BY <3>3, <3>6, <3>7 DEF Parented
        <3>8. CASE d = b
            BY <3>3, <3>4, <3>8 DEF Parented
        <3> QED
            BY <3>7, <3>8
    <2> QED
        BY <2>5, <2>6
<1> QED
    BY <1>1, <1>2

Parent(w, p, q, n) == IF n = q THEN w ELSE parent_step(w, p[n])
Parents(u, start, p, q, m) ==
    u = [n \in 0..m |-> IF n = 0 THEN start ELSE Parent(u[n - 1], p, q, n)]

\* The walk to a parent is what its recursive function says.
LEMMA ParentExists ==
    ASSUME NEW start, NEW p, NEW q, NEW m \in Nat
    PROVE  \E u : Parents(u, start, p, q, m)
<1> DEFINE T == {k \in Nat : ~\E u : Parents(u, start, p, q, k)}
<1>1. SUFFICES ASSUME T # {} PROVE FALSE
    OBVIOUS
<1>2. PICK k \in T : \A j \in T : k <= j
    BY <1>1, LeastExists
<1>3. CASE k = 0
    <2>1. PICK u : u = [n \in 0..0 |-> start]
        OBVIOUS
    <2>2. u = [n \in 0..0 |-> IF n = 0 THEN start ELSE Parent(u[n - 1], p, q, n)]
        BY <2>1
    <2> QED
        BY <1>3, <2>2 DEF Parents
<1>4. CASE k # 0
    <2>1. k - 1 \in Nat /\ k - 1 \notin T
        BY <1>2, <1>4
    <2>2. PICK u : Parents(u, start, p, q, k - 1)
        BY <2>1
    <2>3. /\ u = [n \in 0..(k - 1) |-> u[n]] /\ u[0] = start
          /\ \A n \in 1..(k - 1) : u[n] = Parent(u[n - 1], p, q, n)
        <3>1. u = [n \in 0..(k - 1) |-> IF n = 0 THEN start ELSE Parent(u[n - 1], p, q, n)]
            BY <2>2 DEF Parents
        <3>2. \A n \in 0..(k - 1) : u[n] = IF n = 0 THEN start ELSE Parent(u[n - 1], p, q, n)
            BY <3>1
        <3> QED
            BY <2>1, <3>1, <3>2
    <2>4. PICK v : v = [n \in 0..k |-> IF n = k THEN Parent(u[k - 1], p, q, k) ELSE u[n]]
        OBVIOUS
    <2>5. \A n \in 0..(k - 1) : v[n] = u[n]
        BY <2>1, <2>4
    <2>6. v[k] = Parent(v[k - 1], p, q, k)
        BY <2>1, <2>4, <2>5
    <2>7. \A n \in 0..k : v[n] = IF n = 0 THEN start ELSE Parent(v[n - 1], p, q, n)
        <3>1. ASSUME NEW n \in 0..k PROVE v[n] = IF n = 0 THEN start ELSE Parent(v[n - 1], p, q, n)
            <4>1. CASE n = k
                BY <1>4, <2>6, <4>1
            <4>2. CASE n = 0
                BY <1>4, <2>1, <2>3, <2>5, <4>2
            <4>3. CASE n # k /\ n # 0
                <5>1. n \in 1..(k - 1) /\ n - 1 \in 0..(k - 1) /\ n \in 0..(k - 1)
                    BY <2>1, <4>3
                <5> QED
                    BY <2>3, <2>5, <4>3, <5>1
            <4> QED
                BY <4>1, <4>2, <4>3
        <3> QED
            BY <3>1
    <2>8. v = [n \in 0..k |-> IF n = 0 THEN start ELSE Parent(v[n - 1], p, q, n)]
        BY <2>4, <2>7
    <2> QED
        BY <2>8 DEF Parents
<1> QED
    BY <1>3, <1>4

\* A walk to a parent reaches a dentry, or fails.
LEMMA ParentWalk ==
    ASSUME NEW s0, RootsOk(s0), NEW s, Working(s0, s), NEW base, Reached(s0.dent, s.dent, base),
           NEW p \in Seq(Components), NEW w, w = parent_walk(s, base, p)
    PROVE  Parented(s0, base, w)
<1>1. PICK start : start = [s |-> s, d |-> base, base |-> base, err |-> "0"]
    OBVIOUS
<1>2. PICK m \in Nat : m = Len(p)
    OBVIOUS
<1>3. PICK u : Parents(u, start, p, m, m) /\ w = u[m]
    <2>1. \E u : Parents(u, start, p, m, m)
        BY ParentExists
    <2>2. w = (CHOOSE u : Parents(u, start, p, m, m))[m]
        BY <1>1, <1>2 DEF parent_walk, Parents, Parent
    <2> QED
        BY <2>1, <2>2
<1>4. u[0] = start /\ \A n \in 1..m : u[n] = Parent(u[n - 1], p, m, n)
    <2>1. \A n \in 0..m : u[n] = IF n = 0 THEN start ELSE Parent(u[n - 1], p, m, n)
        BY <1>3 DEF Parents
    <2> QED
        BY <2>1
<1>5. Parented(s0, base, start)
    BY <1>1 DEF Parented
<1> DEFINE T == {n \in 0..m : ~Parented(s0, base, u[n])}
<1>6. T = {}
    <2>1. SUFFICES ASSUME T # {} PROVE FALSE
        OBVIOUS
    <2>0. T \subseteq Nat
        OBVIOUS
    <2>2. PICK k \in T : \A j \in T : k <= j
        <3> HIDE DEF T
        <3> QED
            BY <2>0, <2>1, LeastExists
    <2>3. k # 0
        BY <1>4, <1>5, <2>2
    <2>4. k - 1 \in 0..m /\ k \in 1..m /\ k - 1 \notin T
        BY <2>2, <2>3
    <2>5. PICK v, t : v = u[k - 1] /\ t = u[k] /\ t = Parent(v, p, m, k)
        BY <1>4, <2>4
    <2>6. Parented(s0, base, v)
        BY <2>4, <2>5
    <2>7. Parented(s0, base, t)
        <3>1. PICK n \in Components : n = p[k]
            BY <1>2, <2>4
        <3>2. t = v \/ t = parent_step(v, n)
            BY <2>5, <3>1 DEF Parent
        <3> QED
            BY <2>6, <3>2, ParentStep
    <2> QED
        BY <2>2, <2>5, <2>7
<1> QED
    BY <1>3, <1>6

\* vfs_path_parent, from a root that stays.
LEMMA PathParent ==
    ASSUME NEW s0, RootsOk(s0), s0.mounts # <<>>, NEW s, Working(s0, s),
           NEW p \in Seq(Components), NEW l, l = vfs_path_parent(s, p)
    PROVE  Looked(s0, l)
<1>1. Ends(s0, s)
    BY DEF Working
<1>2. PICK b : b = vfs_get_root(s0)
    OBVIOUS
<1>3. b = vfs_get_root(s) /\ Reached(s0.dent, s.dent, b)
    BY <1>1, <1>2, GetRoot
<1>4. PICK t, w : t = dentry_get(s, b) /\ w = parent_walk(t, b, p)
    OBVIOUS
<1>5. Recounting(s0, s, t, b)
    BY <1>1, <1>3, <1>4, WorkingGet
<1>6. Working(s0, t) /\ Reached(s0.dent, t.dent, b)
    BY <1>3, <1>5 DEF Recounting
<1>7. Parented(s0, b, w)
    BY <1>4, <1>6, ParentWalk
<1>8. l = IF w.err = "0" THEN Ok(w.s, w.d) ELSE Fail(dentry_put(w.s, b), w.err)
    BY <1>3, <1>4 DEF vfs_path_parent, Call
<1>9. CASE w.err = "0"
    BY <1>7, <1>8, <1>9 DEF Ok, Parented, Looked
<1>10. CASE w.err # "0"
    <2>1. PICK x, u : x = w.s /\ u = dentry_put(x, b)
        OBVIOUS
    <2>2. Working(s0, x) /\ Ends(s0, x)
        BY <1>7, <2>1 DEF Parented, Working
    <2>3. Reached(s0.dent, x.dent, b)
        BY <1>2, <2>2, GetRoot
    <2>4. Recounting(s0, x, u, b)
        BY <2>1, <2>2, <2>3, WorkingPut
    <2>5. l = Fail(u, w.err)
        BY <1>8, <1>10, <2>1
    <2> QED
        BY <1>10, <2>2, <2>4, <2>5 DEF Fail, Recounting, Looked
<1> QED
    BY <1>9, <1>10
-----------------------------------------------------------------------------
(* The calls. *)

MountSet == [mp : Dentries, root : Dentries, sb : Sbs]

\* The list of mounts, and as a set.
LEMMA MountShape ==
    ASSUME NEW s \in State
    PROVE  /\ s.mounts \in Seq(MountSet) /\ Range(s.mounts) \subseteq MountSet
           /\ \A i \in DOMAIN s.mounts : s.mounts[i] \in Range(s.mounts)
           /\ \A m \in MountSet : m.mp \in Dentries /\ m.root \in Dentries
<1>1. PICK M : M = s.mounts
    OBVIOUS
<1>2. M \in Seq(MountSet)
    BY <1>1 DEF State, MountSet
<1>3. Range(M) = {M[i] : i \in DOMAIN M}
    BY DEF Range
<1>4. \A i \in DOMAIN M : M[i] \in MountSet
    BY <1>2
<1>5. Range(M) \subseteq MountSet /\ \A i \in DOMAIN M : M[i] \in Range(M)
    BY <1>3, <1>4
<1>6. \A m \in MountSet : m.mp \in Dentries /\ m.root \in Dentries
    BY DEF MountSet
<1> QED
    BY <1>1, <1>2, <1>5, <1>6

\* A call begins in a consistent state.
LEMMA ConsistentBegins ==
    ASSUME NEW s, Consistent(s)
    PROVE  Sound(s) /\ RootsOk(s) /\ Ends(s, s) /\ Working(s, s)
<1>1. Sound(s)
    BY DEF Consistent, Sound
<1>2. s \in State
    BY DEF Consistent
<1>3. \A i \in DOMAIN s.mounts : s.mounts[i] \in Range(s.mounts) /\ s.mounts[i].root \in Dentries
    BY <1>2, MountShape
<1>4. RootsOk(s)
    BY <1>3 DEF RootsOk, Consistent, Anchored
<1> QED
    BY <1>1, <1>4, WorkingSelf DEF Working

\* A call that leaves mounts and files alone.
LEMMA ConsistentEnds ==
    ASSUME NEW s0, Consistent(s0), NEW s, Ends(s0, s)
    PROVE  Consistent(s)
<1>1. PICK M, F, C, D : M = Range(s0.mounts) /\ F = s0.files /\ C = s0.dent /\ D = s.dent
    OBVIOUS
<1>2. Range(s.mounts) = M /\ s.files = F /\ Kept(C, D)
    BY <1>1 DEF Ends
<1>3. (\A m \in M : m.mp \in Dentries /\ m.root \in Dentries) /\ \A f \in F : f.d \in Dentries
    <2>1. s0 \in State
        BY DEF Consistent
    <2>2. F \subseteq [d : Dentries, ino : Inos]
        BY <1>1, <2>1 DEF State
    <2>3. \A f \in F : f.d \in Dentries
        BY <2>2
    <2> QED
        BY <1>1, <2>1, <2>3, MountShape
<1>4. C \in [Dentries -> Dentry] /\ \A x \in Dentries : C[x].live => C[x].parent \in Dentries
    <2>1. C \in [Dentries -> Dentry] /\ \A x \in Dentries : C[x].live => C[x].parent # 0
        BY <1>1 DEF Consistent, Tree
    <2>2. \A x \in Dentries : C[x].parent \in Dentries \cup {0}
        BY <2>1 DEF Dentry
    <2> QED
        BY <2>1, <2>2
<1>5. \A m \in M : IsRoot(C, m.root) /\ Placed(C, m.mp)
    BY <1>1 DEF Consistent, Anchored
<1>6. \A f \in F : Placed(C, f.d) /\ C[f.d].ino = f.ino /\ (C[f.d].parent # f.d => \A m \in M : m.mp # f.d)
    BY <1>1 DEF Consistent, Anchored
<1>7. \A x \in Dentries : Placed(C, x) => Placed(D, x) /\ D[x].parent = C[x].parent /\ D[x].ino = C[x].ino
    BY <1>2, <1>4 DEF Placed, Kept
<1>8. \A m \in M : IsRoot(D, m.root) /\ Placed(D, m.mp)
    BY <1>2, <1>3, <1>5, <1>7 DEF IsRoot, Kept
<1>9. \A f \in F : Placed(D, f.d) /\ D[f.d].ino = f.ino /\ (D[f.d].parent # f.d => \A m \in M : m.mp # f.d)
    BY <1>3, <1>6, <1>7
<1>10. Anchored(s)
    BY <1>1, <1>2, <1>8, <1>9 DEF Anchored
<1>11. ASSUME SafeWalks PROVE Counted(s)
    <2>1. \A f \in F : C[f.d].parent # f.d => C[f.d].ref > 0
        BY <1>1, <1>11 DEF Consistent, Counted
    <2>2. \A f \in F : D[f.d].parent # f.d => D[f.d].ref > 0
        BY <1>2, <1>3, <1>6, <1>7, <2>1 DEF Kept, Placed
    <2> QED
        BY <1>1, <1>2, <2>2 DEF Counted
<1> QED
    BY <1>10, <1>11 DEF Consistent, Ends, Sound

\* What a call leaves is the next state.
LEMMA BecomesIs ==
    ASSUME NEW s, s \in State, Becomes(s)
    PROVE  Now' = s
BY DEF Becomes, Now, State

\* A call that leaves mounts and files alone preserves the invariant.
LEMMA CallEnds ==
    ASSUME IInv, NEW s, Ends(Now, s), Becomes(s)
    PROVE  IInv'
<1>1. PICK n : n = Now
    OBVIOUS
<1>2. Consistent(s)
    <2>1. Consistent(n) /\ Ends(n, s)
        BY <1>1 DEF IInv
    <2> QED
        BY <2>1, ConsistentEnds
<1>3. Now' = s
    BY BecomesIs DEF Ends, Sound
<1> QED
    BY <1>2, <1>3 DEF IInv

\* A dentry below one that the call has reached, hashed or not.
Prepared(s, d, f, b, q) ==
    /\ d \in Dentries /\ ~s.dent[d].live
    /\ f \in Dentry /\ f.live /\ f.parent = q /\ f.ref = 1
    /\ b \in State /\ b.dent = Placing(s.dent, d, f) /\ b.ht = s.ht /\ b.iref = s.iref
    /\ b.mounts = s.mounts /\ b.files = s.files

Adds(s0, s, u, d, q) ==
    /\ Working(s0, u) /\ Reached(s0.dent, u.dent, d) /\ ~s0.dent[d].live
    /\ u.dent[d].parent = q /\ u.dent[d].ref = 1
    /\ \A x : Reached(s0.dent, s.dent, x) => Reached(s0.dent, u.dent, x) /\ x # d
    /\ \A x \in Dentries : x # d => u.dent[x] = s.dent[x]

\* The new dentry is the call's own, below a dentry that it has reached.
LEMMA NewBelow ==
    ASSUME NEW s0, NEW s, Working(s0, s), NEW q, Reached(s0.dent, s.dent, q),
           NEW d, NEW f, NEW b, Prepared(s, d, f, b, q),
           NEW i \in Inos, NEW u, u = dentry_insert(Instantiate(b, d, i), d).s
    PROVE  Adds(s0, s, u, d, q)
<1>0. /\ d \in Dentries /\ ~s.dent[d].live
      /\ f \in Dentry /\ f.live /\ f.parent = q /\ f.ref = 1
      /\ b \in State /\ b.dent = Placing(s.dent, d, f) /\ b.ht = s.ht /\ b.iref = s.iref
      /\ b.mounts = s.mounts /\ b.files = s.files
    BY DEF Prepared
<1>1. PICK t, e : t = Instantiate(b, d, i) /\ e = [f EXCEPT !.ino = i]
    OBVIOUS
<1>2. Ends(s0, s) /\ Sound(s) /\ q # 0 /\ s \in State
    BY DEF Working, Ends, Sound, Reached, Dentries
<1>3. /\ e \in Dentry /\ e.live /\ e.parent = f.parent /\ e.ref = f.ref
      /\ t \in State /\ t.dent = Placing(s.dent, d, e) /\ t.ht = s.ht
      /\ SameRest(b, t) /\ Tree(t.dent, s.ht, t.iref)
    BY <1>0, <1>1, <1>2, Born
<1>4. PICK C, D, E : C = s0.dent /\ D = s.dent /\ E = t.dent
    OBVIOUS
<1>5. D \in [Dentries -> Dentry] /\ Kept(C, D) /\ Linked(C, D) /\ E = Placing(D, d, e)
    BY <1>2, <1>3, <1>4, StateTables DEF Working, Ends, TablesOk
<1>6. E[d] = e /\ \A x \in Dentries : x # d => E[x] = D[x]
    BY <1>0, <1>5 DEF Placing
<1>7. Sound(t) /\ t.dent[d].live
    BY <1>3, <1>4, <1>6 DEF Sound
<1>8. Sound(u) /\ u.dent = t.dent /\ SameRest(t, u)
    BY <1>0, <1>1, <1>7, Hashed
<1>9. /\ Kept(C, E) /\ Reached(C, E, d) /\ ~C[d].live
      /\ \A x : Reached(C, D, x) => Reached(C, E, x) /\ x # d /\ E[x] = D[x]
      /\ Linked(C, E)
    <2>1. ~D[d].live /\ Reached(C, D, e.parent)
        BY <1>0, <1>3, <1>4
    <2> QED
        BY <1>0, <1>3, <1>5, <2>1, Grown
<1>10. Working(s0, u)
    BY <1>0, <1>2, <1>3, <1>4, <1>8, <1>9 DEF Working, Ends, SameRest
<1> QED
    BY <1>0, <1>3, <1>4, <1>6, <1>8, <1>9, <1>10 DEF Adds

\* The last component of a path is a component.
LEMMA LastNameType ==
    ASSUME NEW p \in Seq(Components)
    PROVE  LastName(p) \in Components
<1>1. NoName \in Components
    BY DEF Components
<1>2. p # <<>> => Last(p) \in Components
    BY DEF Last
<1> QED
    BY <1>1, <1>2 DEF LastName

\* fs_create and fs_rename fail, or write the disk and give the dentry an inode.
Wrote(a, d, c) ==
    \/ c.err # "0"
    \/ /\ c.err = "0"
       /\ \E b \in State, i \in Inos :
             /\ c.s = Instantiate(b, d, i) /\ b.dent = a.dent /\ b.ht = a.ht /\ b.iref = a.iref
             /\ b.mounts = a.mounts /\ b.files = a.files

\* fs_create fails, or writes the disk and gives the dentry an inode.
LEMMA FsCreate ==
    ASSUME NEW a \in State, NEW d \in Dentries, DirOf(a, d) \in Inos, NEW isdir,
           NEW c, c = fs_create(a, d, isdir)
    PROVE  Wrote(a, d, c)
<1>1. PICK U, n, x : U = Unused(a, a.dent[d].sb) /\ n = a.dent[d].name /\ x = DirOf(a, d)
    OBVIOUS
<1>2. CASE Named(a, d) # {} \/ n \notin Names \/ U = {}
    <2>1. c = Fail(a, "EEXIST")
        BY <1>1, <1>2 DEF fs_create
    <2> QED
        BY <2>1 DEF Fail, Wrote
<1>3. CASE ~(Named(a, d) # {} \/ n \notin Names \/ U = {})
    <2>1. U \subseteq Inos
        BY <1>1 DEF Unused
    <2>2. U \subseteq Nat
        BY <2>1, DcacheAssumption DEF DcacheAssumption
    <2>3. PICK i \in Inos : i = Min(U)
        BY <1>3, <2>1, <2>2, MinIsIn
    <2>4. PICK b : b = [a EXCEPT !.entry = @ \cup {<<x, n, i>>},
                                 !.dirs = IF isdir THEN @ \cup {i} ELSE @ \ {i}]
        OBVIOUS
    <2>5. c = Ok(Instantiate(b, d, i), d)
        BY <1>1, <1>3, <2>3, <2>4 DEF fs_create
    <2>6. b \in State /\ b.dent = a.dent /\ b.ht = a.ht /\ b.iref = a.iref
          /\ b.mounts = a.mounts /\ b.files = a.files
        <3>1. PICK E, N : E = a.entry \cup {<<x, n, i>>} /\ N = IF isdir THEN a.dirs \cup {i} ELSE a.dirs \ {i}
            OBVIOUS
        <3>2. E \in SUBSET (Inos \X Names \X Inos)
            BY <1>1, <1>3, <3>1 DEF State
        <3>3. N \in SUBSET Inos
            BY <3>1 DEF State
        <3>4. b = [a EXCEPT !.entry = E, !.dirs = N]
            BY <2>4, <3>1 DEF State
        <3> QED
            BY <3>2, <3>3, <3>4 DEF State
    <2> QED
        BY <2>5, <2>6 DEF Ok, Wrote
<1> QED
    BY <1>2, <1>3

\* The name that vfs_create, vfs_mkdir and vfs_open make.
LEMMA Make ==
    ASSUME NEW s0, RootsOk(s0), s0.mounts # <<>>, NEW s, Working(s0, s),
           NEW p \in Seq(Components), NEW isdir, NEW r, r = make(s, p, isdir)
    PROVE  Looked(s0, r) /\ (r.err = "0" => Low(r.s.dent, r.d))
<1>1. PICK q : q = vfs_path_parent(s, p)
    OBVIOUS
<1>2. Looked(s0, q)
    BY <1>1, PathParent
<1>3. CASE q.err # "0"
    <2>1. r = q
        BY <1>1, <1>3 DEF make, Then
    <2> QED
        BY <1>2, <1>3, <2>1
<1>4. CASE q.err = "0"
    <2>1. PICK g, h : g = q.s /\ h = q.d
        OBVIOUS
    <2>2. Working(s0, g) /\ Reached(s0.dent, g.dent, h) /\ Ends(s0, g) /\ Sound(g)
        BY <1>2, <1>4, <2>1 DEF Looked, Working, Ends
    <2>3. g \in State /\ h \in Dentries /\ h # 0
        BY <2>2 DEF Sound, Reached, Dentries
    <2>4. ASSUME NEW e, e # "0", r = Fail(dentry_put(g, h), e)
          PROVE  Looked(s0, r) /\ r.err # "0"
        <3>1. PICK u : u = dentry_put(g, h)
            OBVIOUS
        <3>2. Recounting(s0, g, u, h)
            BY <2>2, <3>1, WorkingPut
        <3> QED
            BY <2>2, <2>4, <3>1, <3>2 DEF Recounting, Fail, Looked
    <2>5. CASE ~IsDir(g, h)
        <3>1. r = Fail(dentry_put(g, h), "ENOTDIR")
            BY <1>1, <1>4, <2>1, <2>5 DEF make, Then
        <3> QED
            BY <2>4, <3>1
    <2>6. CASE IsDir(g, h)
        <3>1. PICK sb \in Sbs \cup {NoName}, n \in Components : sb = g.dent[h].sb /\ n = LastName(p)
            <4>1. g.dent[h] \in Dentry
                BY <2>3 DEF State
            <4>2. g.dent[h].sb \in Sbs \cup {NoName}
                BY <4>1 DEF Dentry
            <4> QED
                BY <4>2, LastNameType
        <3>2. PICK a : a = dentry_alloc(g, h, sb, n)
            OBVIOUS
        <3>3. PICK d, f, c : d = a.d /\ f = New(d, h, sb, n) /\ c = fs_create(a.s, d, isdir)
            OBVIOUS
        <3>4. \/ a.err = "ENOMEM" /\ a.s = g
              \/ /\ a.err = "0" /\ d \in Dentries /\ ~g.dent[d].live /\ f \in Dentry
                 /\ a.s = With(g, Placing(g.dent, d, f), g.ht, g.iref) /\ a.s \in State
            BY <2>3, <3>2, <3>3, AllocIs
        <3>5. r = IF a.err = "0"
                    THEN IF c.err = "0" THEN Ok(dentry_put(dentry_insert(c.s, d).s, h), d)
                         ELSE Fail(dentry_put(dentry_free(a.s, d), h), c.err)
                    ELSE Fail(dentry_put(a.s, h), a.err)
            BY <1>1, <1>4, <2>1, <2>6, <3>1, <3>2, <3>3 DEF make, Then, Call
        <3>6. CASE a.err = "ENOMEM" /\ a.s = g
            <4>1. r = Fail(dentry_put(g, h), "ENOMEM")
                BY <3>5, <3>6
            <4> QED
                BY <2>4, <4>1
        <3>7. CASE /\ a.err = "0" /\ d \in Dentries /\ ~g.dent[d].live /\ f \in Dentry
                   /\ a.s = With(g, Placing(g.dent, d, f), g.ht, g.iref) /\ a.s \in State
            <4>1. f.live /\ f.parent = h /\ f.ref = 1 /\ f.ino = 0
                BY <2>3, <3>3 DEF New
            <4>2. /\ a.s.dent = Placing(g.dent, d, f) /\ a.s.ht = g.ht /\ a.s.iref = g.iref
                  /\ SameRest(g, a.s)
                BY <2>3, <3>7, WithFields
            <4>3. h # d /\ a.s.dent[d] = f /\ a.s.dent[h] = g.dent[h]
                <5>1. h # d
                    BY <2>2, <3>7 DEF Reached
                <5> QED
                    BY <2>3, <3>7, <4>2, <5>1 DEF Placing, State
            <4>4. DirOf(a.s, d) \in Inos
                <5>1. g.dent[h].ino \in g.dirs /\ g.dirs \subseteq Inos
                    BY <2>3, <2>6 DEF IsDir, State
                <5> QED
                    BY <4>1, <4>3, <5>1 DEF DirOf
            <4>5. Wrote(a.s, d, c)
                BY <3>3, <3>7, <4>4, FsCreate
            <4>6. CASE c.err # "0"
                <5>1. PICK t, u : t = dentry_free(a.s, d) /\ u = dentry_put(t, h)
                    OBVIOUS
                <5>2. Sound(t) /\ t.dent = g.dent /\ SameRest(g, t)
                    BY <2>2, <3>7, <4>1, <5>1, Unborn
                <5>3. Ends(s0, t) /\ Working(s0, t) /\ Reached(s0.dent, t.dent, h)
                    BY <2>2, <5>2, WorkingAside DEF SameRest
                <5>4. Recounting(s0, t, u, h)
                    BY <5>1, <5>3, WorkingPut
                <5>5. r = Fail(u, c.err)
                    BY <3>5, <3>7, <4>6, <5>1
                <5> QED
                    BY <4>6, <5>3, <5>4, <5>5 DEF Recounting, Fail, Looked
            <4>7. CASE c.err = "0"
                <5>1. PICK b \in State, i \in Inos :
                          /\ c.s = Instantiate(b, d, i) /\ b.dent = a.s.dent /\ b.ht = a.s.ht
                          /\ b.iref = a.s.iref /\ b.mounts = a.s.mounts /\ b.files = a.s.files
                    BY <4>5, <4>7 DEF Wrote
                <5>2. PICK t, u : t = dentry_insert(Instantiate(b, d, i), d).s /\ u = dentry_put(t, h)
                    OBVIOUS
                <5>3. /\ b.dent = Placing(g.dent, d, f) /\ b.ht = g.ht /\ b.iref = g.iref
                      /\ b.mounts = g.mounts /\ b.files = g.files
                    BY <4>2, <5>1 DEF SameRest
                <5>8. Prepared(g, d, f, b, h)
                    BY <3>7, <4>1, <5>1, <5>3 DEF Prepared
                <5>4. /\ Working(s0, t) /\ Reached(s0.dent, t.dent, d) /\ t.dent[d].ref = 1
                      /\ \A x : Reached(s0.dent, g.dent, x) => Reached(s0.dent, t.dent, x) /\ x # d
                    <6>1. Working(s0, g) /\ Reached(s0.dent, g.dent, h) /\ i \in Inos
                        BY <2>2
                    <6>2. t = dentry_insert(Instantiate(b, d, i), d).s
                        BY <5>2
                    <6>3. Adds(s0, g, t, d, h)
                        BY <5>8, <6>1, <6>2, NewBelow
                    <6> QED
                        BY <6>3 DEF Adds
                <5>9. Ends(s0, t) /\ Reached(s0.dent, t.dent, h)
                    BY <2>2, <5>4 DEF Working
                <5>5. Recounting(s0, t, u, h)
                    BY <5>2, <5>9, WorkingPut
                <5>6. r = Ok(u, d)
                    BY <3>5, <3>7, <4>7, <5>1, <5>2
                <5>7. Working(s0, u) /\ Reached(s0.dent, u.dent, d) /\ u.dent[d].ref = 1
                    BY <3>7, <4>3, <5>4, <5>5 DEF Recounting
                <5> QED
                    BY <5>6, <5>7 DEF Ok, Looked, Low
            <4> QED
                BY <4>6, <4>7
        <3> QED
            BY <3>4, <3>6, <3>7
    <2> QED
        BY <2>5, <2>6
<1> QED
    BY <1>3, <1>4

\* A lookup whose result is put again: vfs_create, vfs_mkdir, vfs_statfs, and the
\* ways out of most calls.
LEMMA LookedThenPut ==
    ASSUME NEW s0, NEW l, Looked(s0, l),
           NEW t, t = IF l.err = "0" THEN dentry_put(l.s, l.d) ELSE l.s
    PROVE  Ends(s0, t)
<1>1. CASE l.err # "0"
    BY <1>1 DEF Looked, Working
<1>2. CASE l.err = "0"
    <2>1. PICK s, d : s = l.s /\ d = l.d
        OBVIOUS
    <2>2. Ends(s0, s) /\ Reached(s0.dent, s.dent, d) /\ t = dentry_put(s, d)
        BY <1>2, <2>1 DEF Looked, Working
    <2>3. Recounting(s0, s, t, d)
        BY <2>2, WorkingPut
    <2> QED
        BY <2>3 DEF Recounting
<1> QED
    BY <1>1, <1>2

\* The start of every call but the first mount.
LEMMA CallBegins ==
    ASSUME IInv
    PROVE  \E n : /\ n = Now /\ Consistent(n) /\ RootsOk(n) /\ Working(n, n)
                  /\ n.mounts = mounts /\ n.files = files /\ n.dent = dent
BY ConsistentBegins DEF IInv, Now

\* vfs_create and vfs_mkdir.
LEMMA MadePreserves ==
    ASSUME IInv, NEW p \in Seq(Components), NEW isdir, made(p, isdir)
    PROVE  IInv'
<1>1. PICK n : /\ n = Now /\ Consistent(n) /\ RootsOk(n) /\ Working(n, n) /\ n.mounts = mounts
    BY CallBegins
<1>2. n.mounts # <<>>
    BY <1>1 DEF made, Mounted
<1>3. PICK r, t : r = make(n, p, isdir) /\ t = IF r.err = "0" THEN dentry_put(r.s, r.d) ELSE r.s
    OBVIOUS
<1>4. Looked(n, r)
    BY <1>1, <1>2, <1>3, Make
<1>5. Ends(n, t)
    BY <1>3, <1>4, LookedThenPut
<1>6. Becomes(t)
    BY <1>1, <1>3 DEF made, Call
<1> QED
    BY <1>1, <1>5, <1>6, CallEnds

\* vfs_statfs.
LEMMA StatfsPreserves ==
    ASSUME IInv, NEW p \in Seq(Components), vfs_statfs(p)
    PROVE  IInv'
<1>1. PICK n : /\ n = Now /\ Consistent(n) /\ RootsOk(n) /\ Working(n, n) /\ n.mounts = mounts
    BY CallBegins
<1>2. n.mounts # <<>>
    BY <1>1 DEF vfs_statfs, Mounted
<1>3. PICK l, t : l = vfs_path_lookup(n, p) /\ t = IF l.err = "0" THEN dentry_put(l.s, l.d) ELSE l.s
    OBVIOUS
<1>4. Looked(n, l)
    BY <1>1, <1>2, <1>3, PathLookup
<1>5. Ends(n, t)
    BY <1>3, <1>4, LookedThenPut
<1>6. Becomes(t)
    BY <1>1, <1>3 DEF vfs_statfs, Call
<1> QED
    BY <1>1, <1>5, <1>6, CallEnds

\* Only dentries that are named on disk are removed or renamed: never a root.
LEMMA NamedIsOwn ==
    ASSUME NEW s0, NEW s, Ends(s0, s), NEW d, Reached(s0.dent, s.dent, d),
           s.dent[d].name \in Names
    PROVE  d \in Dentries /\ s.dent[d].live /\ ~s0.dent[d].live
<1>1. d \in Dentries /\ s.dent[d].live /\ (s0.dent[d].live => IsRoot(s0.dent, d))
    BY DEF Reached
<1>2. "/" \notin Names
    BY DcacheAssumption DEF DcacheAssumption
<1>3. s0.dent[d].live => s.dent[d].name = s0.dent[d].name
    BY <1>1 DEF Ends, Kept
<1> QED
    BY <1>1, <1>2, <1>3 DEF IsRoot

\* vfs_unlink and vfs_rmdir free a dentry of their own.
LEMMA RemovedPreserves ==
    ASSUME IInv, NEW p \in Seq(Components), NEW isdir, removed(p, isdir)
    PROVE  IInv'
<1>1. PICK n : /\ n = Now /\ Consistent(n) /\ RootsOk(n) /\ Working(n, n) /\ n.mounts = mounts
    BY CallBegins
<1>2. n.mounts # <<>>
    BY <1>1 DEF removed, Mounted
<1>3. PICK l : l = vfs_path_lookup(n, p)
    OBVIOUS
<1>4. Looked(n, l)
    BY <1>1, <1>2, <1>3, PathLookup
<1>5. PICK r : r = fs_remove(l.s, l.d)
    OBVIOUS
<1>6. Becomes(IF l.err = "0"
                THEN IF IsDir(l.s, l.d) # isdir THEN dentry_put(l.s, l.d)
                     ELSE IF r.err = "0" THEN dentry_delete(r.s, l.d) ELSE dentry_put(l.s, l.d)
                ELSE l.s)
    BY <1>1, <1>3, <1>5 DEF removed, Call
<1>7. CASE ~(l.err = "0" /\ ~(IsDir(l.s, l.d) # isdir) /\ r.err = "0")
    <2>1. PICK t : t = IF l.err = "0" THEN dentry_put(l.s, l.d) ELSE l.s
        OBVIOUS
    <2>2. Becomes(t)
        BY <1>6, <1>7, <2>1
    <2>3. Ends(n, t)
        BY <1>4, <2>1, LookedThenPut
    <2> QED
        BY <1>1, <2>2, <2>3, CallEnds
<1>8. CASE l.err = "0" /\ ~(IsDir(l.s, l.d) # isdir) /\ r.err = "0"
    <2>1. PICK s, d, u : s = l.s /\ d = l.d /\ u = r.s
        OBVIOUS
    <2>2. Working(n, s) /\ Ends(n, s) /\ Sound(s) /\ s \in State /\ Reached(n.dent, s.dent, d)
        BY <1>4, <1>8, <2>1 DEF Looked, Working, Ends, Sound
    <2>3. Named(s, d) # {} /\ u = [s EXCEPT !.entry = @ \ Named(s, d)]
        BY <1>5, <1>8, <2>1 DEF fs_remove, Fail, Ok
    <2>4. PICK e : e \in Named(s, d)
        BY <2>3
    <2>5. s.dent[d].name \in Names
        BY <2>2, <2>4, NamedShape
    <2>6. d \in Dentries /\ s.dent[d].live /\ ~n.dent[d].live
        BY <2>2, <2>5, NamedIsOwn
    <2>7. /\ u \in State /\ u.dent = s.dent /\ u.ht = s.ht /\ u.iref = s.iref
          /\ u.mounts = s.mounts /\ u.files = s.files
        BY <2>2, <2>3 DEF State
    <2>8. Ends(n, u)
        BY <2>2, <2>7 DEF Ends, Sound
    <2>9. PICK t : t = dentry_free(u, d)
        OBVIOUS
    <2>10. Ends(n, t)
        BY <2>6, <2>7, <2>8, <2>9, Gone
    <2>11. Becomes(t)
        BY <1>6, <1>8, <2>1, <2>9 DEF dentry_delete
    <2> QED
        BY <1>1, <2>10, <2>11, CallEnds
<1> QED
    BY <1>7, <1>8

\* fs_rename fails, or writes the disk and gives the new dentry the inode.
LEMMA FsRename ==
    ASSUME NEW a \in State, NEW old \in Dentries, NEW d \in Dentries, DirOf(a, d) \in Inos,
           a.dent[old].ino \in Inos, NEW c, c = fs_rename(a, old, d)
    PROVE  Wrote(a, d, c) /\ (c.err = "0" => a.dent[old].name \in Names)
<1>0. PICK n, x : n = a.dent[d].name /\ x = DirOf(a, d)
    OBVIOUS
<1>1. PICK i \in Inos : n = a.dent[d].name /\ x = DirOf(a, d) /\ i = a.dent[old].ino
    BY <1>0
<1> DEFINE Refused == \/ Named(a, old) = {} \/ Named(a, d) # {} \/ n \notin Names
                      \/ a.dent[old].sb # a.dent[d].sb
                      \/ IsDir(a, old) /\ DirOf(a, old) # DirOf(a, d)
<1>2. CASE Refused
    <2>1. c = Fail(a, "EINVAL")
        BY <1>1, <1>2 DEF fs_rename
    <2> QED
        BY <2>1 DEF Fail, Wrote
<1>3. CASE ~Refused
    <2>1. PICK E : E = (a.entry \ Named(a, old)) \cup {<<x, n, i>>}
        OBVIOUS
    <2>2. PICK b : b = [a EXCEPT !.entry = E]
        OBVIOUS
    <2>3. c = Ok(Instantiate(b, d, i), d)
        BY <1>1, <1>3, <2>1, <2>2 DEF fs_rename
    <2>4. E \in SUBSET (Inos \X Names \X Inos)
        BY <1>1, <1>3, <2>1 DEF State
    <2>5. b \in State /\ b.dent = a.dent /\ b.ht = a.ht /\ b.iref = a.iref
          /\ b.mounts = a.mounts /\ b.files = a.files
        BY <2>2, <2>4 DEF State
    <2>6. PICK e : e \in Named(a, old)
        BY <1>3
    <2>7. a.dent[old].name \in Names
        BY <2>6, NamedShape
    <2> QED
        BY <2>3, <2>5, <2>7 DEF Ok, Wrote
<1> QED
    BY <1>2, <1>3

\* Two dentries that the call has reached are put.
LEMMA TwoPuts ==
    ASSUME NEW s0, NEW s, Ends(s0, s), NEW d, NEW h,
           Reached(s0.dent, s.dent, d), Reached(s0.dent, s.dent, h),
           NEW t, t = dentry_put(dentry_put(s, d), h)
    PROVE  Ends(s0, t)
<1>1. PICK u : u = dentry_put(s, d)
    OBVIOUS
<1>2. Recounting(s0, s, u, d)
    BY <1>1, WorkingPut
<1>3. Ends(s0, u) /\ Reached(s0.dent, u.dent, h) /\ t = dentry_put(u, h)
    BY <1>1, <1>2 DEF Recounting
<1>4. Recounting(s0, u, t, h)
    BY <1>3, WorkingPut
<1> QED
    BY <1>4 DEF Recounting

\* The end of vfs_rename: o is the state after the first walk, which found old,
\* and g the one after the second, which found the directory h.
LEMMA RenameEnds ==
    ASSUME NEW n, NEW o, NEW g, Ends(n, o), Ends(o, g), Working(n, g),
           NEW d1, Reached(n.dent, o.dent, d1), Reached(n.dent, g.dent, d1),
           NEW h, Reached(o.dent, g.dent, h), Reached(n.dent, g.dent, h), IsDir(g, h),
           NEW sb \in Sbs \cup {NoName}, NEW m \in Components,
           NEW old, old.d = d1, NEW par, par.s = g, par.d = h,
           NEW t, t = renamed(old, par, dentry_alloc(g, h, sb, m))
    PROVE  Ends(n, t)
<1>1. PICK a : a = dentry_alloc(g, h, sb, m)
    OBVIOUS
<1>2. PICK d, f, c : d = a.d /\ f = New(d, h, sb, m) /\ c = fs_rename(a.s, d1, d)
    OBVIOUS
<1>3. t = IF a.err = "0"
            THEN IF c.err = "0"
                   THEN dentry_put(dentry_put(dentry_delete(dentry_insert(c.s, d).s, d1), d), h)
                   ELSE dentry_put(dentry_put(dentry_free(a.s, d), d1), h)
            ELSE dentry_put(dentry_put(g, d1), h)
    BY <1>1, <1>2 DEF renamed, Call
<1>4. Ends(n, g) /\ Sound(g) /\ g \in State /\ h \in Dentries /\ h # 0 /\ d1 \in Dentries
    BY DEF Working, Ends, Sound, Reached, Dentries
<1>5. \/ a.err = "ENOMEM" /\ a.s = g
      \/ /\ a.err = "0" /\ d \in Dentries /\ ~g.dent[d].live /\ f \in Dentry
         /\ a.s = With(g, Placing(g.dent, d, f), g.ht, g.iref) /\ a.s \in State
    BY <1>1, <1>2, <1>4, AllocIs
<1>6. CASE a.err = "ENOMEM" /\ a.s = g
    BY <1>3, <1>4, <1>6, TwoPuts
<1>7. CASE /\ a.err = "0" /\ d \in Dentries /\ ~g.dent[d].live /\ f \in Dentry
           /\ a.s = With(g, Placing(g.dent, d, f), g.ht, g.iref) /\ a.s \in State
    <2>1. f.live /\ f.parent = h /\ f.ref = 1 /\ f.ino = 0
        BY <1>2, <1>4 DEF New
    <2>2. /\ a.s.dent = Placing(g.dent, d, f) /\ a.s.ht = g.ht /\ a.s.iref = g.iref
          /\ SameRest(g, a.s)
        BY <1>4, <1>7, WithFields
    <2>3. h # d /\ d1 # d /\ a.s.dent[d] = f /\ a.s.dent[h] = g.dent[h] /\ a.s.dent[d1] = g.dent[d1]
        <3>1. h # d /\ d1 # d
            BY <1>7 DEF Reached
        <3> QED
            BY <1>4, <1>7, <2>2, <3>1 DEF Placing, State
    <2>4. DirOf(a.s, d) \in Inos
        <3>1. g.dent[h].ino \in g.dirs /\ g.dirs \subseteq Inos
            BY <1>4 DEF IsDir, State
        <3> QED
            BY <2>1, <2>3, <3>1 DEF DirOf
    <2>5. a.s.dent[d1].ino \in Inos
        <3>1. g.dent[d1].live /\ g.dent[d1] \in Dentry
            BY <1>4 DEF Reached, State
        <3>2. g.dent[d1].ino # 0
            BY <1>4, <3>1 DEF Sound, Tree
        <3>3. g.dent[d1].ino \in Inos \cup {0}
            BY <3>1 DEF Dentry
        <3> QED
            BY <2>3, <3>2, <3>3
    <2>6. Wrote(a.s, d, c) /\ (c.err = "0" => a.s.dent[d1].name \in Names)
        BY <1>2, <1>4, <1>7, <2>4, <2>5, FsRename
    <2>7. CASE c.err # "0"
        <3>1. PICK u : u = dentry_free(a.s, d)
            OBVIOUS
        <3>2. Sound(u) /\ u.dent = g.dent /\ SameRest(g, u)
            BY <1>4, <1>7, <2>1, <3>1, Unborn
        <3>3. Ends(n, u) /\ Reached(n.dent, u.dent, d1) /\ Reached(n.dent, u.dent, h)
            BY <1>4, <3>2, WorkingAside DEF SameRest
        <3> QED
            BY <1>3, <1>7, <2>7, <3>1, <3>3, TwoPuts
    <2>8. CASE c.err = "0"
        <3>1. PICK b \in State, i \in Inos :
                  /\ c.s = Instantiate(b, d, i) /\ b.dent = a.s.dent /\ b.ht = a.s.ht
                  /\ b.iref = a.s.iref /\ b.mounts = a.s.mounts /\ b.files = a.s.files
            BY <2>6, <2>8 DEF Wrote
        <3>2. PICK u : u = dentry_insert(Instantiate(b, d, i), d).s
            OBVIOUS
        <3>3. Prepared(g, d, f, b, h)
            BY <1>7, <2>1, <2>2, <3>1 DEF Prepared, SameRest
        <3>4. Adds(n, g, u, d, h)
            BY <3>2, <3>3, NewBelow
        <3>5. /\ Ends(n, u) /\ Reached(n.dent, u.dent, d)
              /\ Reached(n.dent, u.dent, d1) /\ Reached(n.dent, u.dent, h)
              /\ u.dent[d1] = g.dent[d1]
            BY <1>4, <2>3, <3>4 DEF Adds, Working
        <3>6. g.dent[d1].name \in Names
            BY <2>3, <2>6, <2>8
        <3>7. d1 \in Dentries /\ u.dent[d1].live /\ ~n.dent[d1].live
            BY <3>5, <3>6, NamedIsOwn
        <3>8. h # d1
            <4>1. SUFFICES ASSUME h = d1 PROVE FALSE
                OBVIOUS
            <4>2. o.dent[d1].live
                BY DEF Reached
            <4>3. o.dent[d1].name = "/" /\ g.dent[d1].name = o.dent[d1].name
                BY <1>4, <4>1, <4>2 DEF Reached, IsRoot, Ends, Kept
            <4> QED
                BY <3>6, <4>3, DcacheAssumption DEF DcacheAssumption
        <3>9. PICK v : v = dentry_free(u, d1)
            OBVIOUS
        <3>10. /\ Ends(n, v)
               /\ \A x : Reached(n.dent, u.dent, x) /\ x # d1 => Reached(n.dent, v.dent, x)
            BY <3>5, <3>7, <3>9, Gone
        <3>11. Reached(n.dent, v.dent, d) /\ Reached(n.dent, v.dent, h)
            BY <2>3, <3>5, <3>8, <3>10
        <3>12. t = dentry_put(dentry_put(v, d), h)
            BY <1>3, <1>7, <2>8, <3>1, <3>2, <3>9 DEF dentry_delete
        <3> QED
            BY <3>10, <3>11, <3>12, TwoPuts
    <2> QED
        BY <2>7, <2>8
<1> QED
    BY <1>5, <1>6, <1>7

\* vfs_rename, with each of its ways out.
LEMMA RenamePreserves ==
    ASSUME IInv, NEW p \in Seq(Components), NEW q \in Seq(Components), vfs_rename(p, q)
    PROVE  IInv'
<1>1. PICK n : /\ n = Now /\ Consistent(n) /\ RootsOk(n) /\ Working(n, n) /\ n.mounts = mounts
    BY CallBegins
<1>2. n.mounts # <<>>
    BY <1>1 DEF vfs_rename, Mounted
<1>3. PICK old, par : old = vfs_path_lookup(n, p) /\ par = vfs_path_parent(old.s, q)
    OBVIOUS
<1>4. Looked(n, old)
    BY <1>1, <1>2, <1>3, PathLookup
<1>5. PICK o, d1, g, h, m : o = old.s /\ d1 = old.d /\ g = par.s /\ h = par.d /\ m = LastName(q)
    OBVIOUS
<1>6. Becomes(IF old.err = "0"
                THEN IF par.err = "0"
                       THEN IF ~IsDir(g, h) THEN dentry_put(dentry_put(g, d1), h)
                            ELSE renamed(old, par, dentry_alloc(g, h, g.dent[h].sb, m))
                       ELSE dentry_put(g, d1)
                ELSE o)
    BY <1>1, <1>3, <1>5 DEF vfs_rename, Call
<1>7. CASE old.err # "0"
    <2>1. Becomes(o) /\ Ends(n, o)
        BY <1>4, <1>5, <1>6, <1>7 DEF Looked, Working
    <2> QED
        BY <1>1, <2>1, CallEnds
<1>8. CASE old.err = "0"
    <2>1. Working(n, o) /\ Ends(n, o) /\ Sound(o) /\ Reached(n.dent, o.dent, d1)
        BY <1>4, <1>5, <1>8 DEF Looked, Working, Ends
    <2>2. RootsOk(o) /\ o.mounts # <<>> /\ Working(o, o)
        BY <1>1, <1>2, <2>1, RootsStay, WorkingSelf DEF Ends
    <2>3. Looked(o, par)
        BY <1>3, <1>5, <2>2, PathParent
    <2>4. Working(o, g) /\ Ends(o, g)
        BY <1>5, <2>3 DEF Looked, Working
    <2>5. Working(n, g) /\ Ends(n, g)
        BY <2>1, <2>4, EndsTwice
    <2>6. Reached(n.dent, g.dent, d1)
        BY <2>1, <2>4 DEF Reached, Ends, Kept
    <2>7. CASE par.err # "0"
        <3>1. PICK t : t = dentry_put(g, d1)
            OBVIOUS
        <3>2. Recounting(n, g, t, d1)
            BY <2>5, <2>6, <3>1, WorkingPut
        <3>3. Becomes(t) /\ Ends(n, t)
            BY <1>6, <1>8, <2>7, <3>1, <3>2 DEF Recounting
        <3> QED
            BY <1>1, <3>3, CallEnds
    <2>8. CASE par.err = "0"
        <3>1. Reached(o.dent, g.dent, h)
            BY <1>5, <2>3, <2>8 DEF Looked
        <3>2. Reached(n.dent, g.dent, h)
            BY <2>1, <2>4, <3>1, ReachedFromBefore DEF Ends
        <3>3. CASE ~IsDir(g, h)
            <4>1. PICK t : t = dentry_put(dentry_put(g, d1), h)
                OBVIOUS
            <4>2. Ends(n, t)
                BY <2>5, <2>6, <3>2, <4>1, TwoPuts
            <4>3. Becomes(t)
                BY <1>6, <1>8, <2>8, <3>3, <4>1
            <4> QED
                BY <1>1, <4>2, <4>3, CallEnds
        <3>4. CASE IsDir(g, h)
            <4>1. PICK sb \in Sbs \cup {NoName} : sb = g.dent[h].sb
                <5>1. g.dent[h] \in Dentry
                    BY <2>4, <3>1 DEF Reached, Ends, Sound, State
                <5> QED
                    BY <5>1 DEF Dentry
            <4>2. m \in Components
                BY <1>5, LastNameType
            <4>3. PICK t : t = renamed(old, par, dentry_alloc(g, h, sb, m))
                OBVIOUS
            <4>4. Ends(n, t)
                BY <1>5, <2>1, <2>4, <2>5, <2>6, <3>1, <3>2, <3>4, <4>2, <4>3, RenameEnds
            <4>5. Becomes(t)
                BY <1>6, <1>8, <2>8, <3>4, <4>1, <4>3
            <4> QED
                BY <1>1, <4>4, <4>5, CallEnds
        <3> QED
            BY <3>3, <3>4
    <2> QED
        BY <2>7, <2>8
<1> QED
    BY <1>7, <1>8

\* file_open: the file of a new dentry or of a root.
LEMMA ConsistentOpen ==
    ASSUME NEW s0, Consistent(s0), NEW s, Working(s0, s), NEW d, Reached(s0.dent, s.dent, d),
           SafeWalks => Low(s.dent, d),
           NEW u, u = dentry_get(s, d), NEW f, f = [d |-> d, ino |-> s.dent[d].ino],
           NEW t, t = [u EXCEPT !.files = @ \cup {f}]
    PROVE  Consistent(t)
<1>1. Recounting(s0, s, u, d) /\ u.dent[d].ref = (s.dent[d].ref + 1) % RefMod
    BY WorkingGet DEF Working
<1>2. Ends(s0, u) /\ Working(s0, u) /\ Reached(s0.dent, u.dent, d) /\ d \in Dentries
    BY <1>1 DEF Recounting, Reached
<1>3. Consistent(u)
    BY <1>2, ConsistentEnds
<1>4. PICK C, D, F, M : C = s0.dent /\ D = u.dent /\ F = u.files /\ M = Range(u.mounts)
    OBVIOUS
<1>5. Kept(C, D) /\ Linked(C, D) /\ Reached(C, D, d)
    BY <1>2, <1>4 DEF Working, Ends
<1>6. Placed(D, d)
    <2>1. Reached(C, D, D[d].parent)
        BY <1>5, ReachedParent
    <2> QED
        BY <1>5, <2>1 DEF Reached, Placed
<1>7. D[d].ino = f.ino /\ f.ino \in Inos /\ f.d = d
    <2>1. D[d].ino = s.dent[d].ino
        BY <1>1, <1>2, <1>4 DEF Recounting
    <2>2. D[d] \in Dentry /\ D[d].ino # 0
        BY <1>2, <1>4, <1>5 DEF Ends, Sound, Tree, Reached
    <2>3. D[d].ino \in Inos
        BY <2>2 DEF Dentry
    <2> QED
        BY <2>1, <2>3
<1>8. ASSUME D[d].parent # d, NEW m \in M PROVE m.mp # d
    <2>1. Range(s0.mounts) = M
        BY <1>2, <1>4 DEF Ends
    <2>2. Placed(C, m.mp)
        BY <1>4, <2>1 DEF Consistent, Anchored
    <2>3. C[d].live => D[d].parent = d
        BY <1>2, <1>5 DEF Reached, IsRoot, Kept
    <2> QED
        BY <1>8, <2>2, <2>3 DEF Placed
<1>9. ASSUME SafeWalks, D[d].parent # d PROVE D[d].ref > 0
    <2>1. s.dent[d].ref \in {0, 1}
        BY <1>1, <1>2, <1>4, <1>9 DEF Recounting, Low
    <2>2. \A x \in {0, 1} : (x + 1) % RefMod > 0
        BY DcacheAssumption DEF DcacheAssumption
    <2> QED
        BY <1>1, <1>4, <2>1, <2>2
<1>10. u \in State /\ Tree(D, u.ht, u.iref)
    BY <1>3, <1>4 DEF Consistent
<1>11. /\ t \in State /\ t.dent = D /\ t.ht = u.ht /\ t.iref = u.iref /\ t.mounts = u.mounts
       /\ t.files = F \cup {f}
    <2>1. f \in [d : Dentries, ino : Inos]
        BY <1>2, <1>7
    <2>2. PICK G : G = F \cup {f}
        OBVIOUS
    <2>3. G \in SUBSET [d : Dentries, ino : Inos]
        BY <1>4, <1>10, <2>1, <2>2 DEF State
    <2>4. t = [u EXCEPT !.files = G]
        BY <1>4, <2>2
    <2> QED
        BY <1>4, <1>10, <2>2, <2>3, <2>4 DEF State
<1>12. Anchored(t)
    <2>1. /\ \A m \in M : IsRoot(D, m.root) /\ Placed(D, m.mp)
          /\ \A x \in F : Placed(D, x.d) /\ D[x.d].ino = x.ino
                          /\ (D[x.d].parent # x.d => \A m \in M : m.mp # x.d)
        BY <1>3, <1>4 DEF Consistent, Anchored
    <2>2. Placed(D, f.d) /\ D[f.d].ino = f.ino /\ (D[f.d].parent # f.d => \A m \in M : m.mp # f.d)
        BY <1>6, <1>7, <1>8
    <2>3. \A x \in F \cup {f} : Placed(D, x.d) /\ D[x.d].ino = x.ino
                          /\ (D[x.d].parent # x.d => \A m \in M : m.mp # x.d)
        BY <2>1, <2>2
    <2> QED
        BY <1>4, <1>11, <2>1, <2>3 DEF Anchored
<1>13. ASSUME SafeWalks PROVE Counted(t)
    <2>1. \A x \in F : D[x.d].parent # x.d => D[x.d].ref > 0
        BY <1>3, <1>4, <1>13 DEF Consistent, Counted
    <2>2. D[f.d].parent # f.d => D[f.d].ref > 0
        BY <1>7, <1>9, <1>13
    <2> QED
        BY <1>11, <2>1, <2>2 DEF Counted
<1> QED
    BY <1>10, <1>11, <1>12, <1>13 DEF Consistent

\* The paths of calls are safe if all are.
LEMMA SafePath ==
    ASSUME SafeWalks, NEW p \in Paths \cup NewPaths \cup Targets
    PROVE  NoClimb(p)
BY DEF SafeWalks, NoClimb

\* vfs_open, with and without O_CREAT.
LEMMA OpenPreserves ==
    ASSUME IInv, NEW p \in Paths \cup NewPaths \cup Targets, NEW creat, vfs_open(p, creat)
    PROVE  IInv'
<1>1. PICK n : /\ n = Now /\ Consistent(n) /\ RootsOk(n) /\ Working(n, n) /\ n.mounts = mounts
    BY CallBegins
<1>2. n.mounts # <<>> /\ p \in Seq(Components)
    BY <1>1, VfsAssumption DEF vfs_open, Mounted, VfsAssumption
<1>3. PICK l, r : l = vfs_path_lookup(n, p) /\ r = or_make(l, p, creat)
    OBVIOUS
<1>4. Looked(n, l) /\ (NoClimb(p) /\ l.err = "0" => Low(l.s.dent, l.d))
    BY <1>1, <1>2, <1>3, PathLookup
<1>5. Looked(n, r) /\ (NoClimb(p) /\ r.err = "0" => Low(r.s.dent, r.d))
    <2>1. CASE r = l
        BY <1>4, <2>1
    <2>2. CASE r = make(l.s, p, FALSE)
        <3>1. PICK s : s = l.s
            OBVIOUS
        <3>2. Working(n, s)
            BY <1>4, <3>1 DEF Looked
        <3>3. r = make(s, p, FALSE)
            BY <2>2, <3>1
        <3> QED
            BY <1>1, <1>2, <3>2, <3>3, Make
    <2> QED
        BY <1>3, <2>1, <2>2 DEF or_make
<1>6. Becomes(IF r.err = "0" THEN file_open(r.s, r.d) ELSE r.s)
    BY <1>1, <1>3 DEF vfs_open, Call
<1>7. CASE ~(r.err = "0" /\ Cardinality(r.s.files) # NFiles)
    <2>1. PICK t : t = IF r.err = "0" THEN dentry_put(r.s, r.d) ELSE r.s
        OBVIOUS
    <2>2. Becomes(t)
        BY <1>6, <1>7, <2>1 DEF file_open
    <2>3. Ends(n, t)
        BY <1>5, <2>1, LookedThenPut
    <2> QED
        BY <1>1, <2>2, <2>3, CallEnds
<1>8. CASE r.err = "0" /\ Cardinality(r.s.files) # NFiles
    <2>1. PICK s, d, u, f : s = r.s /\ d = r.d /\ u = dentry_get(s, d) /\ f = [d |-> d, ino |-> s.dent[d].ino]
        OBVIOUS
    <2>2. PICK t : t = [u EXCEPT !.files = @ \cup {f}]
        OBVIOUS
    <2>3. Becomes(t)
        BY <1>6, <1>8, <2>1, <2>2 DEF file_open
    <2>4. Working(n, s) /\ Reached(n.dent, s.dent, d) /\ (SafeWalks => Low(s.dent, d))
        BY <1>5, <1>8, <2>1, SafePath DEF Looked
    <2>5. Consistent(t)
        BY <1>1, <2>1, <2>2, <2>4, ConsistentOpen
    <2>6. Now' = t
        BY <2>3, <2>5, BecomesIs DEF Consistent
    <2> QED
        BY <2>5, <2>6 DEF IInv
<1> QED
    BY <1>7, <1>8
-----------------------------------------------------------------------------
(* Closing, mounting and unmounting. *)

Sized(s, F, L, c) == [s EXCEPT !.files = F, !.mounts = L, !.s_count = c]

\* A state with other lists of mounts and files, and counts of super blocks.
LEMMA SizedFields ==
    ASSUME NEW s \in State, NEW F \in SUBSET [d : Dentries, ino : Inos],
           NEW L \in Seq(MountSet), NEW c \in [Sbs -> Int], NEW t, t = Sized(s, F, L, c)
    PROVE  /\ t \in State /\ t.dent = s.dent /\ t.ht = s.ht /\ t.iref = s.iref
           /\ t.entry = s.entry /\ t.dirs = s.dirs
           /\ t.files = F /\ t.mounts = L /\ t.s_count = c
BY DEF Sized, State, MountSet

\* Files are closed, mounts taken off the list.
LEMMA ConsistentFewer ==
    ASSUME NEW s, Consistent(s), NEW F, F \subseteq s.files,
           NEW L \in Seq(MountSet), Range(L) \subseteq Range(s.mounts),
           NEW c \in [Sbs -> Int], NEW t, t = Sized(s, F, L, c)
    PROVE  Consistent(t)
<1>1. s \in State /\ F \in SUBSET [d : Dentries, ino : Inos]
    BY DEF Consistent, State
<1>2. t \in State /\ t.dent = s.dent /\ t.ht = s.ht /\ t.iref = s.iref /\ t.files = F /\ t.mounts = L
    BY <1>1, SizedFields
<1>3. PICK D, G, M, N : D = s.dent /\ G = s.files /\ M = Range(s.mounts) /\ N = Range(L)
    OBVIOUS
<1>4. /\ \A m \in M : IsRoot(D, m.root) /\ Placed(D, m.mp)
      /\ \A x \in G : Placed(D, x.d) /\ D[x.d].ino = x.ino
                      /\ (D[x.d].parent # x.d => \A m \in M : m.mp # x.d)
    BY <1>3 DEF Consistent, Anchored
<1>5. F \subseteq G /\ N \subseteq M
    BY <1>3
<1>6. Anchored(t)
    <2>1. /\ \A m \in N : IsRoot(D, m.root) /\ Placed(D, m.mp)
          /\ \A x \in F : Placed(D, x.d) /\ D[x.d].ino = x.ino
                          /\ (D[x.d].parent # x.d => \A m \in N : m.mp # x.d)
        BY <1>4, <1>5
    <2> QED
        BY <1>2, <1>3, <2>1 DEF Anchored
<1>7. ASSUME SafeWalks PROVE Counted(t)
    BY <1>2, <1>7 DEF Consistent, Counted
<1> QED
    BY <1>2, <1>6, <1>7 DEF Consistent

\* dentry_put of a dentry that no open file counts on.
SameShape(s, t) ==
    /\ SameRest(s, t)
    /\ \A x \in Dentries : /\ (t.dent[x].live <=> s.dent[x].live) /\ t.dent[x].parent = s.dent[x].parent
                           /\ t.dent[x].name = s.dent[x].name /\ t.dent[x].ino = s.dent[x].ino

\* dentry_put of a dentry that no open file counts on, but for a root.
LEMMA ConsistentPut ==
    ASSUME NEW s, Consistent(s), NEW d \in Dentries, s.dent[d].live,
           \A f \in s.files : f.d = d => s.dent[d].parent = d,
           NEW t, t = dentry_put(s, d)
    PROVE  Consistent(t) /\ SameShape(s, t)
<1>1. s \in State /\ Tree(s.dent, s.ht, s.iref) /\ Anchored(s)
    BY DEF Consistent
<1>0. PICK D \in [Dentries -> Dentry] : D = s.dent
    BY <1>1, StateTables DEF TablesOk
<1>2. PICK H, R, F, M :
          D = s.dent /\ H = s.ht /\ R = s.iref /\ F = s.files /\ M = Range(s.mounts)
    BY <1>0
<1>3. PICK r \in Nat : Recounts(s, t, d, r)
    BY <1>1, PutIs
<1>4. PICK E : E = Touching(D, d, r)
    OBVIOUS
<1>5. Tree(E, H, R)
    BY <1>1, <1>2, <1>4, TreeRecounts
<1>6. t.dent = E /\ t.ht = H /\ t.iref = R /\ SameRest(s, t) /\ t \in State
    <2>1. t = With(s, E, H, R) /\ TablesOk(E, H, R)
        BY <1>2, <1>3, <1>4, <1>5 DEF Recounts, Tree, TablesOk
    <2> QED
        BY <1>1, <2>1, WithFields
<1>7. D[d] \in Dentry /\ E[d] = [D[d] EXCEPT !.ref = r] /\ \A x \in Dentries : x # d => E[x] = D[x]
    BY <1>4 DEF Touching
<1>8. \A x \in Dentries : /\ (E[x].live <=> D[x].live) /\ E[x].parent = D[x].parent
                          /\ E[x].name = D[x].name /\ E[x].ino = D[x].ino
    <2>1. PICK e, f : e \in Dentry /\ e = D[d] /\ f = [e EXCEPT !.ref = r] /\ f = E[d]
        BY <1>7
    <2>2. f.live = e.live /\ f.parent = e.parent /\ f.name = e.name /\ f.ino = e.ino
        BY <2>1 DEF Dentry
    <2> QED
        BY <1>7, <2>1, <2>2
<1>9. SameShape(s, t)
    BY <1>2, <1>6, <1>8 DEF SameShape
<1>10. (\A m \in M : m.mp \in Dentries /\ m.root \in Dentries) /\ \A f \in F : f.d \in Dentries
    <2>1. F \subseteq [d : Dentries, ino : Inos]
        BY <1>1, <1>2 DEF State
    <2>2. \A f \in F : f.d \in Dentries
        BY <2>1
    <2> QED
        BY <1>1, <1>2, <2>2, MountShape
<1>11. \A x \in Dentries : D[x].live => D[x].parent \in Dentries
    <2>1. \A x \in Dentries : D[x].parent \in Dentries \cup {0}
        BY DEF Dentry
    <2> QED
        BY <1>1, <1>2, <2>1 DEF Tree
<1>12. \A x \in Dentries : (Placed(D, x) => Placed(E, x)) /\ (IsRoot(D, x) => IsRoot(E, x))
    BY <1>8, <1>11 DEF Placed, IsRoot
<1>13. /\ \A m \in M : IsRoot(D, m.root) /\ Placed(D, m.mp)
       /\ \A x \in F : Placed(D, x.d) /\ D[x.d].ino = x.ino
                       /\ (D[x.d].parent # x.d => \A m \in M : m.mp # x.d)
    BY <1>1, <1>2 DEF Anchored
<1>14. /\ \A m \in M : IsRoot(E, m.root) /\ Placed(E, m.mp)
       /\ \A x \in F : Placed(E, x.d) /\ E[x.d].ino = x.ino
                       /\ (E[x.d].parent # x.d => \A m \in M : m.mp # x.d)
    BY <1>8, <1>10, <1>12, <1>13
<1>15. Anchored(t)
    BY <1>2, <1>6, <1>14 DEF Anchored, SameRest
<1>16. ASSUME SafeWalks PROVE Counted(t)
    <2>1. \A f \in F : D[f.d].parent # f.d => D[f.d].ref > 0
        BY <1>2, <1>16 DEF Consistent, Counted
    <2>2. \A f \in F : f.d = d => D[d].parent = d
        BY <1>2
    <2>3. \A f \in F : E[f.d].parent # f.d => E[f.d].ref > 0
        BY <1>7, <1>8, <1>10, <2>1, <2>2
    <2> QED
        BY <1>2, <1>6, <2>3 DEF Counted, SameRest
<1> QED
    BY <1>5, <1>6, <1>9, <1>15, <1>16 DEF Consistent

\* Counting and the lists of mounts and files are apart.
LEMMA PutSized ==
    ASSUME NEW s \in State, NEW F, NEW L, NEW c, NEW d \in Dentries
    PROVE  dentry_put(Sized(s, F, L, c), d) = Sized(dentry_put(s, d), F, L, c)
BY DEF dentry_put, Sized, State

\* No other open file has the dentry, but for a root.
LEMMA ClosePreserves ==
    ASSUME IInv, NEW f \in files, vfs_close(f)
    PROVE  IInv'
<1>1. PICK n : n = Now /\ Consistent(n) /\ n.files = files
    BY CallBegins
<1>2. n \in State /\ Anchored(n)
    BY <1>1 DEF Consistent
<1>3. PICK F, L, c : F = n.files \ {f} /\ L = n.mounts /\ c = n.s_count
    OBVIOUS
<1>4. n.files \subseteq [d : Dentries, ino : Inos] /\ c \in [Sbs -> Int]
    BY <1>2, <1>3 DEF State
<1>5. L \in Seq(MountSet)
    BY <1>2, <1>3, MountShape
<1>6. PICK d \in Dentries : d = f.d
    BY <1>1, <1>4
<1>7. PICK u : u = Sized(n, F, L, c)
    OBVIOUS
<1>8. Consistent(u)
    <2>1. F \subseteq n.files /\ Range(L) \subseteq Range(n.mounts)
        BY <1>3
    <2> QED
        BY <1>1, <1>4, <1>5, <1>7, <2>1, ConsistentFewer
<1>9. u.dent = n.dent /\ u.files = F
    BY <1>2, <1>3, <1>4, <1>5, <1>7, SizedFields
<1>10. \A g \in F : g.d # d
    <2>1. \A g \in n.files : g = [d |-> g.d, ino |-> g.ino] /\ g.ino = n.dent[g.d].ino
        BY <1>2, <1>4 DEF Anchored
    <2> QED
        BY <1>1, <1>3, <1>6, <2>1
<1>11. u.dent[d].live
    BY <1>1, <1>2, <1>6, <1>9 DEF Anchored, Placed
<1>12. PICK t : t = dentry_put(u, d)
    OBVIOUS
<1>13. Consistent(t)
    BY <1>8, <1>9, <1>10, <1>11, <1>12, ConsistentPut
<1>14. Becomes(t)
    <2>1. t = Sized(dentry_put(n, d), F, L, c)
        BY <1>2, <1>7, <1>12, PutSized
    <2>2. Sized(dentry_put(n, d), F, L, c) = [dentry_put(n, d) EXCEPT !.files = @ \ {f}]
        BY <1>2, <1>3 DEF Sized, dentry_put, State
    <2> QED
        BY <1>1, <1>6, <2>1, <2>2 DEF vfs_close
<1>15. Now' = t
    BY <1>13, <1>14, BecomesIs DEF Consistent
<1> QED
    BY <1>13, <1>15 DEF IInv

\* A mount is taken off the list.
LEMMA Unlisted ==
    ASSUME NEW M \in Seq(MountSet), NEW k \in DOMAIN M, NEW L, L = RemoveAt(M, k)
    PROVE  L \in Seq(MountSet) /\ Range(L) \subseteq Range(M)
<1>1. k \in 1..Len(M) /\ Len(M) \in Nat
    OBVIOUS
<1>2. PICK A, B : A = SubSeq(M, 1, k - 1) /\ B = SubSeq(M, k + 1, Len(M))
    OBVIOUS
<1>3. /\ A \in Seq(MountSet) /\ Len(A) = k - 1 /\ \A i \in 1..Len(A) : A[i] = M[i]
      /\ B \in Seq(MountSet) /\ Len(B) = Len(M) - k /\ \A i \in 1..Len(B) : B[i] = M[k + i]
    <2>1. A \in Seq(MountSet) /\ Len(A) = k - 1
        BY <1>1, <1>2
    <2>2. \A i \in 1..Len(A) : A[i] = M[i]
        BY <1>1, <1>2, <2>1
    <2>3. B \in Seq(MountSet) /\ Len(B) = Len(M) - k
        <3>1. CASE k = Len(M)
            BY <1>1, <1>2, <3>1
        <3>2. CASE k < Len(M)
            BY <1>1, <1>2, <3>2
        <3> QED
            BY <1>1, <3>1, <3>2
    <2>4. ASSUME NEW i \in 1..Len(B) PROVE B[i] = M[k + i]
        <3>1. PICK a \in Int, z \in Int : a = k + 1 /\ z = Len(M)
            BY <1>1
        <3>4. PICK g \in Int : g = k /\ a = g + 1 /\ Len(B) = z - g
            BY <1>1, <2>3, <3>1
        <3>5. a + i - 1 = g + i
            BY <3>4
        <3>6. i \in 1..(z + 1 - a)
            BY <3>4
        <3>2. B = SubSeq(M, a, z) /\ a + i - 1 = k + i /\ i \in 1..(z + 1 - a)
            BY <1>2, <3>1, <3>4, <3>5, <3>6
        <3>3. B[i] = M[a + i - 1]
            BY <3>2
        <3> QED
            BY <3>2, <3>3
    <2> QED
        BY <2>1, <2>2, <2>3, <2>4
<1>4. L = A \o B
    BY <1>2 DEF RemoveAt
<1>5. L \in Seq(MountSet) /\ \A i \in DOMAIN L : \E j \in DOMAIN M : L[i] = M[j]
    <2>1. L \in Seq(MountSet) /\ Len(L) = Len(A) + Len(B)
        BY <1>3, <1>4
    <2>2. \A i \in 1..Len(L) : L[i] = IF i <= Len(A) THEN A[i] ELSE B[i - Len(A)]
        BY <1>3, <1>4
    <2>3. ASSUME NEW i \in DOMAIN L PROVE \E j \in DOMAIN M : L[i] = M[j]
        <3>1. i \in 1..Len(L) /\ DOMAIN M = 1..Len(M)
            BY <2>1
        <3>5. PICK h \in Int : h = i
            BY <3>1
        <3>4. PICK a \in Int, b \in Int, z \in Int, g \in Int :
                  /\ a = Len(A) /\ b = Len(B) /\ z = Len(M) /\ g = k
                  /\ a = g - 1 /\ b = z - g /\ h \in 1..(a + b) /\ g \in 1..z
            <4>1. /\ Len(A) \in Int /\ Len(B) \in Int /\ Len(M) \in Int /\ k \in Int
                  /\ k \in 1..Len(M) /\ Len(A) = k - 1 /\ Len(B) = Len(M) - k
                BY <1>1, <1>3
            <4>2. h \in 1..(Len(A) + Len(B))
                BY <2>1, <3>1, <3>5
            <4> QED
                BY <4>1, <4>2
        <3>6. L[h] = IF h <= a THEN A[h] ELSE B[h - a]
            BY <2>2, <3>1, <3>4, <3>5
        <3>2. CASE h <= a
            <4>1. h \in 1..a /\ h \in 1..z
                BY <3>2, <3>4
            <4>2. A[h] = M[h]
                BY <1>3, <3>4, <4>1
            <4> QED
                BY <3>1, <3>2, <3>4, <3>5, <3>6, <4>1, <4>2
        <3>3. CASE ~(h <= a)
            <4>3. PICK j \in Int : j = h - a
                BY <3>4
            <4>7. a = g - 1 /\ h > a /\ h <= a + b
                BY <3>3, <3>4
            <4>4. g + j = h + 1
                BY <4>3, <4>7
            <4>5. j >= 1 /\ j <= b
                BY <4>3, <4>7
            <4>6. h + 1 >= 1 /\ h + 1 <= z
                BY <3>3, <3>4
            <4>1. j \in 1..b /\ h + 1 \in 1..z /\ g + j = h + 1
                BY <4>4, <4>5, <4>6, <3>4
            <4>2. B[j] = M[g + j]
                BY <1>3, <3>4, <4>1
            <4> QED
                BY <3>1, <3>3, <3>4, <3>5, <3>6, <4>1, <4>2, <4>3
        <3> QED
            BY <3>2, <3>3, <3>4
    <2> QED
        BY <2>1, <2>3
<1> QED
    BY <1>5 DEF Range

\* The mount point is no open file's own dentry, and the root of the mount is a root.
LEMMA MountPutPreserves ==
    ASSUME IInv, NEW k \in DOMAIN mounts, vfs_mount_put(k)
    PROVE  IInv'
<1>1. PICK n : n = Now /\ Consistent(n) /\ n.mounts = mounts
    BY CallBegins
<1>2. n \in State /\ Anchored(n)
    BY <1>1 DEF Consistent
<1>3. PICK m, L, F : m = n.mounts[k] /\ L = RemoveAt(n.mounts, k) /\ F = n.files
    OBVIOUS
<1>4. m \in Range(n.mounts) /\ m.mp \in Dentries /\ m.root \in Dentries /\ m \in MountSet
    BY <1>1, <1>2, <1>3, MountShape
<1>5. L \in Seq(MountSet) /\ Range(L) \subseteq Range(n.mounts)
    BY <1>1, <1>2, <1>3, MountShape, Unlisted
<1>6. PICK c \in [Sbs -> Int] : super_put(n, m.sb) = [n EXCEPT !.s_count = c]
    <2>1. n.s_count \in [Sbs -> Int] /\ m.sb \in Sbs
        BY <1>2, <1>4 DEF State, MountSet
    <2>2. \A a \in Int : [n.s_count EXCEPT ![m.sb] = a] \in [Sbs -> Int]
        BY <2>1
    <2>3. CASE n.s_count[m.sb] = 1
        <3>1. super_put(n, m.sb) = [n EXCEPT !.s_count = [n.s_count EXCEPT ![m.sb] = 0]]
            BY <1>2, <2>3 DEF super_put, super_free, State
        <3>2. [n.s_count EXCEPT ![m.sb] = 0] \in [Sbs -> Int]
            BY <2>1
        <3> QED
            BY <3>1, <3>2
    <2>4. CASE n.s_count[m.sb] # 1
        <3>1. super_put(n, m.sb) = [n EXCEPT !.s_count = [n.s_count EXCEPT ![m.sb] = n.s_count[m.sb] - 1]]
            BY <1>2, <2>4 DEF super_put, State
        <3>2. n.s_count[m.sb] - 1 \in Int
            BY <2>1
        <3> QED
            BY <2>2, <3>1, <3>2
    <2> QED
        BY <2>3, <2>4
<1>7. PICK u, v, t : u = Sized(n, F, L, c) /\ v = dentry_put(u, m.mp) /\ t = dentry_put(v, m.root)
    OBVIOUS
<1>8. Consistent(u)
    BY <1>1, <1>3, <1>5, <1>7, ConsistentFewer
<1>9. F \in SUBSET [d : Dentries, ino : Inos]
    BY <1>2, <1>3 DEF State
<1>10. u.dent = n.dent /\ u.files = F /\ u \in State
    BY <1>2, <1>5, <1>7, <1>9, SizedFields
<1>11. /\ IsRoot(n.dent, m.root) /\ Placed(n.dent, m.mp)
       /\ \A f \in F : f.d = m.mp => n.dent[f.d].parent = f.d
    BY <1>2, <1>3, <1>4 DEF Anchored
<1>12. Consistent(v) /\ SameShape(u, v)
    <2>1. PICK d \in Dentries : d = m.mp
        BY <1>4
    <2>2. u.dent[d].live /\ \A f \in u.files : f.d = d => u.dent[d].parent = d
        BY <1>10, <1>11, <2>1 DEF Placed
    <2>3. v = dentry_put(u, d)
        BY <1>7, <2>1
    <2> QED
        BY <1>8, <2>2, <2>3, ConsistentPut
<1>13. Consistent(t)
    <2>1. PICK d \in Dentries : d = m.root
        BY <1>4
    <2>2. v.dent[d].live /\ v.dent[d].parent = d
        BY <1>10, <1>11, <1>12, <2>1 DEF SameShape, IsRoot
    <2>3. t = dentry_put(v, d)
        BY <1>7, <2>1
    <2> QED
        BY <1>12, <2>2, <2>3, ConsistentPut
<1>14. Becomes(t)
    <2>1. PICK w : w = [n EXCEPT !.s_count = c]
        OBVIOUS
    <2>2. w \in State /\ u = Sized(w, F, L, c)
        BY <1>2, <1>7, <2>1 DEF State, Sized
    <2>3. PICK x, y : x = dentry_put(w, m.mp) /\ y = dentry_put(x, m.root)
        OBVIOUS
    <2>4. v = Sized(x, F, L, c)
        BY <1>4, <1>7, <2>2, <2>3, PutSized
    <2>5. x \in State /\ x.files = F /\ x.mounts = n.mounts /\ x.s_count = c
        <3>1. PICK r \in Nat : Recounts(w, x, m.mp, r)
            BY <1>4, <2>2, <2>3, PutIs
        <3>2. PICK D \in [Dentries -> Dentry] : D = w.dent
            BY <2>2, StateTables DEF TablesOk
        <3>3. PICK E : E = Touching(D, m.mp, r)
            OBVIOUS
        <3>4. E \in [Dentries -> Dentry]
            <4>1. D[m.mp] \in Dentry
                BY <1>4
            <4>2. [D[m.mp] EXCEPT !.ref = r] \in Dentry
                BY <4>1 DEF Dentry
            <4> QED
                BY <3>3, <4>2 DEF Touching
        <3>5. TablesOk(E, w.ht, w.iref) /\ x = With(w, E, w.ht, w.iref)
            BY <2>2, <3>1, <3>2, <3>3, <3>4, StateTables DEF TablesOk, Recounts
        <3>6. x \in State /\ SameRest(w, x)
            BY <2>2, <3>5, WithFields
        <3>7. w.files = F /\ w.mounts = n.mounts /\ w.s_count = c
            BY <1>2, <1>3, <2>1 DEF State
        <3> QED
            BY <3>6, <3>7 DEF SameRest
    <2>6. t = Sized(y, F, L, c)
        BY <1>4, <1>7, <2>3, <2>4, <2>5, PutSized
    <2>9. y.files = F /\ y.mounts = n.mounts /\ y.s_count = c /\ DOMAIN y = DOMAIN x
        BY <2>3, <2>5 DEF dentry_put, State
    <2>7. Sized(y, F, L, c) = [y EXCEPT !.mounts = L]
        <3>1. PICK r \in Nat : Recounts(x, y, m.root, r)
            BY <1>4, <2>3, <2>5, PutIs
        <3>2. PICK E : y = With(x, E, x.ht, x.iref)
            BY <3>1 DEF Recounts
        <3> QED
            BY <2>5, <3>2 DEF Sized, With, State
    <2>8. Becomes([y EXCEPT !.mounts = RemoveAt(@, k)])
        BY <1>1, <1>3, <1>6, <2>1, <2>3 DEF vfs_mount_put
    <2> QED
        BY <1>3, <2>6, <2>7, <2>8, <2>9
<1>15. Now' = t
    BY <1>13, <1>14, BecomesIs DEF Consistent
<1> QED
    BY <1>13, <1>15 DEF IInv

\* fs_mount fails and leaves all dentries alone, or adds a root.
FsMounted(s, r) ==
    /\ Sound(r.s) /\ r.s.mounts = s.mounts /\ r.s.files = s.files
    /\ \/ r.err # "0" /\ r.s.dent = s.dent
       \/ /\ r.err = "0" /\ r.d \in Dentries /\ ~s.dent[r.d].live
          /\ \E e \in Dentry : /\ e.live /\ e.parent = r.d /\ e.name = "/"
                               /\ r.s.dent = Placing(s.dent, r.d, e)

\* The super block's count is apart from all dentries.
LEMMA CountedSuper ==
    ASSUME NEW s, Sound(s), NEW c \in [Sbs -> Int], NEW t, t = [s EXCEPT !.s_count = c]
    PROVE  Sound(t) /\ t.dent = s.dent /\ t.mounts = s.mounts /\ t.files = s.files
BY DEF Sound, State

\* super_put is apart from all dentries.
LEMMA SuperPutIs ==
    ASSUME NEW s, Sound(s), NEW sb \in Sbs, NEW t, t = super_put(s, sb)
    PROVE  Sound(t) /\ t.dent = s.dent /\ t.mounts = s.mounts /\ t.files = s.files
<1>1. s \in State /\ s.s_count \in [Sbs -> Int]
    BY DEF Sound, State
<1>2. PICK c, a : c = s.s_count /\ a = IF c[sb] = 1 THEN 0 ELSE c[sb] - 1
    OBVIOUS
<1>3. a \in Int
    BY <1>1, <1>2
<1>4. [c EXCEPT ![sb] = a] \in [Sbs -> Int]
    BY <1>1, <1>2, <1>3
<1>6. PICK e \in [Sbs -> Int] : e = [c EXCEPT ![sb] = a]
    BY <1>4
<1>5. t = [s EXCEPT !.s_count = e]
    BY <1>1, <1>2, <1>6 DEF super_put, super_free, State
<1> QED
    BY <1>5, CountedSuper

\* super_alloc is apart from all dentries.
LEMMA SuperAllocIs ==
    ASSUME NEW s, Sound(s), NEW sb \in Sbs, NEW t, t = super_alloc(s, sb)
    PROVE  Sound(t) /\ t.dent = s.dent /\ t.mounts = s.mounts /\ t.files = s.files
<1>1. s \in State /\ s.s_count \in [Sbs -> Int]
    BY DEF Sound, State
<1>4. PICK c \in [Sbs -> Int] : c = s.s_count
    BY <1>1
<1>5. 1 \in Int /\ [c EXCEPT ![sb] = 1] \in [Sbs -> Int]
    OBVIOUS
<1>2. PICK e \in [Sbs -> Int] : e = [s.s_count EXCEPT ![sb] = 1]
    BY <1>4, <1>5
<1>3. t = [s EXCEPT !.s_count = e]
    BY <1>1, <1>2 DEF super_alloc, State
<1> QED
    BY <1>3, CountedSuper

\* The new root is hashed before it has an inode; without a free key it goes again.
LEMMA FsMount ==
    ASSUME NEW s, Sound(s), NEW sb \in Sbs, NEW r, r = fs_mount(s, sb)
    PROVE  FsMounted(s, r)
<1>1. CASE s.s_count[sb] # 0
    BY <1>1 DEF fs_mount, Fail, FsMounted
<1>2. CASE s.s_count[sb] = 0
    <2>1. PICK a, i, q : /\ a = dentry_alloc(s, 0, sb, "/") /\ i = dentry_insert(a.s, a.d)
                         /\ q = dentry_root(s, sb)
        OBVIOUS
    <2>2. q = IF a.err = "0" THEN (IF i.err = "0" THEN i ELSE Fail(dentry_free(a.s, a.d), i.err)) ELSE a
        BY <2>1 DEF dentry_root, Then, Call
    <2>3. r = IF q.err = "0"
                THEN Ok(super_alloc(Instantiate(q.s, q.d, RootIno[sb]), sb), q.d) ELSE q
        BY <1>2, <2>1 DEF fs_mount, Then
    <2>4. s \in State /\ "/" \in Components
        BY DEF Sound, Components
    <2>5. PICK d, f, n : d = a.d /\ f = New(d, 0, sb, n) /\ n = "/" /\ n \in Components
        BY <2>4
    <2>6. \/ a.err = "ENOMEM" /\ a.s = s
          \/ /\ a.err = "0" /\ d \in Dentries /\ ~s.dent[d].live /\ f \in Dentry
             /\ a.s = With(s, Placing(s.dent, d, f), s.ht, s.iref) /\ a.s \in State
        <3>1. PICK z \in Dentries \cup {0}, v \in Sbs \cup {NoName} : z = 0 /\ v = sb
            OBVIOUS
        <3>2. a = dentry_alloc(s, z, v, n) /\ f = New(a.d, z, v, n)
            BY <2>1, <2>5, <3>1
        <3> QED
            BY <2>4, <2>5, <3>2, AllocIs
    <2>7. CASE a.err = "ENOMEM" /\ a.s = s
        BY <2>2, <2>3, <2>7 DEF FsMounted
    <2>8. CASE /\ a.err = "0" /\ d \in Dentries /\ ~s.dent[d].live /\ f \in Dentry
               /\ a.s = With(s, Placing(s.dent, d, f), s.ht, s.iref) /\ a.s \in State
        <3>1. f.live /\ f.parent = d /\ f.name = n /\ f.ino = 0
            BY <2>5 DEF New
        <3>2. PICK g : g = a.s
            OBVIOUS
        <3>3. /\ g.dent = Placing(s.dent, d, f) /\ g.ht = s.ht /\ g.iref = s.iref
              /\ SameRest(s, g) /\ g \in State
            BY <2>4, <2>8, <3>2, WithFields
        <3>4. g.dent[d] = f
            <4>1. s.dent \in [Dentries -> Dentry]
                BY <2>4, StateTables DEF TablesOk
            <4> QED
                BY <2>8, <3>3, <4>1 DEF Placing
        <3>5. PICK k : k = KeyOf[d][n]
            OBVIOUS
        <3>6. \/ k \in DOMAIN s.ht /\ i = Fail(g, "EEXIST")
              \/ /\ k \notin DOMAIN s.ht
                 /\ i = Ok(With(g, g.dent, hashtable_insert(s.ht, k, d), s.iref), d)
            BY <2>1, <2>5, <2>8, <3>1, <3>2, <3>3, <3>4, <3>5, InsertIs
        <3>7. CASE k \in DOMAIN s.ht /\ i = Fail(g, "EEXIST")
            <4>1. PICK t : t = dentry_free(g, d)
                OBVIOUS
            <4>2. Sound(t) /\ t.dent = s.dent /\ SameRest(s, t)
                BY <2>8, <3>1, <3>2, <4>1, Unborn
            <4>3. r = Fail(t, "EEXIST")
                BY <2>2, <2>3, <2>5, <2>8, <3>2, <3>7, <4>1 DEF Fail
            <4> QED
                BY <4>2, <4>3 DEF Fail, FsMounted, SameRest
        <3>8. CASE /\ k \notin DOMAIN s.ht
                   /\ i = Ok(With(g, g.dent, hashtable_insert(s.ht, k, d), s.iref), d)
            <4>1. PICK H, b, ri : H = hashtable_insert(s.ht, k, d) /\ b = With(g, g.dent, H, s.iref) /\ ri = RootIno[sb]
                OBVIOUS
            <4>2. ri \in Inos
                BY <4>1, VfsAssumption DEF VfsAssumption
            <4>3. k \in 0..(HashSize - 1) /\ s.ht \in Tables
                BY <2>4, <2>5, <2>8, <3>5, KeyType, StateTables DEF TablesOk
            <4>4. H \in Tables
                BY <2>8, <4>1, <4>3, TableInsert
            <4>5. b.dent = Placing(s.dent, d, f) /\ b.ht = H /\ b.iref = s.iref /\ SameRest(g, b) /\ b \in State
                <5>1. TablesOk(g.dent, H, s.iref)
                    BY <3>3, <4>4, StateTables DEF TablesOk
                <5> QED
                    BY <3>3, <4>1, <5>1, WithFields
            <4>6. PICK t, e : t = Instantiate(b, d, ri) /\ e = [f EXCEPT !.ino = ri]
                OBVIOUS
            <4>7. d # 0
                BY <2>8 DEF Dentries
            <4>8. /\ e \in Dentry /\ e.live /\ e.parent = f.parent /\ e.name = f.name
                  /\ t \in State /\ t.dent = Placing(s.dent, d, e) /\ t.ht = H /\ SameRest(b, t)
                  /\ Tree(t.dent, s.ht, t.iref)
                BY <2>8, <3>1, <4>2, <4>5, <4>6, <4>7, Born
            <4>9. Sound(t)
                <5>1. PICK D, G, R : D = t.dent /\ G = s.ht /\ R = t.iref
                    OBVIOUS
                <5>2. D[d] = e
                    <6>1. s.dent \in [Dentries -> Dentry]
                        BY <2>4, StateTables DEF TablesOk
                    <6> QED
                        BY <2>8, <4>8, <5>1, <6>1 DEF Placing
                <5>3. Tree(D, G, R) /\ D[d].live /\ k = KeyOf[D[d].parent][D[d].name] /\ k \notin DOMAIN G
                    BY <3>1, <3>5, <3>8, <4>8, <5>1, <5>2
                <5>4. Tree(D, hashtable_insert(G, k, d), R)
                    BY <2>8, <5>3, TreeHashes
                <5> QED
                    BY <4>1, <4>8, <5>1, <5>4 DEF Sound
            <4>10. PICK u : u = super_alloc(t, sb)
                OBVIOUS
            <4>11. Sound(u) /\ u.dent = t.dent /\ u.mounts = t.mounts /\ u.files = t.files
                BY <4>9, <4>10, SuperAllocIs
            <4>12. q = i /\ i.err = "0" /\ i.s = b /\ i.d = d
                BY <2>2, <2>8, <3>8, <4>1 DEF Ok
            <4>13. r = Ok(u, d)
                BY <2>3, <4>1, <4>6, <4>10, <4>12
            <4>14. u.mounts = s.mounts /\ u.files = s.files
                BY <3>3, <4>5, <4>8, <4>11 DEF SameRest
            <4>15. r.s = u /\ r.d = d /\ r.err = "0"
                BY <4>13 DEF Ok
            <4>16. e.live /\ e.parent = d /\ e.name = "/" /\ u.dent = Placing(s.dent, d, e)
                BY <2>5, <3>1, <4>8, <4>11
            <4> QED
                BY <2>8, <4>8, <4>11, <4>14, <4>15, <4>16 DEF FsMounted
        <3> QED
            BY <3>6, <3>7, <3>8
    <2> QED
        BY <2>6, <2>7, <2>8
<1> QED
    BY <1>1, <1>2

\* A new mount: its root is a root, and no open file has its mount point as a
\* dentry of its own.
LEMMA ConsistentMount ==
    ASSUME NEW s, Consistent(s), NEW m \in MountSet,
           IsRoot(s.dent, m.root), Placed(s.dent, m.mp),
           \A f \in s.files : f.d = m.mp => s.dent[f.d].parent = f.d,
           NEW L, L = <<m>> \o s.mounts, NEW t, t = [s EXCEPT !.mounts = L]
    PROVE  Consistent(t)
<1>1. s \in State /\ Tree(s.dent, s.ht, s.iref) /\ Anchored(s)
    BY DEF Consistent
<1>2. PICK D, F, O : D = s.dent /\ F = s.files /\ O = s.mounts /\ O \in Seq(MountSet)
    BY <1>1, MountShape
<1>3. L \in Seq(MountSet) /\ Range(L) \subseteq {m} \cup Range(O)
    <2>1. L \in Seq(MountSet) /\ Len(L) = Len(O) + 1
        BY <1>2
    <2>2. \A i \in 1..Len(L) : L[i] = IF i = 1 THEN m ELSE O[i - 1]
        BY <1>2
    <2>3. \A i \in 1..Len(L) : i # 1 => i - 1 \in 1..Len(O)
        BY <2>1
    <2>4. \A i \in 1..Len(L) : L[i] = m \/ \E j \in DOMAIN O : L[i] = O[j]
        BY <2>2, <2>3
    <2>5. DOMAIN L = 1..Len(L)
        BY <2>1
    <2> QED
        BY <2>1, <2>4, <2>5 DEF Range
<1>4. t \in State /\ t.dent = D /\ t.ht = s.ht /\ t.iref = s.iref /\ t.files = F /\ t.mounts = L
    BY <1>1, <1>2, <1>3 DEF State, MountSet
<1>5. PICK M, N : M = Range(O) /\ N = Range(L)
    OBVIOUS
<1>6. /\ \A x \in M : IsRoot(D, x.root) /\ Placed(D, x.mp)
      /\ \A f \in F : Placed(D, f.d) /\ D[f.d].ino = f.ino
                      /\ (D[f.d].parent # f.d => \A x \in M : x.mp # f.d)
    BY <1>1, <1>2, <1>5 DEF Anchored
<1>7. /\ \A x \in N : IsRoot(D, x.root) /\ Placed(D, x.mp)
      /\ \A f \in F : Placed(D, f.d) /\ D[f.d].ino = f.ino
                      /\ (D[f.d].parent # f.d => \A x \in N : x.mp # f.d)
    BY <1>2, <1>3, <1>5, <1>6
<1>8. Anchored(t)
    BY <1>4, <1>5, <1>7 DEF Anchored
<1>9. ASSUME SafeWalks PROVE Counted(t)
    BY <1>2, <1>4, <1>9 DEF Consistent, Counted
<1> QED
    BY <1>1, <1>2, <1>4, <1>8, <1>9 DEF Consistent

\* After vfs_mount: the dentries of the call so far, and the root.
LEMMA MountedEnds ==
    ASSUME NEW s0, NEW s, Ends(s0, s), NEW r, FsMounted(s, r), r.err = "0",
           NEW g, g = r.s, NEW d, d = r.d
    PROVE  /\ Ends(s0, g) /\ d \in Dentries /\ ~s0.dent[d].live /\ IsRoot(g.dent, d)
           /\ \A x : Reached(s0.dent, s.dent, x) =>
                 Reached(s0.dent, g.dent, x) /\ x # d /\ g.dent[x] = s.dent[x]
           /\ \A x \in Dentries : s.dent[x].live => x # d /\ g.dent[x] = s.dent[x]
<1>1. /\ Sound(g) /\ g.mounts = s.mounts /\ g.files = s.files /\ d \in Dentries /\ ~s.dent[d].live
    BY DEF FsMounted
<1>2. PICK e \in Dentry : /\ e.live /\ e.parent = d /\ e.name = "/" /\ g.dent = Placing(s.dent, d, e)
    BY DEF FsMounted
<1>3. PICK C, D, E : C = s0.dent /\ D = s.dent /\ E = g.dent
    OBVIOUS
<1>4. D \in [Dentries -> Dentry] /\ Kept(C, D) /\ E = Placing(D, d, e) /\ ~D[d].live
    BY <1>1, <1>2, <1>3, StateTables DEF Ends, Sound, TablesOk
<1>5. /\ Kept(C, E) /\ ~C[d].live
      /\ \A x : Reached(C, D, x) => Reached(C, E, x) /\ x # d /\ E[x] = D[x]
    BY <1>1, <1>2, <1>4, Grown
<1>6. E[d] = e /\ \A x \in Dentries : x # d => E[x] = D[x]
    BY <1>1, <1>4 DEF Placing
<1>7. Ends(s0, g)
    BY <1>1, <1>3, <1>5 DEF Ends
<1>8. IsRoot(E, d)
    BY <1>2, <1>6 DEF IsRoot
<1>9. \A x \in Dentries : D[x].live => x # d /\ E[x] = D[x]
    BY <1>4, <1>6
<1> QED
    BY <1>1, <1>3, <1>5, <1>7, <1>8, <1>9

\* vfs_mount_root.
LEMMA MountRootPreserves ==
    ASSUME IInv, vfs_mount_root
    PROVE  IInv'
<1>1. PICK n : n = Now /\ Consistent(n) /\ Working(n, n) /\ n.mounts = mounts
    BY CallBegins
<1>2. PICK r, g, d, m : /\ r = fs_mount(n, "root") /\ g = r.s /\ d = r.d
                        /\ m = [mp |-> d, root |-> d, sb |-> "root"]
    OBVIOUS
<1>3. /\ r.err = "0" /\ n.mounts = <<>>
      /\ \/ Becomes(super_put(dentry_free(g, d), "root"))
         \/ Becomes([g EXCEPT !.mounts = <<m>>])
    BY <1>1, <1>2 DEF vfs_mount_root, vfs_mount, vfs_umount, fs_kill, Mounted
<1>4. Ends(n, n) /\ Sound(n) /\ "root" \in Sbs
    BY <1>1 DEF Working, Ends, Sbs
<1>5. FsMounted(n, r)
    BY <1>2, <1>4, FsMount
<1>6. Ends(n, g) /\ d \in Dentries /\ ~n.dent[d].live /\ IsRoot(g.dent, d)
    BY <1>2, <1>3, <1>4, <1>5, MountedEnds
<1>7. CASE Becomes(super_put(dentry_free(g, d), "root"))
    <2>1. PICK h, t : h = dentry_free(g, d) /\ t = super_put(h, "root")
        OBVIOUS
    <2>2. g.dent[d].live
        BY <1>6 DEF IsRoot
    <2>3. Ends(n, h)
        BY <1>6, <2>1, <2>2, Gone
    <2>4. Sound(t) /\ t.dent = h.dent /\ t.mounts = h.mounts /\ t.files = h.files
        BY <1>4, <2>1, <2>3, SuperPutIs DEF Ends
    <2>5. Ends(n, t)
        BY <2>3, <2>4 DEF Ends
    <2> QED
        BY <1>1, <1>7, <2>1, <2>5, CallEnds
<1>8. CASE Becomes([g EXCEPT !.mounts = <<m>>])
    <2>1. Consistent(g)
        BY <1>1, <1>6, ConsistentEnds
    <2>2. m \in MountSet /\ m.mp = d /\ m.root = d
        BY <1>2, <1>4, <1>6 DEF MountSet
    <2>3. Placed(g.dent, d) /\ g.dent[d].parent = d
        BY <1>6 DEF IsRoot, Placed
    <2>4. PICK L, t : L = <<m>> \o g.mounts /\ t = [g EXCEPT !.mounts = L]
        OBVIOUS
    <2>5. Consistent(t)
        BY <1>6, <2>1, <2>2, <2>3, <2>4, ConsistentMount
    <2>6. L = <<m>>
        BY <1>3, <1>6, <2>4 DEF Ends
    <2>7. Now' = t
        BY <1>8, <2>4, <2>5, <2>6, BecomesIs DEF Consistent
    <2> QED
        BY <2>5, <2>7 DEF IInv
<1> QED
    BY <1>3, <1>7, <1>8

\* vfs_mount_to, with each of its ways out.
LEMMA MountToPreserves ==
    ASSUME IInv, NEW p \in Seq(Components), vfs_mount_to(p)
    PROVE  IInv'
<1>1. PICK n : n = Now /\ Consistent(n) /\ RootsOk(n) /\ Working(n, n) /\ n.mounts = mounts
    BY CallBegins
<1>2. n.mounts # <<>>
    BY <1>1 DEF vfs_mount_to, Mounted
<1>3. PICK l, r : l = vfs_path_lookup(n, p) /\ r = fs_mount(l.s, "other")
    OBVIOUS
<1>4. Looked(n, l)
    BY <1>1, <1>2, <1>3, PathLookup
<1>5. PICK s, d, g, x : s = l.s /\ d = l.d /\ g = r.s /\ x = r.d
    OBVIOUS
<1>6. Working(n, s) /\ Ends(n, s) /\ Sound(s) /\ "other" \in Sbs
    BY <1>4, <1>5 DEF Looked, Working, Ends, Sbs
<1>7. FsMounted(s, r)
    BY <1>3, <1>5, <1>6, FsMount
<1>8. \/ l.err # "0" /\ Becomes(s)
      \/ l.err = "0" /\ Becomes(dentry_put(s, d))
      \/ l.err = "0" /\ r.err # "0" /\ Becomes(dentry_put(g, d))
      \/ /\ l.err = "0" /\ r.err = "0"
         /\ Becomes(dentry_put(super_put(dentry_free(g, x), "other"), d))
      \/ /\ l.err = "0" /\ r.err = "0"
         /\ Becomes([g EXCEPT !.mounts = <<[mp |-> d, root |-> x, sb |-> "other"]>> \o @])
    BY <1>1, <1>3, <1>5 DEF vfs_mount_to, mount_at, vfs_mount, vfs_umount, fs_kill
<1>9. CASE l.err # "0" /\ Becomes(s)
    BY <1>1, <1>6, <1>9, CallEnds
<1>10. CASE l.err = "0" /\ Becomes(dentry_put(s, d))
    <2>1. PICK t : t = dentry_put(s, d)
        OBVIOUS
    <2>2. Ends(n, t)
        BY <1>4, <1>5, <1>10, <2>1, LookedThenPut
    <2> QED
        BY <1>1, <1>10, <2>1, <2>2, CallEnds
<1>11. CASE l.err = "0" /\ r.err # "0" /\ Becomes(dentry_put(g, d))
    <2>1. Reached(n.dent, s.dent, d)
        BY <1>4, <1>5, <1>11 DEF Looked
    <2>2. Sound(g) /\ g.dent = s.dent /\ g.mounts = s.mounts /\ g.files = s.files
        BY <1>5, <1>7, <1>11 DEF FsMounted
    <2>3. Ends(n, g) /\ Reached(n.dent, g.dent, d)
        BY <1>6, <2>1, <2>2, WorkingAside
    <2>4. PICK t : t = dentry_put(g, d)
        OBVIOUS
    <2>5. Recounting(n, g, t, d)
        BY <2>3, <2>4, WorkingPut
    <2> QED
        BY <1>1, <1>11, <2>4, <2>5, CallEnds DEF Recounting
<1>12. ASSUME l.err = "0", r.err = "0"
       PROVE  /\ Reached(n.dent, s.dent, d) /\ Reached(n.dent, g.dent, d) /\ x # d
              /\ Ends(n, g) /\ x \in Dentries /\ ~n.dent[x].live /\ IsRoot(g.dent, x)
              /\ Placed(g.dent, d)
    <2>1. Reached(n.dent, s.dent, d) /\ d \in Dentries
        BY <1>4, <1>5, <1>12 DEF Looked, Reached
    <2>2. /\ Ends(n, g) /\ x \in Dentries /\ ~n.dent[x].live /\ IsRoot(g.dent, x)
          /\ \A y : Reached(n.dent, s.dent, y) =>
                Reached(n.dent, g.dent, y) /\ y # x /\ g.dent[y] = s.dent[y]
        BY <1>5, <1>6, <1>7, <1>12, MountedEnds
    <2>3. PICK C, D, E : C = n.dent /\ D = s.dent /\ E = g.dent
        OBVIOUS
    <2>4. Reached(C, D, D[d].parent)
        BY <1>6, <2>1, <2>3, ReachedParent DEF Working, Ends
    <2>5. E[d] = D[d] /\ Reached(C, E, D[d].parent) /\ Reached(C, E, d)
        BY <2>1, <2>2, <2>3, <2>4
    <2>6. Placed(E, d)
        BY <2>5 DEF Placed, Reached
    <2> QED
        BY <2>1, <2>2, <2>3, <2>6
<1>13. CASE /\ l.err = "0" /\ r.err = "0"
            /\ Becomes(dentry_put(super_put(dentry_free(g, x), "other"), d))
    <2>1. PICK h, v, t : h = dentry_free(g, x) /\ v = super_put(h, "other") /\ t = dentry_put(v, d)
        OBVIOUS
    <2>2. g.dent[x].live
        BY <1>12, <1>13 DEF IsRoot
    <2>3. /\ Ends(n, h) /\ \A y : Reached(n.dent, g.dent, y) /\ y # x => Reached(n.dent, h.dent, y)
        BY <1>12, <1>13, <2>1, <2>2, Gone
    <2>4. Reached(n.dent, h.dent, d) /\ Sound(h)
        BY <1>12, <1>13, <2>3 DEF Ends
    <2>5. Sound(v) /\ v.dent = h.dent /\ v.mounts = h.mounts /\ v.files = h.files
        BY <1>6, <2>1, <2>4, SuperPutIs
    <2>6. Ends(n, v) /\ Reached(n.dent, v.dent, d)
        BY <2>3, <2>4, <2>5, WorkingAside
    <2>7. Recounting(n, v, t, d)
        BY <2>1, <2>6, WorkingPut
    <2> QED
        BY <1>1, <1>13, <2>1, <2>7, CallEnds DEF Recounting
<1>14. CASE /\ l.err = "0" /\ r.err = "0"
            /\ Becomes([g EXCEPT !.mounts = <<[mp |-> d, root |-> x, sb |-> "other"]>> \o @])
    <2>1. PICK m, L, t : /\ m = [mp |-> d, root |-> x, sb |-> "other"]
                         /\ L = <<m>> \o g.mounts /\ t = [g EXCEPT !.mounts = L]
        OBVIOUS
    <2>2. m \in MountSet /\ m.mp = d /\ m.root = x
        BY <1>6, <1>12, <1>14, <2>1 DEF MountSet, Reached
    <2>3. Consistent(g)
        BY <1>1, <1>12, <1>14, ConsistentEnds
    <2>4. ASSUME NEW f \in g.files, f.d = d PROVE g.dent[f.d].parent = f.d
        <3>1. n.dent[d].live
            BY <1>1, <1>12, <1>14, <2>4 DEF Ends, Consistent, Anchored, Placed
        <3>2. n.dent[d].parent = d /\ d \in Dentries
            BY <1>12, <1>14, <3>1 DEF Reached, IsRoot
        <3> QED
            BY <1>12, <1>14, <2>4, <3>1, <3>2 DEF Ends, Kept
    <2>5. Consistent(t)
        BY <1>12, <1>14, <2>1, <2>2, <2>3, <2>4, ConsistentMount
    <2>6. Becomes(t)
        BY <1>14, <2>1
    <2>7. Now' = t
        BY <2>5, <2>6, BecomesIs DEF Consistent
    <2> QED
        BY <2>5, <2>7 DEF IInv
<1> QED
    BY <1>8, <1>9, <1>10, <1>11, <1>13, <1>14
-----------------------------------------------------------------------------
(* The theorems. *)

\* vfs_init: no dentry, no inode, no mount, no open file.
LEMMA InitIInv == Init => IInv
<1> SUFFICES ASSUME Init PROVE IInv
    OBVIOUS
<1>1. PICK n : n = Now
    OBVIOUS
<1>2. /\ n.dent = [d \in Dentries |-> NoDentry] /\ n.ht = <<>> /\ n.iref = [i \in Inos |-> 0]
      /\ n.entry = Disk /\ n.dirs = DiskDirs /\ n.s_count = [sb \in Sbs |-> 0]
      /\ n.mounts = <<>> /\ n.files = {}
    BY <1>1 DEF Init, Now, dentry_init, hashtable_init, inode_init
<1>3. NoDentry \in Dentry /\ ~NoDentry.live
    BY DEF NoDentry, Dentry, Components
<1>4. n.dent \in [Dentries -> Dentry] /\ \A d \in Dentries : n.dent[d] = NoDentry
    BY <1>2, <1>3
<1>5. DOMAIN n.ht = {} /\ n.ht \in Tables
    <2>1. PICK H : H = n.ht /\ H = <<>>
        BY <1>2
    <2>2. DOMAIN H = {} /\ H \in [DOMAIN H -> Dentries]
        BY <2>1
    <2> QED
        BY <2>1, <2>2, TableShape
<1>6. n.iref \in [Inos -> Nat] /\ \A i \in Inos : n.iref[i] = 0
    BY <1>2
<1>7. \A i \in Inos : Cardinality(Users(n.dent, i)) = 0
    <2>1. \A i \in Inos : Users(n.dent, i) = {}
        BY <1>3, <1>4 DEF Users
    <2> QED
        BY <2>1, FS_EmptySet
<1>8. Tree(n.dent, n.ht, n.iref)
    BY <1>3, <1>4, <1>5, <1>6, <1>7 DEF Tree
<1>9. /\ n.entry \in SUBSET (Inos \X Names \X Inos) /\ n.dirs \in SUBSET Inos
      /\ n.s_count \in [Sbs -> Int] /\ n.mounts \in Seq(MountSet)
      /\ n.files \in SUBSET [d : Dentries, ino : Inos]
    BY <1>2, VfsAssumption DEF VfsAssumption
<1>10. n \in State
    <2>1. n = [dent |-> n.dent, ht |-> n.ht, iref |-> n.iref, entry |-> n.entry, dirs |-> n.dirs,
               s_count |-> n.s_count, mounts |-> n.mounts, files |-> n.files]
        BY <1>1 DEF Now
    <2> QED
        BY <1>4, <1>5, <1>6, <1>9, <2>1 DEF State, MountSet
<1>11. Range(n.mounts) = {}
    BY <1>2 DEF Range
<1>12. Anchored(n) /\ Counted(n)
    BY <1>2, <1>11 DEF Anchored, Counted
<1> QED
    BY <1>1, <1>8, <1>10, <1>12 DEF IInv, Consistent

\* Every call of the virtual file system.
LEMMA NextIInv == IInv /\ [Next]_vars => IInv'
<1> SUFFICES ASSUME IInv, [Next]_vars PROVE IInv'
    OBVIOUS
<1>0. Paths \cup NewPaths \cup Targets \subseteq Seq(Components)
    BY VfsAssumption DEF VfsAssumption
<1>1. CASE vfs_mount_root
    BY <1>1, MountRootPreserves
<1>2. ASSUME NEW p \in Targets, vfs_mount_to(p) PROVE IInv'
    BY <1>0, <1>2, MountToPreserves
<1>3. ASSUME NEW k \in DOMAIN mounts, vfs_mount_put(k) PROVE IInv'
    BY <1>3, MountPutPreserves
<1>4. ASSUME NEW p \in NewPaths, vfs_create(p) \/ vfs_mkdir(p) PROVE IInv'
    BY <1>0, <1>4, MadePreserves DEF vfs_create, vfs_mkdir
<1>5. ASSUME NEW p \in Paths, vfs_open(p, FALSE) PROVE IInv'
    BY <1>5, OpenPreserves
<1>6. ASSUME NEW p \in NewPaths, vfs_open(p, TRUE) PROVE IInv'
    BY <1>6, OpenPreserves
<1>7. ASSUME NEW f \in files, vfs_close(f) PROVE IInv'
    BY <1>7, ClosePreserves
<1>8. ASSUME NEW p \in Paths, vfs_unlink(p) \/ vfs_rmdir(p) PROVE IInv'
    BY <1>0, <1>8, RemovedPreserves DEF vfs_unlink, vfs_rmdir
<1>9. ASSUME NEW p \in Paths, vfs_statfs(p) PROVE IInv'
    BY <1>0, <1>9, StatfsPreserves
<1>10. ASSUME NEW p \in Paths, NEW q \in NewPaths, vfs_rename(p, q) PROVE IInv'
    BY <1>0, <1>10, RenamePreserves
<1>11. CASE UNCHANGED vars
    BY <1>11 DEF vars, IInv, Now
<1> QED
    BY <1>1, <1>2, <1>3, <1>4, <1>5, <1>6, <1>7, <1>8, <1>9, <1>10, <1>11 DEF Next

\* Between calls, whatever they are and however they fail, live dentries have
\* parents and inodes, the hash table has live dentries under their keys, mounts
\* lead to roots and open files to the inodes they were opened on.
THEOREM VfsInvariance == Spec => []IInv
<1>1. Init => IInv
    BY InitIInv
<1>2. IInv /\ [Next]_vars => IInv'
    BY NextIInv
<1> QED
    BY <1>1, <1>2, PTL DEF Spec

\* i_refcnt is the number of live dentries that name the inode, through every
\* failure of dentry_alloc, dentry_insert, i_op and kmalloc: no inode is freed
\* under a dentry, none outlives its last one.
THEOREM InodesCounted == Spec => []InodeRefsExact
<1>1. IInv => InodeRefsExact
    <2> SUFFICES ASSUME IInv PROVE InodeRefsExact
        OBVIOUS
    <2>1. Tree(dent, ht, iref)
        BY DEF IInv, Consistent, Now
    <2>2. \A i \in Inos : iref[i] = Cardinality(Users(dent, i))
        BY <2>1 DEF Tree
    <2> QED
        BY <2>2 DEF InodeRefsExact, Users
<1> QED
    BY <1>1, VfsInvariance, PTL

\* NoDangling without the counts of open files.
NothingFreed ==
    /\ \A k \in DOMAIN ht : Live(ht[k])
    /\ \A m \in Range(mounts) : Live(m.mp) /\ Live(dent[m.mp].parent) /\ Live(m.root)
    /\ \A f \in files : /\ Live(f.d) /\ Live(dent[f.d].parent)
                        /\ dent[f.d].ino = f.ino /\ iref[f.ino] > 0

\* The invariant has it all.
LEMMA IInvFreesNothing == IInv => NothingFreed
<1> SUFFICES ASSUME IInv PROVE NothingFreed
    OBVIOUS
<1>1. PICK n : n = Now /\ Consistent(n)
    BY DEF IInv
<1>2. /\ n.dent = dent /\ n.ht = ht /\ n.iref = iref /\ n.mounts = mounts /\ n.files = files
      /\ n \in State /\ Tree(dent, ht, iref) /\ Anchored(n)
    BY <1>1 DEF Now, Consistent
<1>3. \A k \in DOMAIN ht : Live(ht[k])
    <2>1. ht \in [DOMAIN ht -> Dentries] /\ \A k \in DOMAIN ht : dent[ht[k]].live
        BY <1>2, TableShape DEF Tree
    <2> QED
        BY <2>1 DEF Live
<1>4. \A x \in Dentries : dent[x].live => dent[x].parent \in Dentries /\ dent[x].ino \in Inos
    <2>1. /\ dent \in [Dentries -> Dentry]
          /\ \A x \in Dentries : dent[x].live => dent[x].parent # 0 /\ dent[x].ino # 0
        BY <1>2 DEF Tree
    <2>2. \A x \in Dentries : dent[x].parent \in Dentries \cup {0} /\ dent[x].ino \in Inos \cup {0}
        BY <2>1 DEF Dentry
    <2> QED
        BY <2>1, <2>2
<1>5. \A x \in Dentries : Placed(dent, x) => Live(x) /\ Live(dent[x].parent)
    BY <1>4 DEF Placed, Live
<1>6. \A m \in Range(mounts) : Live(m.mp) /\ Live(dent[m.mp].parent) /\ Live(m.root)
    <2>1. \A m \in Range(mounts) : m.mp \in Dentries /\ m.root \in Dentries
        BY <1>2, MountShape
    <2>2. \A m \in Range(mounts) : IsRoot(dent, m.root) /\ Placed(dent, m.mp)
        BY <1>2 DEF Anchored
    <2> QED
        BY <1>5, <2>1, <2>2 DEF IsRoot, Live
<1>7. \A i \in Inos : \A x \in Dentries : dent[x].live /\ dent[x].ino = i => iref[i] > 0
    <2> SUFFICES ASSUME NEW i \in Inos, NEW x \in Dentries, dent[x].live, dent[x].ino = i
                 PROVE  iref[i] > 0
        OBVIOUS
    <2>1. PICK U : U = Users(dent, i)
        OBVIOUS
    <2>2. x \in U /\ IsFiniteSet(U) /\ Cardinality(U) \in Nat
        BY <2>1, UsersFinite DEF Users
    <2>3. Cardinality(U) # 0
        BY <2>2, FS_EmptySet
    <2>4. iref[i] = Cardinality(U)
        BY <1>2, <2>1 DEF Tree
    <2> QED
        BY <2>2, <2>3, <2>4
<1>8. ASSUME NEW f \in files
      PROVE  Live(f.d) /\ Live(dent[f.d].parent) /\ dent[f.d].ino = f.ino /\ iref[f.ino] > 0
    <2>1. f.d \in Dentries /\ f.ino \in Inos
        BY <1>2, <1>8 DEF State
    <2>2. Placed(dent, f.d) /\ dent[f.d].ino = f.ino
        BY <1>2, <1>8 DEF Anchored
    <2>3. iref[f.ino] > 0
        BY <1>7, <2>1, <2>2 DEF Placed
    <2> QED
        BY <1>5, <2>1, <2>2, <2>3
<1> QED
    BY <1>3, <1>6, <1>8 DEF NothingFreed

\* What the kernel will follow again is not freed, whatever the paths: the
\* dentries of the hash table, of mounts and of open files with their parents,
\* and an open file keeps its inode through unlink, rmdir and rename.
THEOREM NothingFollowedIsFreed == Spec => []NothingFreed
<1> QED
    BY IInvFreesNothing, VfsInvariance, PTL

\* And d_refcnt counts open files, as long as ".." only ends the paths it is in:
\* before the end of a path vfs_path_walk puts a parent it has no reference to,
\* and the count of that dentry may wrap.
THEOREM NothingDangles ==
    ASSUME SafeWalks
    PROVE  Spec => []NoDangling
<1>1. IInv => NoDangling
    <2> SUFFICES ASSUME IInv PROVE NoDangling
        OBVIOUS
    <2>1. NothingFreed
        BY IInvFreesNothing
    <2>2. \A f \in files : dent[f.d].parent # f.d => dent[f.d].ref > 0
        BY DEF IInv, Consistent, Counted, Now
    <2> QED
        BY <2>1, <2>2 DEF NothingFreed, NoDangling
<1> QED
    BY <1>1, VfsInvariance, PTL

\* dentry_lookup searches a bucket that hashtable_insert never uses for the key.
NeverHits == \A d \in Dentries, n \in Components : dentry_lookup(Now, d, n) = 0

\* The dentry cache never hits: every component of every path is looked up on disk
\* and gets a dentry of its own.
THEOREM CacheNeverHits == Spec => []NeverHits
<1>1. IInv => NeverHits
    <2> SUFFICES ASSUME IInv, NEW d \in Dentries, NEW n \in Components
                 PROVE  dentry_lookup(Now, d, n) = 0
        BY DEF NeverHits
    <2>1. PICK s : s = Now /\ Sound(s)
        BY DEF IInv, Consistent, Sound
    <2>2. dentry_lookup(s, d, n) = 0
        BY <2>1, LookupMisses
    <2> QED
        BY <2>1, <2>2
<1> QED
    BY <1>1, VfsInvariance, PTL
===============================================================================
