---------------------------- MODULE Files_proofs -----------------------------
(* Proofs about open files and descriptor tables, for any number of threads, *)
(* files and inodes and any limits of the tables.                            *)
EXTENDS Files, FiniteSetTheorems, WellFoundedInduction, TLAPS

-----------------------------------------------------------------------------
(* Counts. *)

LEMMA CountFacts ==
    /\ Dec(0) = RefMod - 1
    /\ \A n \in 1..(RefMod - 1) : Dec(n) = n - 1
    /\ \A n \in 0..(RefMod - 2) : (n + 1) % RefMod = n + 1
    /\ RefMod \in Nat /\ Cardinality(Threads) \in Nat /\ Cardinality(Threads) + 2 < RefMod - 1
<1>1. /\ RefMod \in Nat /\ Cardinality(Threads) \in Nat /\ Cardinality(Threads) + 2 < RefMod - 1
      /\ RefMod > 3
    BY FilesAssumption, FS_CardinalityType DEF FilesAssumption
<1>2. Dec(0) = RefMod - 1
    BY <1>1 DEF Dec
<1>3. \A n \in 1..(RefMod - 1) : Dec(n) = n - 1
    BY <1>1 DEF Dec
<1>4. \A n \in 0..(RefMod - 2) : (n + 1) % RefMod = n + 1
    BY <1>1
<1> QED
    BY <1>1, <1>2, <1>3, <1>4

\* A reference for each of the two tables.
LEMMA TwoTables ==
    ASSUME NEW S \in SUBSET Tables
    PROVE  Cardinality(S) = (IF "own" \in S THEN 1 ELSE 0) + (IF "copy" \in S THEN 1 ELSE 0)
<1>1. Cardinality({}) = 0 /\ IsFiniteSet({})
    BY FS_EmptySet
<1>2. Cardinality({"own"}) = 1 /\ Cardinality({"copy"}) = 1 /\ IsFiniteSet({"own"})
    BY FS_Singleton
<1>3. {"own", "copy"} = {"own"} \cup {"copy"} /\ "copy" \notin {"own"}
    OBVIOUS
<1>4. Cardinality({"own"} \cup {"copy"}) = 2
    BY <1>2, <1>3, FS_AddElement
<1>5. S = {} \/ S = {"own"} \/ S = {"copy"} \/ S = {"own", "copy"}
    BY DEF Tables
<1> QED
    BY <1>1, <1>2, <1>3, <1>4, <1>5

\* The threads that have a file in hand, and how they change when one of them
\* takes it up or gives it up.
LEMMA HolderCount ==
    ASSUME NEW g \in [Threads -> Pool \cup {None}], NEW f \in Pool
    PROVE  /\ Cardinality({d \in Threads : g[d] = f}) \in 0..Cardinality(Threads)
           /\ Cardinality({d \in Threads : g[d] = f}) = 0 <=> \A d \in Threads : g[d] # f
           /\ \A c \in Threads : g[c] # f =>
                Cardinality({d \in Threads : [g EXCEPT ![c] = f][d] = f})
                    = Cardinality({d \in Threads : g[d] = f}) + 1
           /\ \A c \in Threads : g[c] = f =>
                Cardinality({d \in Threads : [g EXCEPT ![c] = None][d] = f})
                    = Cardinality({d \in Threads : g[d] = f}) - 1
<1> DEFINE S == {d \in Threads : g[d] = f}
<1>0. IsFiniteSet(Threads) /\ None # f
    BY FilesAssumption DEF FilesAssumption
<1>1. IsFiniteSet(S) /\ Cardinality(S) <= Cardinality(Threads)
    BY <1>0, FS_Subset
<1>2. Cardinality(S) \in Nat /\ Cardinality(Threads) \in Nat
    BY <1>0, <1>1, FS_CardinalityType
<1>3. Cardinality(S) = 0 <=> S = {}
    BY <1>1, FS_EmptySet
<1>4. \A c \in Threads : g[c] # f => Cardinality(S \cup {c}) = Cardinality(S) + 1
    BY <1>1, FS_AddElement
<1>5. \A c \in Threads : g[c] = f => Cardinality(S \ {c}) = Cardinality(S) - 1
    BY <1>1, FS_RemoveElement
<1>6. \A c \in Threads : {d \in Threads : [g EXCEPT ![c] = f][d] = f} = S \cup {c}
    OBVIOUS
<1>7. \A c \in Threads : {d \in Threads : [g EXCEPT ![c] = None][d] = f} = S \ {c}
    BY <1>0
<1> QED
    BY <1>1, <1>2, <1>3, <1>4, <1>5, <1>6, <1>7

In(t, f) == IF f \in InTable(t) THEN 1 ELSE 0

LEMMA RefsIs ==
    ASSUME TypeOK, NEW f \in Pool
    PROVE  /\ Refs(f) = In("own", f) + In("copy", f) + Cardinality(Holders(f))
           /\ Cardinality(Holders(f)) \in 0..Cardinality(Threads)
           /\ Cardinality(Holders(f)) = 0 <=> \A d \in Threads : fp[d] # f
           /\ Refs(f) \in 0..(Cardinality(Threads) + 2)
<1>1. fp \in [Threads -> Pool \cup {None}] /\ Cardinality(Threads) \in Nat
    BY CountFacts DEF TypeOK
<1>2. /\ Cardinality(Holders(f)) \in 0..Cardinality(Threads)
      /\ Cardinality(Holders(f)) = 0 <=> \A d \in Threads : fp[d] # f
    BY <1>1, HolderCount DEF Holders
<1>3. {t \in Tables : f \in InTable(t)} \in SUBSET Tables
    OBVIOUS
<1>4. Cardinality({t \in Tables : f \in InTable(t)}) = In("own", f) + In("copy", f)
    BY <1>3, TwoTables DEF In, Tables
<1> QED
    BY <1>1, <1>2, <1>4 DEF Refs, In

LEMMA RefsIsAfter ==
    ASSUME TypeOK', NEW f \in Pool
    PROVE  /\ Refs(f)' = In("own", f)' + In("copy", f)' + Cardinality(Holders(f)')
           /\ Cardinality(Holders(f)') \in 0..Cardinality(Threads)
           /\ Cardinality(Holders(f)') = 0 <=> \A d \in Threads : fp'[d] # f
           /\ Refs(f)' \in 0..(Cardinality(Threads) + 2)
<1>1. fp' \in [Threads -> Pool \cup {None}] /\ Cardinality(Threads) \in Nat
    BY CountFacts DEF TypeOK
<1>2. /\ Cardinality(Holders(f)') \in 0..Cardinality(Threads)
      /\ Cardinality(Holders(f)') = 0 <=> \A d \in Threads : fp'[d] # f
    BY <1>1, HolderCount DEF Holders
<1>3. {t \in Tables : f \in InTable(t)'} \in SUBSET Tables
    OBVIOUS
<1>4. Cardinality({t \in Tables : f \in InTable(t)'}) = In("own", f)' + In("copy", f)'
    BY <1>3, TwoTables DEF In, Tables
<1> QED
    BY <1>1, <1>2, <1>4 DEF Refs, In
-----------------------------------------------------------------------------
(* Operations on one struct file. *)

\* file_put of a file that is referred to: the last reference wraps the count.
LEMMA PutRecord ==
    ASSUME NEW r \in Record, r.ref \in 1..(RefMod - 1), NEW m, m = file_put(r)
    PROVE  /\ m \in Record /\ m.live = r.live /\ m.ino = r.ino
           /\ m.ref = IF r.ref = 1 THEN RefMod - 1 ELSE r.ref - 1
<1>1. Dec(r.ref) = r.ref - 1 /\ Dec(0) = RefMod - 1 /\ RefMod \in Nat /\ r.ref \in Nat
    BY CountFacts
<1>2. CASE r.ref = 1
    <2>1. m = [r EXCEPT !.ref = RefMod - 1]
        BY <1>1, <1>2 DEF file_put
    <2>2. m = [live |-> r.live, ref |-> RefMod - 1, ino |-> r.ino, pos |-> r.pos, append |-> r.append]
        BY <2>1 DEF Record
    <2> QED
        BY <1>1, <1>2, <2>2 DEF Record
<1>3. CASE r.ref # 1
    <2>1. m = [r EXCEPT !.ref = r.ref - 1]
        BY <1>1, <1>3 DEF file_put
    <2>2. m = [live |-> r.live, ref |-> r.ref - 1, ino |-> r.ino, pos |-> r.pos, append |-> r.append]
        BY <2>1 DEF Record
    <2> QED
        BY <1>1, <1>3, <2>2 DEF Record
<1> QED
    BY <1>2, <1>3

LEMMA GetRecord ==
    ASSUME NEW r \in Record, r.ref \in 0..(RefMod - 2), NEW m, m = file_get(r)
    PROVE  m \in Record /\ m.live = r.live /\ m.ino = r.ino /\ m.ref = r.ref + 1
<1>1. (r.ref + 1) % RefMod = r.ref + 1 /\ RefMod \in Nat
    BY CountFacts
<1>2. m = [r EXCEPT !.ref = r.ref + 1]
    BY <1>1 DEF file_get
<1>3. m = [live |-> r.live, ref |-> r.ref + 1, ino |-> r.ino, pos |-> r.pos, append |-> r.append]
    BY <1>2 DEF Record
<1> QED
    BY <1>1, <1>3 DEF Record

\* file_read, file_lseek and file_write move the position.
LEMMA MoveRecord ==
    ASSUME NEW r \in Record, NEW p \in Nat, NEW m, m = [r EXCEPT !.pos = p]
    PROVE  /\ m \in Record /\ m.live = r.live /\ m.ino = r.ino /\ m.ref = r.ref
           /\ r # Closed /\ r.live => m # Closed
<1>1. m = [live |-> r.live, ref |-> r.ref, ino |-> r.ino, pos |-> p, append |-> r.append]
    BY DEF Record
<1> QED
    BY <1>1 DEF Record, Closed

LEMMA NewRecord ==
    ASSUME NEW n \in Inodes, NEW a \in BOOLEAN
    PROVE  /\ Closed \in Record /\ ~Closed.live
           /\ Opened(n, a) \in Record /\ Opened(n, a).live /\ Opened(n, a).ref = 1 /\ Opened(n, a).ino = n
BY CountFacts DEF Closed, Opened, Record
-----------------------------------------------------------------------------
\* Steps that leave inodes, locks and the code under a lock alone.
LEMMA SizesKept ==
    ASSUME IInv, UNCHANGED <<f_lock, i_size, written, opens, pos>>,
           \A f \in Pool : file'[f].live = file[f].live /\ file'[f].ino = file[f].ino,
           \A d \in Threads : /\ pc[d] \in Writing => pc'[d] = pc[d] /\ fp'[d] = fp[d]
                              /\ pc[d] \notin Writing => pc'[d] \notin Writing
    PROVE  Locked' /\ Sizes'
<1>1. Locked'
    BY DEF IInv, Locked
<1>2. \A n \in Inodes : Growing(n)' = Growing(n)
    <2>1. \A d \in Threads : pc[d] = "size" => fp[d] \in Pool
        BY DEF IInv, TypeOK, InHand
    <2>2. \A d \in Threads : pc'[d] = "size" <=> pc[d] = "size"
        BY DEF Writing
    <2>3. \A d \in Threads : pc[d] = "size" => fp'[d] = fp[d] /\ file'[fp[d]].ino = file[fp[d]].ino
        BY <2>1 DEF Writing
    <2> QED
        BY <2>2, <2>3 DEF Growing
<1>3. Sizes'
    BY <1>2 DEF IInv, Sizes
<1> QED
    BY <1>1, <1>3

\* Counted, for a file whose references and record do not change.
LEMMA Uncounted ==
    ASSUME IInv, NEW f \in Pool, Refs(f)' = Refs(f), file'[f] = file[f]
    PROVE  /\ file'[f].live => file'[f].ino \in Inodes
           /\ Refs(f)' > 0 => file'[f].live /\ file'[f].ref = Refs(f)'
           /\ Refs(f)' = 0 => file'[f] = Closed \/ (file'[f].live /\ file'[f].ref = RefMod - 1)
BY DEF IInv, Counted

\* A file that a thread has in hand or a table holds is live and counted.
LEMMA Referred ==
    ASSUME IInv, NEW f \in Pool,
           (\E d \in Threads : fp[d] = f) \/ (\E t \in Tables : f \in InTable(t))
    PROVE  /\ file[f].live /\ file[f].ref = Refs(f) /\ Refs(f) \in 1..(Cardinality(Threads) + 2)
           /\ file[f] \in Record /\ file[f].ino \in Inodes
<1>1. TypeOK /\ file[f] \in Record
    BY DEF IInv, TypeOK
<1>2. /\ Refs(f) = In("own", f) + In("copy", f) + Cardinality(Holders(f))
      /\ Cardinality(Holders(f)) \in 0..Cardinality(Threads)
      /\ Cardinality(Holders(f)) = 0 <=> \A d \in Threads : fp[d] # f
      /\ Refs(f) \in 0..(Cardinality(Threads) + 2)
    BY <1>1, RefsIs
<1>3. Refs(f) > 0 /\ Cardinality(Threads) \in Nat
    BY <1>2, CountFacts DEF In, Tables
<1> QED
    BY <1>1, <1>2, <1>3 DEF IInv, Counted

\* The references of a file that neither the thread nor a table takes or drops.
LEMMA SameRefs ==
    ASSUME IInv, TypeOK', NEW f \in Pool, Holders(f)' = Holders(f),
           \A t \in Tables : f \in InTable(t)' <=> f \in InTable(t)
    PROVE  Refs(f)' = Refs(f)
<1>1. {t \in Tables : f \in InTable(t)'} = {t \in Tables : f \in InTable(t)}
    OBVIOUS
<1> QED
    BY <1>1 DEF Refs

LEMMA InitIInv == Init => IInv
<1> SUFFICES ASSUME Init PROVE IInv
    OBVIOUS
<1> USE FilesAssumption DEF FilesAssumption
<1>1. Closed \in Record /\ ~Closed.live
    BY CountFacts DEF Closed, Record
<1>2. /\ fds["own"] = fd_table_alloc /\ fds["copy"] = NoTable /\ fds = [t \in Tables |-> fds[t]]
    BY DEF Init, Tables
<1>3. TypeOK
    <2>1. fds["own"] \in Table(NR_OPEN_DEFAULT) /\ NR_OPEN_DEFAULT \in NR_OPEN_DEFAULT..NR_OPEN_MAX
        BY <1>2 DEF fd_table_alloc, Table
    <2> QED
        BY <1>1, <1>2, <2>1 DEF Init, TypeOK, Labels
<1>4. \A t \in Tables : Filled(t) = {} /\ InTable(t) = {}
    BY <1>2 DEF Filled, InTable, fd_table_alloc, NoTable, Tables
<1>5. Slots /\ InHand
    BY <1>4 DEF Init, Slots, InHand
<1>6. Counted
    <2>1. \A f \in Pool : Refs(f) = 0
        <3> SUFFICES ASSUME NEW f \in Pool PROVE Refs(f) = 0
            OBVIOUS
        <3>1. /\ Refs(f) = In("own", f) + In("copy", f) + Cardinality(Holders(f))
              /\ Cardinality(Holders(f)) = 0 <=> \A d \in Threads : fp[d] # f
            BY <1>3, RefsIs
        <3>2. \A d \in Threads : fp[d] # f
            BY DEF Init
        <3> QED
            BY <1>4, <3>1, <3>2 DEF In, Tables
    <2> QED
        BY <1>1, <2>1 DEF Counted, Init
<1>7. Locked
    BY DEF Init, Locked, Writing
<1>8. Sizes
    BY <1>1 DEF Init, Sizes, Growing
<1> QED
    BY <1>3, <1>5, <1>6, <1>7, <1>8 DEF IInv

\* file_open takes a struct file that nothing refers to.
LEMMA OpenStep ==
    ASSUME IInv, NEW c \in Threads, file_open(c)
    PROVE  IInv'
<1> USE FilesAssumption DEF FilesAssumption
<1>1. PICK f \in Pool, n \in Inodes, a \in BOOLEAN :
         /\ ~file[f].live /\ file' = [file EXCEPT ![f] = Opened(n, a)] /\ fp' = [fp EXCEPT ![c] = f]
         /\ opens' = [opens EXCEPT ![n] = IF @ = 2 THEN 2 ELSE @ + 1]
    BY DEF file_open
<1>2. /\ pc[c] = "idle" /\ pc' = [pc EXCEPT ![c] = "alloc"]
      /\ UNCHANGED <<f_lock, fds, i_size, written, fd, pos>>
    BY DEF file_open, Goto, locals
<1>3. /\ file \in [Pool -> Record] /\ fp \in [Threads -> Pool \cup {None}] /\ pc \in [Threads -> Labels]
      /\ opens \in [Inodes -> 0..2] /\ fp[c] = None
    BY <1>2 DEF IInv, TypeOK, InHand
<1>4. PICK r : r = Opened(n, a)
    OBVIOUS
<1>5. r \in Record /\ r.live /\ r.ref = 1 /\ r.ino = n
    BY <1>4, NewRecord
<1>6. /\ file' \in [Pool -> Record] /\ file'[f] = r /\ \A g \in Pool : g # f => file'[g] = file[g]
    BY <1>1, <1>3, <1>4, <1>5
<1>7. /\ fp' \in [Threads -> Pool \cup {None}] /\ fp'[c] = f /\ \A d \in Threads : d # c => fp'[d] = fp[d]
      /\ pc' \in [Threads -> Labels] /\ pc'[c] = "alloc" /\ \A d \in Threads : d # c => pc'[d] = pc[d]
    BY <1>1, <1>2, <1>3 DEF Labels
<1>8. /\ \A d \in Threads : fp[d] # f
      /\ \A t \in Tables : f \notin InTable(t)
    BY <1>1, Referred
<1>9. TypeOK'
    <2>1. opens' \in [Inodes -> 0..2]
        BY <1>1, <1>3
    <2> QED
        BY <1>2, <1>6, <1>7, <2>1 DEF IInv, TypeOK
<1>10. \A t \in Tables : InTable(t)' = InTable(t) /\ Filled(t)' = Filled(t)
    BY <1>2 DEF InTable, Filled
<1>11. Slots'
    <2>1. \A t \in Tables : \A i, j \in Filled(t)' : fds'[t][i] = fds'[t][j] => i = j
        BY <1>2, <1>10 DEF IInv, Slots
    <2>2. \A d \in Threads : pc'[d] = "install" => fd'[d] \in DOMAIN fds'["own"]
        BY <1>2, <1>7 DEF IInv, Slots
    <2>3. ASSUME NEW d \in Threads, pc'[d] \in {"alloc", "install", "close"}
          PROVE  /\ \A t \in Tables : fp'[d] \notin InTable(t)'
                 /\ \A e \in Threads : fp'[e] = fp'[d] => e = d
        <3>1. CASE d = c
            BY <1>7, <1>8, <1>10, <3>1
        <3>2. CASE d # c
            BY <1>7, <1>8, <1>10, <2>3, <3>2 DEF IInv, Slots
        <3> QED
            BY <3>1, <3>2
    <2> QED
        BY <2>1, <2>2, <2>3 DEF Slots
<1>12. InHand'
    BY <1>7 DEF IInv, InHand
<1>13. Counted'
    <2> SUFFICES ASSUME NEW g \in Pool
                 PROVE  /\ file'[g].live => file'[g].ino \in Inodes
                        /\ Refs(g)' > 0 => file'[g].live /\ file'[g].ref = Refs(g)'
                        /\ Refs(g)' = 0 => file'[g] = Closed \/ (file'[g].live /\ file'[g].ref = RefMod - 1)
        BY DEF Counted
    <2>1. CASE g = f
        <3>1. Cardinality(Holders(f)') = Cardinality(Holders(f)) + 1
            BY <1>1, <1>3, HolderCount DEF Holders
        <3>2. Cardinality(Holders(f)) = 0
            BY <1>8, RefsIs DEF IInv
        <3>3. Refs(f)' = In("own", f)' + In("copy", f)' + Cardinality(Holders(f)')
            BY <1>9, RefsIsAfter
        <3>4. In("own", f)' = 0 /\ In("copy", f)' = 0
            BY <1>8, <1>10 DEF In, Tables
        <3> QED
            BY <1>5, <1>6, <2>1, <3>1, <3>2, <3>3, <3>4
    <2>2. CASE g # f
        <3>1. Holders(g)' = Holders(g)
            BY <1>3, <1>7, <2>2 DEF Holders
        <3>2. Refs(g)' = Refs(g)
            BY <1>9, <1>10, <3>1, SameRefs
        <3> QED
            BY <1>6, <2>2, <3>2, Uncounted
    <2> QED
        BY <2>1, <2>2
<1>14. Locked'
    BY <1>2, <1>7, <1>8 DEF IInv, Locked, Writing
<1>15. Sizes'
    <2> SUFFICES ASSUME NEW m \in Inodes, opens'[m] # 2
                 PROVE  /\ \A g, h \in Pool :
                             file'[g].live /\ file'[h].live /\ file'[g].ino = m /\ file'[h].ino = m => g = h
                        /\ opens'[m] = 0 => \A g \in Pool : ~(file'[g].live /\ file'[g].ino = m)
                        /\ Growing(m)' = {} => i_size'[m] = written'[m]
                        /\ \A d \in Growing(m)' : pos'[d] = written'[m]
        BY DEF Sizes
    <2>1. Growing(m)' = Growing(m)
        <3>1. \A d \in Threads : pc[d] = "size" => fp[d] \in Pool /\ fp[d] # f
            BY <1>3, <1>8 DEF IInv, InHand
        <3> QED
            BY <1>2, <1>6, <1>7, <3>1 DEF Growing
    <2>2. opens[m] # 2
        BY <1>1, <1>3
    <2>3. CASE m = n
        <3>1. opens[m] = 0 /\ opens'[m] = 1
            BY <1>1, <1>3, <2>2, <2>3
        <3> QED
            BY <1>2, <1>6, <2>1, <2>2, <3>1 DEF IInv, Sizes
    <2>4. CASE m # n
        <3>1. opens'[m] = opens[m]
            BY <1>1, <1>3, <2>4
        <3> QED
            BY <1>2, <1>5, <1>6, <2>1, <2>2, <2>4, <3>1 DEF IInv, Sizes
    <2> QED
        BY <2>3, <2>4
<1> QED
    BY <1>9, <1>11, <1>12, <1>13, <1>14, <1>15 DEF IInv

\* A nonempty set of naturals has a least element.
LEMMA LeastExists ==
    ASSUME NEW T, T \subseteq Nat, T # {}
    PROVE  \E x \in T : \A y \in T : x <= y
<1>1. \E x \in T : \A y \in T : ~(<<y, x>> \in OpToRel(<, Nat))
    BY NatLessThanWellFounded, WFMin
<1>2. \E x \in T : \A y \in T : ~(y < x)
    BY <1>1 DEF OpToRel
<1> QED
    BY <1>2

\* A table that is full grows to a longer one with the same files.
LEMMA GrownTable ==
    ASSUME NEW n \in Nat \ {0}, fds["own"] \in Table(n), n < NR_OPEN_MAX
    PROVE  \E m \in Nat : /\ n <= m /\ m <= NR_OPEN_MAX /\ grown("own") \in Table(m)
                          /\ Cardinality(DOMAIN grown("own")) \div 2 \in 0..(m - 1)
                          /\ \A i \in 0..(m - 1) : grown("own")[i] = IF i < n THEN fds["own"][i] ELSE None
<1>0. NR_OPEN_MAX \in Nat
    BY FilesAssumption DEF FilesAssumption
<1>1. MaxFds("own") = n
    BY FS_Interval DEF MaxFds, Table
<1>2. PICK m : m = IF 2 * n > NR_OPEN_MAX THEN NR_OPEN_MAX ELSE 2 * n
    OBVIOUS
<1>3. m \in Nat /\ n <= m /\ m <= NR_OPEN_MAX /\ m > 0
    BY <1>0, <1>2
<1>4. grown("own") = [i \in 0..(m - 1) |-> IF i < n THEN fds["own"][i] ELSE None]
    BY <1>1, <1>2 DEF grown
<1>5. grown("own") \in Table(m)
    BY <1>3, <1>4 DEF Table
<1>6. DOMAIN grown("own") = 0..(m - 1) /\ Cardinality(0..(m - 1)) = m
    BY <1>3, <1>4, FS_Interval
<1>7. m \div 2 \in 0..(m - 1)
    BY <1>3
<1> QED
    BY <1>3, <1>4, <1>5, <1>6, <1>7

\* fd_alloc: the slot it returns exists, and growing the table moves no file.
LEMMA AllocStep ==
    ASSUME IInv, NEW c \in Threads, fd_alloc(c)
    PROVE  IInv'
<1> USE FilesAssumption DEF FilesAssumption
<1>1. /\ pc[c] = "alloc" /\ UNCHANGED <<file, f_lock, fp, pos, i_size, written, opens>>
      /\ pc \in [Threads -> Labels] /\ fd \in [Threads -> Nat]
    BY DEF fd_alloc, data, IInv, TypeOK
<1>2. PICK n \in NR_OPEN_DEFAULT..NR_OPEN_MAX : fds["own"] \in Table(n)
    BY DEF IInv, TypeOK
<1>3. n \in Nat \ {0} /\ DOMAIN fds["own"] = 0..(n - 1) /\ MaxFds("own") = n
    <2>0. NR_OPEN_DEFAULT \in Nat \ {0} /\ NR_OPEN_MAX \in Nat
        OBVIOUS
    <2>1. n \in Nat \ {0}
        BY <2>0
    <2>2. DOMAIN fds["own"] = 0..(n - 1)
        BY <1>2 DEF Table
    <2> QED
        BY <2>1, <2>2, FS_Interval DEF MaxFds
<1>4. fds = [t \in Tables |-> fds[t]] /\ DOMAIN fds = Tables
    BY DEF IInv, TypeOK
\* The table, the slot and the label after the step.
<1>5. \E k \in NR_OPEN_DEFAULT..NR_OPEN_MAX :
         /\ n <= k /\ fds' = [fds EXCEPT !["own"] = fds'["own"]] /\ fds'["own"] \in Table(k)
         /\ \A i \in 0..(k - 1) : fds'["own"][i] = IF i < n THEN fds["own"][i] ELSE None
         /\ \/ pc' = [pc EXCEPT ![c] = "close"] /\ fd' = fd
            \/ \E x \in 0..(k - 1) : pc' = [pc EXCEPT ![c] = "install"] /\ fd' = [fd EXCEPT ![c] = x]
    <2>1. CASE fds' = fds
        <3>1. \/ pc' = [pc EXCEPT ![c] = "close"] /\ fd' = fd
              \/ \E x \in 0..(n - 1) : pc' = [pc EXCEPT ![c] = "install"] /\ fd' = [fd EXCEPT ![c] = x]
            <4>1. CASE /\ FreeSlots("own") # {} /\ Goto(c, "install")
                       /\ fd' = [fd EXCEPT ![c] = CHOOSE i \in FreeSlots("own") :
                                                     \A j \in FreeSlots("own") : i <= j]
                <5>1. FreeSlots("own") \subseteq 0..(n - 1) /\ FreeSlots("own") \subseteq Nat
                    BY <1>3 DEF FreeSlots
                <5>2. \E i \in FreeSlots("own") : \A j \in FreeSlots("own") : i <= j
                    BY <4>1, <5>1, LeastExists
                <5>3. (CHOOSE i \in FreeSlots("own") : \A j \in FreeSlots("own") : i <= j) \in FreeSlots("own")
                    BY <5>2
                <5> QED
                    BY <4>1, <5>1, <5>3 DEF Goto
            <4>2. CASE MaxFds("own") < NR_OPEN_MAX /\ fds' = [fds EXCEPT !["own"] = grown("own")]
                       /\ fd' = [fd EXCEPT ![c] = Cardinality(DOMAIN grown("own")) \div 2]
                       /\ Goto(c, "install")
                <5>1. fds["own"] = grown("own")
                    BY <1>4, <2>1, <4>2 DEF Tables
                <5>2. PICK k \in Nat : /\ grown("own") \in Table(k)
                                       /\ Cardinality(DOMAIN grown("own")) \div 2 \in 0..(k - 1)
                    BY <1>2, <1>3, <4>2, GrownTable
                <5>3. 0..(k - 1) = 0..(n - 1)
                    BY <1>3, <5>1, <5>2 DEF Table
                <5> QED
                    BY <4>2, <5>2, <5>3 DEF Goto
            <4> QED
                BY <4>1, <4>2 DEF fd_alloc, Goto
        <3>2. \A i \in 0..(n - 1) : fds'["own"][i] = IF i < n THEN fds["own"][i] ELSE None
            BY <1>3, <2>1
        <3>3. fds' = [fds EXCEPT !["own"] = fds'["own"]]
            BY <1>4, <2>1
        <3> QED
            BY <1>2, <1>3, <2>1, <3>1, <3>2, <3>3
    <2>2. CASE MaxFds("own") < NR_OPEN_MAX /\ fds' = [fds EXCEPT !["own"] = grown("own")]
               /\ fd' = [fd EXCEPT ![c] = Cardinality(DOMAIN grown("own")) \div 2]
               /\ Goto(c, "install")
        <3>1. PICK k \in Nat : /\ n <= k /\ k <= NR_OPEN_MAX /\ grown("own") \in Table(k)
                               /\ Cardinality(DOMAIN grown("own")) \div 2 \in 0..(k - 1)
                               /\ \A i \in 0..(k - 1) : grown("own")[i] = IF i < n THEN fds["own"][i] ELSE None
            BY <1>2, <1>3, <2>2, GrownTable
        <3>2. fds'["own"] = grown("own")
            BY <1>4, <2>2 DEF Tables
        <3>3. k \in NR_OPEN_DEFAULT..NR_OPEN_MAX
            BY <1>2, <3>1
        <3> QED
            BY <2>2, <3>1, <3>2, <3>3 DEF Goto
    <2> QED
        BY <2>1, <2>2 DEF fd_alloc
<1>6. PICK k \in NR_OPEN_DEFAULT..NR_OPEN_MAX :
         /\ n <= k /\ fds' = [fds EXCEPT !["own"] = fds'["own"]] /\ fds'["own"] \in Table(k)
         /\ \A i \in 0..(k - 1) : fds'["own"][i] = IF i < n THEN fds["own"][i] ELSE None
         /\ \/ pc' = [pc EXCEPT ![c] = "close"] /\ fd' = fd
            \/ \E x \in 0..(k - 1) : pc' = [pc EXCEPT ![c] = "install"] /\ fd' = [fd EXCEPT ![c] = x]
    BY <1>5
<1>7. /\ fds' = [t \in Tables |-> fds'[t]] /\ fds'["copy"] = fds["copy"] /\ k \in Nat
      /\ DOMAIN fds'["own"] = 0..(k - 1) /\ 0..(n - 1) \subseteq 0..(k - 1)
    BY <1>3, <1>4, <1>6 DEF Table, Tables
<1>8. \A t \in Tables : Filled(t)' = Filled(t) /\ \A i \in Filled(t) : fds'[t][i] = fds[t][i]
    <2>1. Filled("copy")' = Filled("copy") /\ \A i \in Filled("copy") : fds'["copy"][i] = fds["copy"][i]
        BY <1>7 DEF Filled
    <2>2. \A i \in 0..(k - 1) : i < n <=> i \in 0..(n - 1)
        BY <1>3, <1>7
    <2>3. Filled("own")' = Filled("own") /\ \A i \in Filled("own") : fds'["own"][i] = fds["own"][i]
        BY <1>3, <1>6, <1>7, <2>2 DEF Filled
    <2> QED
        BY <2>1, <2>3 DEF Tables
<1>9. \A t \in Tables : InTable(t)' = InTable(t)
    BY <1>8 DEF InTable
<1>10. /\ pc'[c] \in {"install", "close"} /\ \A d \in Threads : d # c => pc'[d] = pc[d] /\ fd'[d] = fd[d]
       /\ pc' \in [Threads -> Labels] /\ fd' \in [Threads -> Nat]
       /\ pc'[c] = "install" => fd'[c] \in 0..(k - 1)
    BY <1>1, <1>6 DEF Labels
<1>11. TypeOK'
    BY <1>1, <1>6, <1>7, <1>10 DEF IInv, TypeOK
<1>12. Slots'
    <2>1. \A t \in Tables : \A i, j \in Filled(t)' : fds'[t][i] = fds'[t][j] => i = j
        BY <1>8 DEF IInv, Slots
    <2>2. \A d \in Threads : pc'[d] = "install" => fd'[d] \in DOMAIN fds'["own"]
        BY <1>3, <1>7, <1>10 DEF IInv, Slots
    <2>3. \A d \in Threads : pc'[d] \in {"alloc", "install", "close"} => pc[d] \in {"alloc", "install", "close"}
        BY <1>1, <1>10
    <2>4. \A d \in Threads : pc'[d] \in {"alloc", "install", "close"} =>
             /\ \A t \in Tables : fp'[d] \notin InTable(t)'
             /\ \A e \in Threads : fp'[e] = fp'[d] => e = d
        BY <1>1, <1>9, <2>3 DEF IInv, Slots
    <2> QED
        BY <2>1, <2>2, <2>4 DEF Slots
<1>13. InHand'
    BY <1>1, <1>10 DEF IInv, InHand
<1>14. Counted'
    <2>1. \A f \in Pool : Holders(f)' = Holders(f)
        BY <1>1 DEF Holders
    <2>2. \A f \in Pool : Refs(f)' = Refs(f)
        BY <1>9, <1>11, <2>1, SameRefs
    <2> QED
        BY <1>1, <2>2 DEF IInv, Counted
<1>15. Locked' /\ Sizes'
    <2>1. \A d \in Threads : /\ pc[d] \in Writing => pc'[d] = pc[d] /\ fp'[d] = fp[d]
                             /\ pc[d] \notin Writing => pc'[d] \notin Writing
        BY <1>1, <1>10 DEF Writing
    <2> QED
        BY <1>1, <2>1, SizesKept
<1> QED
    BY <1>11, <1>12, <1>13, <1>14, <1>15 DEF IInv

\* fd_install: the reference of the thread becomes that of the table.
LEMMA InstallStep ==
    ASSUME IInv, NEW c \in Threads, fd_install(c)
    PROVE  IInv'
<1> USE FilesAssumption DEF FilesAssumption
<1>1. /\ pc[c] = "install" /\ UNCHANGED <<file, f_lock, pos, i_size, written, opens>>
      /\ fd' = [fd EXCEPT ![c] = 0] /\ fd[c] \in DOMAIN fds["own"]
      /\ pc \in [Threads -> Labels] /\ fd \in [Threads -> Nat] /\ fp \in [Threads -> Pool \cup {None}]
    BY DEF fd_install, data, IInv, TypeOK, Slots
<1>2. PICK n \in NR_OPEN_DEFAULT..NR_OPEN_MAX : fds["own"] \in Table(n)
    BY DEF IInv, TypeOK
<1>3. fds = [t \in Tables |-> fds[t]] /\ DOMAIN fds = Tables /\ DOMAIN fds["own"] = 0..(n - 1)
    BY <1>2 DEF IInv, TypeOK, Table
<1>4. fd' \in [Threads -> Nat] /\ \A d \in Threads : d # c => fd'[d] = fd[d]
    BY <1>1
<1>5. CASE fds["own"][fd[c]] # None
    <2>1. pc' = [pc EXCEPT ![c] = "close"] /\ UNCHANGED <<fds, fp>>
        BY <1>5 DEF fd_install, Goto
    <2>2. pc' \in [Threads -> Labels] /\ pc'[c] = "close" /\ \A d \in Threads : d # c => pc'[d] = pc[d]
        BY <1>1, <2>1 DEF Labels
    <2>3. TypeOK'
        BY <1>1, <1>4, <2>1, <2>2 DEF IInv, TypeOK
    <2>4. \A t \in Tables : Filled(t)' = Filled(t) /\ InTable(t)' = InTable(t)
        BY <2>1 DEF Filled, InTable
    <2>5. Slots'
        BY <1>1, <1>4, <2>1, <2>2, <2>4 DEF IInv, Slots
    <2>6. InHand'
        BY <1>1, <2>1, <2>2 DEF IInv, InHand
    <2>7. Counted'
        <3>1. \A f \in Pool : Holders(f)' = Holders(f)
            BY <2>1 DEF Holders
        <3>2. \A f \in Pool : Refs(f)' = Refs(f)
            BY <2>3, <2>4, <3>1, SameRefs
        <3> QED
            BY <1>1, <3>2 DEF IInv, Counted
    <2>8. Locked' /\ Sizes'
        <3>1. \A d \in Threads : /\ pc[d] \in Writing => pc'[d] = pc[d] /\ fp'[d] = fp[d]
                                 /\ pc[d] \notin Writing => pc'[d] \notin Writing
            BY <1>1, <2>1, <2>2 DEF Writing
        <3> QED
            BY <1>1, <3>1, SizesKept
    <2> QED
        BY <2>3, <2>5, <2>6, <2>7, <2>8 DEF IInv
<1>6. CASE fds["own"][fd[c]] = None
    <2>0. PICK f, x : f = fp[c] /\ x = fd[c]
        OBVIOUS
    <2>1. /\ fds' = [fds EXCEPT !["own"][x] = f] /\ fp' = [fp EXCEPT ![c] = None]
          /\ pc' = [pc EXCEPT ![c] = "idle"]
        BY <1>6, <2>0 DEF fd_install, Goto
    <2>2. f \in Pool /\ (\A t \in Tables : f \notin InTable(t)) /\ \A d \in Threads : fp[d] = f => d = c
        BY <1>1, <2>0 DEF IInv, TypeOK, InHand, Slots
    <2>3. /\ pc' \in [Threads -> Labels] /\ pc'[c] = "idle" /\ \A d \in Threads : d # c => pc'[d] = pc[d]
          /\ fp' \in [Threads -> Pool \cup {None}] /\ fp'[c] = None
          /\ \A d \in Threads : d # c => fp'[d] = fp[d]
        BY <1>1, <2>1 DEF Labels
    <2>4. /\ fds' = [t \in Tables |-> fds'[t]] /\ fds'["copy"] = fds["copy"]
          /\ fds'["own"] = [fds["own"] EXCEPT ![x] = f]
        BY <1>3, <2>1 DEF Tables
    <2>5. /\ fds'["own"] \in Table(n) /\ fds'["own"][x] = f /\ x \in DOMAIN fds["own"]
          /\ \A i \in DOMAIN fds["own"] : i # x => fds'["own"][i] = fds["own"][i]
          /\ DOMAIN fds'["own"] = DOMAIN fds["own"]
        BY <1>1, <1>2, <1>3, <2>0, <2>2, <2>4 DEF Table
    <2>6. TypeOK'
        BY <1>1, <1>4, <2>3, <2>4, <2>5 DEF IInv, TypeOK
    <2>7. /\ Filled("own")' = Filled("own") \cup {x} /\ x \notin Filled("own")
          /\ InTable("own")' = InTable("own") \cup {f}
          /\ Filled("copy")' = Filled("copy") /\ InTable("copy")' = InTable("copy")
        <3>1. Filled("copy")' = Filled("copy") /\ InTable("copy")' = InTable("copy")
            BY <2>4 DEF Filled, InTable
        <3>2. Filled("own")' = Filled("own") \cup {x} /\ x \notin Filled("own")
            BY <1>6, <2>0, <2>2, <2>5 DEF Filled
        <3>3. InTable("own")' = InTable("own") \cup {f}
            BY <2>5, <3>2 DEF InTable, Filled
        <3> QED
            BY <3>1, <3>2, <3>3
    <2>8. Slots'
        <3>1. \A i, j \in Filled("own")' : fds'["own"][i] = fds'["own"][j] => i = j
            <4>1. \A i \in Filled("own") : i \in DOMAIN fds["own"] /\ fds["own"][i] # f
                BY <2>2 DEF InTable, Filled, Tables
            <4> QED
                BY <2>5, <2>7, <4>1 DEF IInv, Slots, Tables
        <3>2. \A i, j \in Filled("copy")' : fds'["copy"][i] = fds'["copy"][j] => i = j
            BY <2>4, <2>7 DEF IInv, Slots, Tables
        <3>3. \A d \in Threads : pc'[d] = "install" => fd'[d] \in DOMAIN fds'["own"]
            BY <1>4, <2>3, <2>5 DEF IInv, Slots
        <3>4. ASSUME NEW d \in Threads, pc'[d] \in {"alloc", "install", "close"}
              PROVE  /\ \A t \in Tables : fp'[d] \notin InTable(t)'
                     /\ \A e \in Threads : fp'[e] = fp'[d] => e = d
            <4>1. d # c /\ pc[d] \in {"alloc", "install", "close"} /\ fp'[d] = fp[d] /\ fp[d] # None
                BY <2>3, <3>4 DEF IInv, InHand
            <4>2. fp[d] # f /\ (\A t \in Tables : fp[d] \notin InTable(t)) /\ \A e \in Threads : fp[e] = fp[d] => e = d
                BY <2>2, <4>1 DEF IInv, Slots
            <4> QED
                BY <2>3, <2>7, <4>1, <4>2 DEF Tables
        <3> QED
            BY <3>1, <3>2, <3>3, <3>4 DEF Slots, Tables
    <2>9. InHand'
        BY <2>3 DEF IInv, InHand
    <2>10. Counted'
        <3>1. Refs(f)' = Refs(f)
            <4>1. Refs(f)' = In("own", f)' + In("copy", f)' + Cardinality(Holders(f)')
                BY <2>2, <2>6, RefsIsAfter
            <4>2. /\ Refs(f) = In("own", f) + In("copy", f) + Cardinality(Holders(f))
                  /\ Cardinality(Holders(f)) \in 0..Cardinality(Threads)
                BY <2>2, RefsIs DEF IInv
            <4>3. Cardinality(Holders(f)') = Cardinality(Holders(f)) - 1
                BY <1>1, <2>0, <2>1, <2>2, HolderCount DEF Holders
            <4>4. In("own", f) = 0 /\ In("copy", f) = 0 /\ In("own", f)' = 1 /\ In("copy", f)' = 0
                BY <2>2, <2>7 DEF In, Tables
            <4>5. Cardinality(Threads) \in Nat
                BY CountFacts
            <4> QED
                BY <4>1, <4>2, <4>3, <4>4, <4>5
        <3>2. ASSUME NEW g \in Pool, g # f
              PROVE  Refs(g)' = Refs(g)
            <4>1. Holders(g)' = Holders(g)
                BY <2>0, <2>3, <3>2 DEF Holders
            <4>2. \A t \in Tables : g \in InTable(t)' <=> g \in InTable(t)
                BY <2>7, <3>2 DEF Tables
            <4> QED
                BY <2>6, <4>1, <4>2, SameRefs
        <3> QED
            BY <1>1, <3>1, <3>2 DEF IInv, Counted
    <2>11. Locked' /\ Sizes'
        <3>1. \A d \in Threads : /\ pc[d] \in Writing => pc'[d] = pc[d] /\ fp'[d] = fp[d]
                                 /\ pc[d] \notin Writing => pc'[d] \notin Writing
            BY <1>1, <2>3 DEF Writing
        <3> QED
            BY <1>1, <3>1, SizesKept
    <2> QED
        BY <2>6, <2>8, <2>9, <2>10, <2>11 DEF IInv
<1> QED
    BY <1>5, <1>6

\* vfs_close of a file that could not be installed frees it.
LEMMA CloseStep ==
    ASSUME IInv, NEW c \in Threads, vfs_close(c)
    PROVE  IInv'
<1> USE FilesAssumption DEF FilesAssumption
<1>0. PICK f : f = fp[c]
    OBVIOUS
<1>1. /\ pc[c] = "close" /\ UNCHANGED <<f_lock, fds, fd, pos, i_size, written, opens>>
      /\ file' = [file EXCEPT ![f] = file_close(file[f])] /\ fp' = [fp EXCEPT ![c] = None]
      /\ pc' = [pc EXCEPT ![c] = "idle"]
    BY <1>0 DEF vfs_close, Goto, locals, data
<1>2. /\ file \in [Pool -> Record] /\ fp \in [Threads -> Pool \cup {None}] /\ pc \in [Threads -> Labels]
      /\ f \in Pool /\ (\A t \in Tables : f \notin InTable(t)) /\ \A d \in Threads : fp[d] = f => d = c
    BY <1>0, <1>1 DEF IInv, TypeOK, InHand, Slots
<1>3. /\ pc' \in [Threads -> Labels] /\ pc'[c] = "idle" /\ \A d \in Threads : d # c => pc'[d] = pc[d]
      /\ fp' \in [Threads -> Pool \cup {None}] /\ fp'[c] = None /\ \A d \in Threads : d # c => fp'[d] = fp[d]
    BY <1>1, <1>2 DEF Labels
<1>4. Refs(f) = 1
    <2>1. Holders(f) = {c}
        BY <1>0, <1>2 DEF Holders
    <2>2. Cardinality(Holders(f)) = 1
        BY <2>1, FS_Singleton
    <2>3. In("own", f) = 0 /\ In("copy", f) = 0
        BY <1>2 DEF In, Tables
    <2>4. Refs(f) = In("own", f) + In("copy", f) + Cardinality(Holders(f))
        BY <1>2, RefsIs DEF IInv
    <2> QED
        BY <2>2, <2>3, <2>4
<1>5. file[f].ref = 1 /\ Dec(1) = 0 /\ Closed \in Record /\ ~Closed.live
    <2>1. file[f].ref = 1
        BY <1>0, <1>2, <1>4, Referred
    <2>2. Dec(1) = 0
        BY CountFacts
    <2> QED
        BY <2>1, <2>2, CountFacts DEF Closed, Record
<1>6. /\ file' \in [Pool -> Record] /\ file'[f] = Closed /\ \A g \in Pool : g # f => file'[g] = file[g]
    BY <1>1, <1>2, <1>5 DEF file_close
<1>7. TypeOK'
    BY <1>1, <1>3, <1>6 DEF IInv, TypeOK
<1>8. \A t \in Tables : InTable(t)' = InTable(t) /\ Filled(t)' = Filled(t)
    BY <1>1 DEF InTable, Filled
<1>9. Slots'
    <2>1. \A t \in Tables : \A i, j \in Filled(t)' : fds'[t][i] = fds'[t][j] => i = j
        BY <1>1, <1>8 DEF IInv, Slots
    <2>2. \A d \in Threads : pc'[d] = "install" => fd'[d] \in DOMAIN fds'["own"]
        BY <1>1, <1>3 DEF IInv, Slots
    <2>3. ASSUME NEW d \in Threads, pc'[d] \in {"alloc", "install", "close"}
          PROVE  /\ \A t \in Tables : fp'[d] \notin InTable(t)'
                 /\ \A e \in Threads : fp'[e] = fp'[d] => e = d
        BY <1>3, <1>8, <2>3 DEF IInv, Slots, InHand
    <2> QED
        BY <2>1, <2>2, <2>3 DEF Slots
<1>10. InHand'
    BY <1>3 DEF IInv, InHand
<1>11. Counted'
    <2>1. Refs(f)' = 0
        <3>1. /\ Refs(f)' = In("own", f)' + In("copy", f)' + Cardinality(Holders(f)')
              /\ Cardinality(Holders(f)') = 0 <=> \A d \in Threads : fp'[d] # f
            BY <1>2, <1>7, RefsIsAfter
        <3>2. In("own", f)' = 0 /\ In("copy", f)' = 0
            BY <1>2, <1>8 DEF In, Tables
        <3>3. \A d \in Threads : fp'[d] # f
            BY <1>2, <1>3
        <3> QED
            BY <3>1, <3>2, <3>3
    <2>2. ASSUME NEW g \in Pool, g # f
          PROVE  Refs(g)' = Refs(g)
        <3>1. Holders(g)' = Holders(g)
            BY <1>0, <1>3, <2>2 DEF Holders
        <3> QED
            BY <1>7, <1>8, <3>1, SameRefs
    <2> QED
        BY <1>5, <1>6, <2>1, <2>2 DEF IInv, Counted
<1>12. Locked'
    BY <1>0, <1>1, <1>2, <1>3 DEF IInv, Locked, Writing
<1>13. Sizes'
    <2>1. \A n \in Inodes : Growing(n)' = Growing(n)
        <3>1. \A d \in Threads : pc[d] = "size" => fp[d] \in Pool /\ fp[d] # f /\ d # c
            BY <1>1, <1>2 DEF IInv, InHand
        <3> QED
            BY <1>1, <1>3, <1>6, <3>1 DEF Growing
    <2> QED
        BY <1>1, <1>5, <1>6, <2>1 DEF IInv, Sizes
<1> QED
    BY <1>7, <1>9, <1>10, <1>11, <1>12, <1>13 DEF IInv

\* fd_get takes up a file of the table.
LEMMA GetStep ==
    ASSUME IInv, NEW c \in Threads, fd_get(c)
    PROVE  IInv'
<1> USE FilesAssumption DEF FilesAssumption
<1>0. PICK x \in Filled("own") : /\ file' = [file EXCEPT ![fds["own"][x]] = file_get(@)]
                                 /\ fp' = [fp EXCEPT ![c] = fds["own"][x]]
    BY DEF fd_get
<1>1. PICK f : f = fds["own"][x]
    OBVIOUS
<1>2. /\ pc[c] = "idle" /\ UNCHANGED <<f_lock, fds, fd, pos, i_size, written, opens>>
      /\ file' = [file EXCEPT ![f] = file_get(file[f])] /\ fp' = [fp EXCEPT ![c] = f]
      /\ pc' = [pc EXCEPT ![c] = "io"]
    BY <1>0, <1>1 DEF fd_get, Goto, locals, data
<1>3. /\ file \in [Pool -> Record] /\ fp \in [Threads -> Pool \cup {None}] /\ pc \in [Threads -> Labels]
      /\ fp[c] = None
    BY <1>2 DEF IInv, TypeOK, InHand
<1>4. f \in Pool /\ f \in InTable("own") /\ f # None
    BY <1>1 DEF IInv, TypeOK, Table, Filled, InTable
<1>5. /\ file[f].live /\ file[f].ref = Refs(f) /\ Refs(f) \in 1..(Cardinality(Threads) + 2)
      /\ file[f] \in Record /\ file[f].ino \in Inodes /\ file[f].ref \in 0..(RefMod - 2)
    <2>1. /\ file[f].live /\ file[f].ref = Refs(f) /\ Refs(f) \in 1..(Cardinality(Threads) + 2)
          /\ file[f] \in Record /\ file[f].ino \in Inodes
        BY <1>4, Referred DEF Tables
    <2> QED
        BY <2>1, CountFacts
<1>6. PICK r : r = file_get(file[f])
    OBVIOUS
<1>7. r \in Record /\ r.live = file[f].live /\ r.ino = file[f].ino /\ r.ref = file[f].ref + 1
    BY <1>5, <1>6, GetRecord
<1>8. file' \in [Pool -> Record] /\ file'[f] = r /\ \A g \in Pool : g # f => file'[g] = file[g]
    BY <1>2, <1>3, <1>4, <1>6, <1>7
<1>9. /\ pc' \in [Threads -> Labels] /\ pc'[c] = "io" /\ \A d \in Threads : d # c => pc'[d] = pc[d]
      /\ fp' \in [Threads -> Pool \cup {None}] /\ fp'[c] = f /\ \A d \in Threads : d # c => fp'[d] = fp[d]
    BY <1>2, <1>3, <1>4 DEF Labels
<1>10. TypeOK'
    BY <1>2, <1>8, <1>9 DEF IInv, TypeOK
<1>11. \A t \in Tables : InTable(t)' = InTable(t) /\ Filled(t)' = Filled(t)
    BY <1>2 DEF InTable, Filled
<1>12. Slots'
    <2>1. \A t \in Tables : \A i, j \in Filled(t)' : fds'[t][i] = fds'[t][j] => i = j
        BY <1>2, <1>11 DEF IInv, Slots
    <2>2. \A d \in Threads : pc'[d] = "install" => fd'[d] \in DOMAIN fds'["own"]
        BY <1>2, <1>9 DEF IInv, Slots
    <2>3. ASSUME NEW d \in Threads, pc'[d] \in {"alloc", "install", "close"}
          PROVE  /\ \A t \in Tables : fp'[d] \notin InTable(t)'
                 /\ \A e \in Threads : fp'[e] = fp'[d] => e = d
        <3>1. d # c /\ pc[d] \in {"alloc", "install", "close"} /\ fp'[d] = fp[d]
            BY <1>9, <2>3
        <3>2. fp[d] # f /\ (\A t \in Tables : fp[d] \notin InTable(t)) /\ \A e \in Threads : fp[e] = fp[d] => e = d
            BY <1>4, <3>1 DEF IInv, Slots, Tables
        <3> QED
            BY <1>9, <1>11, <3>1, <3>2
    <2> QED
        BY <2>1, <2>2, <2>3 DEF Slots
<1>13. InHand'
    BY <1>4, <1>9 DEF IInv, InHand
<1>14. Counted'
    <2>1. Refs(f)' = Refs(f) + 1
        <3>1. Refs(f)' = In("own", f)' + In("copy", f)' + Cardinality(Holders(f)')
            BY <1>4, <1>10, RefsIsAfter
        <3>2. /\ Refs(f) = In("own", f) + In("copy", f) + Cardinality(Holders(f))
              /\ Cardinality(Holders(f)) \in 0..Cardinality(Threads)
            BY <1>4, RefsIs DEF IInv
        <3>3. Cardinality(Holders(f)') = Cardinality(Holders(f)) + 1
            BY <1>2, <1>3, <1>4, HolderCount DEF Holders
        <3>4. In("own", f)' = In("own", f) /\ In("copy", f)' = In("copy", f)
            BY <1>11 DEF In, Tables
        <3>5. Cardinality(Threads) \in Nat
            BY CountFacts
        <3> QED
            BY <3>1, <3>2, <3>3, <3>4, <3>5 DEF In
    <2>2. ASSUME NEW g \in Pool, g # f
          PROVE  Refs(g)' = Refs(g)
        <3>1. Holders(g)' = Holders(g)
            BY <1>3, <1>9, <2>2 DEF Holders
        <3> QED
            BY <1>10, <1>11, <3>1, SameRefs
    <2>3. Refs(f)' > 0 /\ Refs(f)' # 0 /\ r.ref = Refs(f)'
        BY <1>5, <1>7, <2>1, CountFacts
    <2> QED
        BY <1>5, <1>7, <1>8, <2>2, <2>3 DEF IInv, Counted
<1>15. Locked' /\ Sizes'
    <2>1. \A d \in Threads : /\ pc[d] \in Writing => pc'[d] = pc[d] /\ fp'[d] = fp[d]
                             /\ pc[d] \notin Writing => pc'[d] \notin Writing
        BY <1>2, <1>9 DEF Writing
    <2>2. \A g \in Pool : file'[g].live = file[g].live /\ file'[g].ino = file[g].ino
        BY <1>7, <1>8
    <2> QED
        BY <1>2, <2>1, <2>2, SizesKept
<1> QED
    BY <1>10, <1>12, <1>13, <1>14, <1>15 DEF IInv

\* Counted, for a file that loses a reference by file_put.
LEMMA PutCounted ==
    ASSUME IInv, NEW f \in Pool, Refs(f) \in 1..(Cardinality(Threads) + 2), Refs(f)' = Refs(f) - 1,
           file'[f] = file_put(file[f])
    PROVE  /\ file'[f] \in Record /\ file'[f].live = file[f].live /\ file'[f].ino = file[f].ino
           /\ file'[f].live => file'[f].ino \in Inodes
           /\ Refs(f)' > 0 => file'[f].live /\ file'[f].ref = Refs(f)'
           /\ Refs(f)' = 0 => file'[f] = Closed \/ (file'[f].live /\ file'[f].ref = RefMod - 1)
<1>1. file[f] \in Record /\ file[f].live /\ file[f].ref = Refs(f) /\ file[f].ino \in Inodes
    BY CountFacts DEF IInv, TypeOK, Counted
<1>2. file[f].ref \in 1..(RefMod - 1)
    BY <1>1, CountFacts
<1>3. PICK m : m = file_put(file[f])
    OBVIOUS
<1>4. /\ m \in Record /\ m.live = file[f].live /\ m.ino = file[f].ino
      /\ m.ref = IF file[f].ref = 1 THEN RefMod - 1 ELSE file[f].ref - 1
    BY <1>1, <1>2, <1>3, PutRecord
<1> QED
    BY <1>1, <1>3, <1>4, CountFacts

\* file_put after an operation.
LEMMA PutStep ==
    ASSUME IInv, NEW c \in Threads, put(c)
    PROVE  IInv'
<1> USE FilesAssumption DEF FilesAssumption
<1>0. PICK f : f = fp[c]
    OBVIOUS
<1>1. /\ pc[c] \in {"io", "put"} /\ UNCHANGED <<f_lock, fds, fd, pos, i_size, written, opens>>
      /\ file' = [file EXCEPT ![f] = file_put(file[f])] /\ fp' = [fp EXCEPT ![c] = None]
      /\ pc' = [pc EXCEPT ![c] = "idle"]
    BY <1>0 DEF put, Goto, locals, data
<1>2. /\ file \in [Pool -> Record] /\ fp \in [Threads -> Pool \cup {None}] /\ pc \in [Threads -> Labels]
      /\ f \in Pool
    BY <1>0, <1>1 DEF IInv, TypeOK, InHand
<1>3. /\ pc' \in [Threads -> Labels] /\ pc'[c] = "idle" /\ \A d \in Threads : d # c => pc'[d] = pc[d]
      /\ fp' \in [Threads -> Pool \cup {None}] /\ fp'[c] = None /\ \A d \in Threads : d # c => fp'[d] = fp[d]
    BY <1>1, <1>2 DEF Labels
<1>4. Refs(f) \in 1..(Cardinality(Threads) + 2) /\ file[f].ref = Refs(f) /\ file[f] \in Record
    BY <1>0, <1>2, Referred
<1>5. /\ file'[f] = file_put(file[f]) /\ \A g \in Pool : g # f => file'[g] = file[g]
      /\ file' \in [Pool -> Record]
    <2>1. file[f].ref \in 1..(RefMod - 1)
        BY <1>4, CountFacts
    <2>2. file_put(file[f]) \in Record
        BY <1>4, <2>1, PutRecord
    <2> QED
        BY <1>1, <1>2, <2>2
<1>6. TypeOK'
    BY <1>1, <1>3, <1>5 DEF IInv, TypeOK
<1>7. \A t \in Tables : InTable(t)' = InTable(t) /\ Filled(t)' = Filled(t)
    BY <1>1 DEF InTable, Filled
<1>8. Slots'
    <2>1. \A t \in Tables : \A i, j \in Filled(t)' : fds'[t][i] = fds'[t][j] => i = j
        BY <1>1, <1>7 DEF IInv, Slots
    <2>2. \A d \in Threads : pc'[d] = "install" => fd'[d] \in DOMAIN fds'["own"]
        BY <1>1, <1>3 DEF IInv, Slots
    <2>3. ASSUME NEW d \in Threads, pc'[d] \in {"alloc", "install", "close"}
          PROVE  /\ \A t \in Tables : fp'[d] \notin InTable(t)'
                 /\ \A e \in Threads : fp'[e] = fp'[d] => e = d
        BY <1>3, <1>7, <2>3 DEF IInv, Slots, InHand
    <2> QED
        BY <2>1, <2>2, <2>3 DEF Slots
<1>9. InHand'
    BY <1>3 DEF IInv, InHand
<1>10. Refs(f)' = Refs(f) - 1
    <2>1. Refs(f)' = In("own", f)' + In("copy", f)' + Cardinality(Holders(f)')
        BY <1>2, <1>6, RefsIsAfter
    <2>2. /\ Refs(f) = In("own", f) + In("copy", f) + Cardinality(Holders(f))
          /\ Cardinality(Holders(f)) \in 0..Cardinality(Threads)
        BY <1>2, RefsIs DEF IInv
    <2>3. Cardinality(Holders(f)') = Cardinality(Holders(f)) - 1
        BY <1>0, <1>1, <1>2, HolderCount DEF Holders
    <2>4. In("own", f)' = In("own", f) /\ In("copy", f)' = In("copy", f)
        BY <1>7 DEF In, Tables
    <2>5. Cardinality(Threads) \in Nat
        BY CountFacts
    <2> QED
        BY <2>1, <2>2, <2>3, <2>4, <2>5 DEF In
<1>11. ASSUME NEW g \in Pool, g # f
       PROVE  Refs(g)' = Refs(g)
    <2>1. Holders(g)' = Holders(g)
        BY <1>0, <1>3, <1>11 DEF Holders
    <2> QED
        BY <1>6, <1>7, <2>1, SameRefs
<1>12. /\ file'[f] \in Record /\ file'[f].live = file[f].live /\ file'[f].ino = file[f].ino
       /\ file'[f].live => file'[f].ino \in Inodes
       /\ Refs(f)' > 0 => file'[f].live /\ file'[f].ref = Refs(f)'
       /\ Refs(f)' = 0 => file'[f] = Closed \/ (file'[f].live /\ file'[f].ref = RefMod - 1)
    BY <1>2, <1>4, <1>5, <1>10, PutCounted
<1>13. Counted'
    BY <1>5, <1>11, <1>12 DEF IInv, Counted
<1>14. Locked' /\ Sizes'
    <2>1. \A d \in Threads : /\ pc[d] \in Writing => pc'[d] = pc[d] /\ fp'[d] = fp[d]
                             /\ pc[d] \notin Writing => pc'[d] \notin Writing
        BY <1>1, <1>3 DEF Writing
    <2>2. \A g \in Pool : file'[g].live = file[g].live /\ file'[g].ino = file[g].ino
        BY <1>5, <1>12
    <2> QED
        BY <1>1, <2>1, <2>2, SizesKept
<1> QED
    BY <1>6, <1>8, <1>9, <1>13, <1>14 DEF IInv

\* fd_free empties the only slot of the table that has the file.
LEMMA FreeStep ==
    ASSUME IInv, NEW c \in Threads, fd_free(c)
    PROVE  IInv'
<1> USE FilesAssumption DEF FilesAssumption
<1>0. PICK x \in Filled("own") : /\ file' = [file EXCEPT ![fds["own"][x]] = file_put(@)]
                                 /\ fds' = [fds EXCEPT !["own"][x] = None]
    BY DEF fd_free
<1>1. PICK f : f = fds["own"][x]
    OBVIOUS
<1>2. /\ UNCHANGED <<f_lock, pc, fp, fd, pos, i_size, written, opens>>
      /\ file' = [file EXCEPT ![f] = file_put(file[f])]
    BY <1>0, <1>1 DEF fd_free, locals, data
<1>3. PICK n \in NR_OPEN_DEFAULT..NR_OPEN_MAX : fds["own"] \in Table(n)
    BY DEF IInv, TypeOK
<1>4. /\ fds = [t \in Tables |-> fds[t]] /\ DOMAIN fds = Tables /\ DOMAIN fds["own"] = 0..(n - 1)
      /\ x \in DOMAIN fds["own"]
    BY <1>3 DEF IInv, TypeOK, Table, Filled
<1>5. f \in Pool /\ f \in InTable("own") /\ f # None /\ file \in [Pool -> Record]
    BY <1>1 DEF IInv, TypeOK, Table, Filled, InTable
<1>6. /\ fds' = [t \in Tables |-> fds'[t]] /\ fds'["copy"] = fds["copy"]
      /\ fds'["own"] = [fds["own"] EXCEPT ![x] = None]
    BY <1>0, <1>4 DEF Tables
<1>7. /\ fds'["own"] \in Table(n) /\ fds'["own"][x] = None
      /\ \A i \in DOMAIN fds["own"] : i # x => fds'["own"][i] = fds["own"][i]
      /\ DOMAIN fds'["own"] = DOMAIN fds["own"]
    BY <1>3, <1>4, <1>6 DEF Table
<1>8. /\ Filled("own")' = Filled("own") \ {x} /\ InTable("own")' = InTable("own") \ {f}
      /\ Filled("copy")' = Filled("copy") /\ InTable("copy")' = InTable("copy")
    <2>1. Filled("copy")' = Filled("copy") /\ InTable("copy")' = InTable("copy")
        BY <1>6 DEF Filled, InTable
    <2>2. Filled("own")' = Filled("own") \ {x}
        BY <1>4, <1>7 DEF Filled
    <2>3. \A i \in Filled("own") : i # x => fds["own"][i] # f
        BY <1>0, <1>1 DEF IInv, Slots, Tables
    <2>4. \A i \in Filled("own") \ {x} : fds'["own"][i] = fds["own"][i]
        BY <1>7 DEF Filled
    <2>5. InTable("own")' = InTable("own") \ {f}
        BY <1>1, <2>2, <2>3, <2>4 DEF InTable
    <2> QED
        BY <2>1, <2>2, <2>5
<1>9. Refs(f) \in 1..(Cardinality(Threads) + 2) /\ file[f].ref = Refs(f) /\ file[f] \in Record
    BY <1>5, Referred DEF Tables
<1>10. /\ file'[f] = file_put(file[f]) /\ \A g \in Pool : g # f => file'[g] = file[g]
       /\ file' \in [Pool -> Record]
    <2>1. file[f].ref \in 1..(RefMod - 1)
        BY <1>9, CountFacts
    <2>2. file_put(file[f]) \in Record
        BY <1>9, <2>1, PutRecord
    <2> QED
        BY <1>2, <1>5, <2>2
<1>11. TypeOK'
    BY <1>2, <1>6, <1>7, <1>10 DEF IInv, TypeOK
<1>12. Slots'
    <2>1. \A i, j \in Filled("own")' : fds'["own"][i] = fds'["own"][j] => i = j
        BY <1>7, <1>8 DEF IInv, Slots, Tables, Filled
    <2>2. \A i, j \in Filled("copy")' : fds'["copy"][i] = fds'["copy"][j] => i = j
        BY <1>6, <1>8 DEF IInv, Slots, Tables
    <2>3. \A d \in Threads : pc'[d] = "install" => fd'[d] \in DOMAIN fds'["own"]
        BY <1>2, <1>7 DEF IInv, Slots
    <2>4. \A d \in Threads : pc'[d] \in {"alloc", "install", "close"} =>
             /\ \A t \in Tables : fp'[d] \notin InTable(t)'
             /\ \A e \in Threads : fp'[e] = fp'[d] => e = d
        BY <1>2, <1>8 DEF IInv, Slots, Tables
    <2> QED
        BY <2>1, <2>2, <2>3, <2>4 DEF Slots, Tables
<1>13. InHand'
    BY <1>2 DEF IInv, InHand
<1>14. Refs(f)' = Refs(f) - 1
    <2>1. Refs(f)' = In("own", f)' + In("copy", f)' + Cardinality(Holders(f)')
        BY <1>5, <1>11, RefsIsAfter
    <2>2. /\ Refs(f) = In("own", f) + In("copy", f) + Cardinality(Holders(f))
          /\ Cardinality(Holders(f)) \in 0..Cardinality(Threads)
        BY <1>5, RefsIs DEF IInv
    <2>3. Holders(f)' = Holders(f)
        BY <1>2 DEF Holders
    <2>4. In("own", f)' = 0 /\ In("own", f) = 1 /\ In("copy", f)' = In("copy", f)
        BY <1>5, <1>8 DEF In
    <2>5. Cardinality(Threads) \in Nat
        BY CountFacts
    <2> QED
        BY <2>1, <2>2, <2>3, <2>4, <2>5 DEF In
<1>15. ASSUME NEW g \in Pool, g # f
       PROVE  Refs(g)' = Refs(g)
    <2>1. Holders(g)' = Holders(g)
        BY <1>2 DEF Holders
    <2>2. \A t \in Tables : g \in InTable(t)' <=> g \in InTable(t)
        BY <1>8, <1>15 DEF Tables
    <2> QED
        BY <1>11, <2>1, <2>2, SameRefs
<1>16. /\ file'[f] \in Record /\ file'[f].live = file[f].live /\ file'[f].ino = file[f].ino
       /\ file'[f].live => file'[f].ino \in Inodes
       /\ Refs(f)' > 0 => file'[f].live /\ file'[f].ref = Refs(f)'
       /\ Refs(f)' = 0 => file'[f] = Closed \/ (file'[f].live /\ file'[f].ref = RefMod - 1)
    BY <1>5, <1>9, <1>10, <1>14, PutCounted
<1>17. Counted'
    BY <1>10, <1>15, <1>16 DEF IInv, Counted
<1>18. Locked' /\ Sizes'
    <2>1. \A g \in Pool : file'[g].live = file[g].live /\ file'[g].ino = file[g].ino
        BY <1>10, <1>16
    <2> QED
        BY <1>2, <2>1, SizesKept
<1> QED
    BY <1>11, <1>12, <1>13, <1>17, <1>18 DEF IInv

\* fd_table_dup adds a reference for every file of the new table.
LEMMA DupStep ==
    ASSUME IInv, fd_table_dup
    PROVE  IInv'
<1> USE FilesAssumption DEF FilesAssumption
<1>1. /\ UNCHANGED <<f_lock, pc, fp, fd, pos, i_size, written, opens>> /\ fds["copy"] = NoTable
      /\ file' = [f \in Pool |-> IF \E i \in DOMAIN fd_table_alloc : fds["own"][i] = f
                                 THEN file_get(file[f]) ELSE file[f]]
      /\ fds' = [fds EXCEPT !["copy"] = [i \in DOMAIN fd_table_alloc |-> fds["own"][i]]]
    BY DEF fd_table_dup, locals, data
<1>2. PICK n \in NR_OPEN_DEFAULT..NR_OPEN_MAX : fds["own"] \in Table(n)
    BY DEF IInv, TypeOK
<1>3. /\ DOMAIN fd_table_alloc = 0..(NR_OPEN_DEFAULT - 1) /\ DOMAIN fds["own"] = 0..(n - 1)
      /\ \A i \in DOMAIN fd_table_alloc : i \in DOMAIN fds["own"] /\ fds["own"][i] \in Pool \cup {None}
    BY <1>2 DEF fd_table_alloc, Table
<1>4. /\ fds' = [t \in Tables |-> fds'[t]] /\ fds'["own"] = fds["own"]
      /\ fds'["copy"] = [i \in DOMAIN fd_table_alloc |-> fds["own"][i]]
    <2>1. fds = [t \in Tables |-> fds[t]]
        BY DEF IInv, TypeOK
    <2> QED
        BY <1>1, <2>1 DEF Tables
<1>5. fds'["copy"] \in Table(NR_OPEN_DEFAULT)
    BY <1>3, <1>4 DEF Table
<1> DEFINE New == {f \in Pool : \E i \in 0..(NR_OPEN_DEFAULT - 1) : fds["own"][i] = f}
<1>6. /\ Filled("own")' = Filled("own") /\ InTable("own")' = InTable("own")
      /\ InTable("copy")' = New /\ InTable("copy") = {}
    <2>1. Filled("own")' = Filled("own") /\ InTable("own")' = InTable("own")
        BY <1>4 DEF Filled, InTable
    <2>2. InTable("copy") = {}
        BY <1>1 DEF InTable, Filled, NoTable
    <2>3. /\ DOMAIN fds'["copy"] = 0..(NR_OPEN_DEFAULT - 1)
          /\ \A i \in 0..(NR_OPEN_DEFAULT - 1) : fds'["copy"][i] = fds["own"][i] /\ fds["own"][i] \in Pool \cup {None}
        BY <1>3, <1>4
    <2>4. InTable("copy")' = New
        BY <2>3 DEF InTable, Filled
    <2> QED
        BY <2>1, <2>2, <2>4
<1>7. New \subseteq InTable("own")
    BY <1>3 DEF InTable, Filled
<1>8. ASSUME NEW f \in Pool, f \in New
      PROVE  /\ file'[f] \in Record /\ file'[f].live = file[f].live /\ file'[f].ino = file[f].ino
             /\ file'[f].live /\ file'[f].ino \in Inodes
             /\ file'[f].ref = Refs(f) + 1 /\ Refs(f) \in 1..(Cardinality(Threads) + 2)
    <2>1. /\ file[f].live /\ file[f].ref = Refs(f) /\ Refs(f) \in 1..(Cardinality(Threads) + 2)
          /\ file[f] \in Record /\ file[f].ino \in Inodes
        BY <1>7, <1>8, Referred DEF Tables
    <2>2. file[f].ref \in 0..(RefMod - 2)
        BY <2>1, CountFacts
    <2>3. file'[f] = file_get(file[f])
        BY <1>1, <1>3, <1>8
    <2>4. PICK m : m = file_get(file[f])
        OBVIOUS
    <2>5. m \in Record /\ m.live = file[f].live /\ m.ino = file[f].ino /\ m.ref = file[f].ref + 1
        BY <2>1, <2>2, <2>4, GetRecord
    <2> QED
        BY <2>1, <2>3, <2>4, <2>5
<1>9. \A f \in Pool : f \notin New => file'[f] = file[f]
    BY <1>1, <1>3
<1>10. file' \in [Pool -> Record]
    <2>1. file \in [Pool -> Record]
        BY DEF IInv, TypeOK
    <2>2. \A f \in Pool : file'[f] \in Record
        BY <1>8, <1>9, <2>1
    <2>3. DOMAIN file' = Pool /\ file' = [f \in Pool |-> file'[f]]
        BY <1>1
    <2> QED
        BY <2>2, <2>3
<1>11. TypeOK'
    BY <1>1, <1>2, <1>4, <1>5, <1>10 DEF IInv, TypeOK
<1>12. Slots'
    <2>1. \A i, j \in Filled("own")' : fds'["own"][i] = fds'["own"][j] => i = j
        BY <1>4, <1>6 DEF IInv, Slots, Tables
    <2>2. \A i \in Filled("copy")' : i \in Filled("own") /\ fds'["copy"][i] = fds["own"][i]
        BY <1>3, <1>4 DEF Filled
    <2>3. \A i, j \in Filled("copy")' : fds'["copy"][i] = fds'["copy"][j] => i = j
        BY <2>2 DEF IInv, Slots, Tables
    <2>4. \A d \in Threads : pc'[d] = "install" => fd'[d] \in DOMAIN fds'["own"]
        BY <1>1, <1>4 DEF IInv, Slots
    <2>5. \A d \in Threads : pc'[d] \in {"alloc", "install", "close"} =>
             /\ \A t \in Tables : fp'[d] \notin InTable(t)'
             /\ \A e \in Threads : fp'[e] = fp'[d] => e = d
        BY <1>1, <1>6, <1>7 DEF IInv, Slots, Tables
    <2> QED
        BY <2>1, <2>3, <2>4, <2>5 DEF Slots, Tables
<1>13. InHand'
    BY <1>1 DEF IInv, InHand
<1>14. ASSUME NEW f \in Pool
       PROVE  Refs(f)' = IF f \in New THEN Refs(f) + 1 ELSE Refs(f)
    <2>1. Refs(f)' = In("own", f)' + In("copy", f)' + Cardinality(Holders(f)')
        BY <1>11, RefsIsAfter
    <2>2. /\ Refs(f) = In("own", f) + In("copy", f) + Cardinality(Holders(f))
          /\ Cardinality(Holders(f)) \in 0..Cardinality(Threads)
        BY RefsIs DEF IInv
    <2>3. Holders(f)' = Holders(f)
        BY <1>1 DEF Holders
    <2>4. /\ In("own", f)' = In("own", f) /\ In("copy", f) = 0
          /\ In("copy", f)' = IF f \in New THEN 1 ELSE 0
        BY <1>6 DEF In
    <2>5. Cardinality(Threads) \in Nat
        BY CountFacts
    <2> QED
        BY <2>1, <2>2, <2>3, <2>4, <2>5 DEF In
<1>15. Counted'
    <2> SUFFICES ASSUME NEW f \in Pool
                 PROVE  /\ file'[f].live => file'[f].ino \in Inodes
                        /\ Refs(f)' > 0 => file'[f].live /\ file'[f].ref = Refs(f)'
                        /\ Refs(f)' = 0 => file'[f] = Closed \/ (file'[f].live /\ file'[f].ref = RefMod - 1)
        BY DEF Counted
    <2>1. CASE f \in New
        <3>1. Refs(f)' = Refs(f) + 1
            BY <1>14, <2>1
        <3> HIDE DEF New
        <3> QED
            BY <1>8, <2>1, <3>1, CountFacts
    <2>2. CASE f \notin New
        BY <1>9, <1>14, <2>2, Uncounted
    <2> QED
        BY <2>1, <2>2
<1>16. Locked' /\ Sizes'
    <2>1. \A f \in Pool : file'[f].live = file[f].live /\ file'[f].ino = file[f].ino
        BY <1>8, <1>9
    <2> QED
        BY <1>1, <2>1, SizesKept
<1> QED
    BY <1>11, <1>12, <1>13, <1>15, <1>16 DEF IInv

\* fd_table_free puts every file of the copy once.
LEMMA TableFreeStep ==
    ASSUME IInv, fd_table_free
    PROVE  IInv'
<1> USE FilesAssumption DEF FilesAssumption
<1>1. /\ UNCHANGED <<f_lock, pc, fp, fd, pos, i_size, written, opens>>
      /\ file' = [f \in Pool |-> IF f \in InTable("copy") THEN file_put(file[f]) ELSE file[f]]
      /\ fds' = [fds EXCEPT !["copy"] = NoTable]
    BY DEF fd_table_free, locals, data
<1>2. /\ fds' = [t \in Tables |-> fds'[t]] /\ fds'["own"] = fds["own"] /\ fds'["copy"] = NoTable
    <2>1. fds = [t \in Tables |-> fds[t]]
        BY DEF IInv, TypeOK
    <2> QED
        BY <1>1, <2>1 DEF Tables
<1>3. /\ Filled("own")' = Filled("own") /\ InTable("own")' = InTable("own")
      /\ InTable("copy")' = {} /\ Filled("copy")' = {}
    <2>1. Filled("own")' = Filled("own") /\ InTable("own")' = InTable("own")
        BY <1>2 DEF Filled, InTable
    <2>2. InTable("copy")' = {} /\ Filled("copy")' = {}
        BY <1>2 DEF InTable, Filled, NoTable
    <2> QED
        BY <2>1, <2>2
<1>4. \A f \in Pool : /\ f \in InTable("copy") => file'[f] = file_put(file[f])
                      /\ f \notin InTable("copy") => file'[f] = file[f]
    BY <1>1
<1>5. file' \in [Pool -> Record]
    <2>1. file \in [Pool -> Record]
        BY DEF IInv, TypeOK
    <2>2. ASSUME NEW f \in Pool, f \in InTable("copy")
          PROVE  file_put(file[f]) \in Record
        <3>1. file[f].ref \in 1..(RefMod - 1) /\ file[f] \in Record
            BY <2>2, Referred, CountFacts DEF Tables
        <3> QED
            BY <3>1, PutRecord
    <2>3. \A f \in Pool : file'[f] \in Record
        BY <1>4, <2>1, <2>2
    <2>4. DOMAIN file' = Pool /\ file' = [f \in Pool |-> file'[f]]
        BY <1>1
    <2> QED
        BY <2>3, <2>4
<1>6. TypeOK'
    BY <1>1, <1>2, <1>5 DEF IInv, TypeOK
<1>7. Slots'
    <2>1. \A i, j \in Filled("own")' : fds'["own"][i] = fds'["own"][j] => i = j
        BY <1>2, <1>3 DEF IInv, Slots, Tables
    <2>2. \A d \in Threads : pc'[d] = "install" => fd'[d] \in DOMAIN fds'["own"]
        BY <1>1, <1>2 DEF IInv, Slots
    <2>3. \A d \in Threads : pc'[d] \in {"alloc", "install", "close"} =>
             /\ \A t \in Tables : fp'[d] \notin InTable(t)'
             /\ \A e \in Threads : fp'[e] = fp'[d] => e = d
        BY <1>1, <1>3 DEF IInv, Slots, Tables
    <2> QED
        BY <1>3, <2>1, <2>2, <2>3 DEF Slots, Tables
<1>8. InHand'
    BY <1>1 DEF IInv, InHand
<1>9. ASSUME NEW f \in Pool
      PROVE  Refs(f)' = IF f \in InTable("copy") THEN Refs(f) - 1 ELSE Refs(f)
    <2>1. Refs(f)' = In("own", f)' + In("copy", f)' + Cardinality(Holders(f)')
        BY <1>6, RefsIsAfter
    <2>2. /\ Refs(f) = In("own", f) + In("copy", f) + Cardinality(Holders(f))
          /\ Cardinality(Holders(f)) \in 0..Cardinality(Threads)
        BY RefsIs DEF IInv
    <2>3. Holders(f)' = Holders(f)
        BY <1>1 DEF Holders
    <2>4. In("own", f)' = In("own", f) /\ In("copy", f)' = 0
        BY <1>3 DEF In
    <2>5. Cardinality(Threads) \in Nat
        BY CountFacts
    <2> QED
        BY <2>1, <2>2, <2>3, <2>4, <2>5 DEF In
<1>10. ASSUME NEW f \in Pool, f \in InTable("copy")
       PROVE  /\ file'[f].live = file[f].live /\ file'[f].ino = file[f].ino
              /\ file'[f].live => file'[f].ino \in Inodes
              /\ Refs(f)' > 0 => file'[f].live /\ file'[f].ref = Refs(f)'
              /\ Refs(f)' = 0 => file'[f] = Closed \/ (file'[f].live /\ file'[f].ref = RefMod - 1)
    <2>1. Refs(f) \in 1..(Cardinality(Threads) + 2)
        BY <1>10, Referred DEF Tables
    <2>2. Refs(f)' = Refs(f) - 1 /\ file'[f] = file_put(file[f])
        BY <1>4, <1>9, <1>10
    <2> QED
        BY <2>1, <2>2, PutCounted
<1>11. Counted'
    <2>1. \A f \in Pool : f \notin InTable("copy") => Refs(f)' = Refs(f) /\ file'[f] = file[f]
        BY <1>4, <1>9
    <2> QED
        BY <1>10, <2>1 DEF IInv, Counted
<1>12. Locked' /\ Sizes'
    <2>1. \A f \in Pool : file'[f].live = file[f].live /\ file'[f].ino = file[f].ino
        BY <1>4, <1>10
    <2> QED
        BY <1>1, <2>1, SizesKept
<1> QED
    BY <1>6, <1>7, <1>8, <1>11, <1>12 DEF IInv
-----------------------------------------------------------------------------
(* The operations on a file in hand take and drop no reference. *)

LEMMA QuietStep ==
    ASSUME IInv, TypeOK', NEW c \in Threads, UNCHANGED <<fds, fp, fd>>,
           pc[c] \in {"io"} \cup Writing, pc'[c] \in {"put"} \cup Writing,
           \A d \in Threads : d # c => pc'[d] = pc[d],
           \A f \in Pool : /\ file'[f].live = file[f].live /\ file'[f].ino = file[f].ino
                           /\ file'[f].ref = file[f].ref /\ (~file[f].live => file'[f] = file[f])
    PROVE  Slots' /\ InHand' /\ Counted'
<1>1. \A t \in Tables : InTable(t)' = InTable(t) /\ Filled(t)' = Filled(t)
    BY DEF InTable, Filled
<1>2. \A d \in Threads : /\ pc'[d] \in {"alloc", "install", "close"} => pc[d] = pc'[d]
                         /\ pc'[d] = "idle" <=> pc[d] = "idle"
    BY DEF Writing
<1>3. Slots'
    BY <1>1, <1>2 DEF IInv, Slots
<1>4. InHand'
    BY <1>2 DEF IInv, InHand
<1>5. ASSUME NEW f \in Pool
      PROVE  Refs(f)' = Refs(f)
    <2>1. Holders(f)' = Holders(f)
        BY DEF Holders
    <2> QED
        BY <1>1, <2>1, SameRefs
<1>6. ~Closed.live
    BY DEF Closed
<1>7. Counted'
    BY <1>5, <1>6 DEF IInv, Counted
<1> QED
    BY <1>3, <1>4, <1>7

\* A step that moves the position of the file in hand, and what it keeps.
LEMMA MoveStep ==
    ASSUME IInv, NEW c \in Threads, NEW f \in Pool, f = fp[c], NEW p \in Nat,
           file' = [file EXCEPT ![f].pos = p]
    PROVE  /\ file' \in [Pool -> Record]
           /\ \A g \in Pool : /\ file'[g].live = file[g].live /\ file'[g].ino = file[g].ino
                              /\ file'[g].ref = file[g].ref /\ (~file[g].live => file'[g] = file[g])
<1>1. file[f].live /\ file[f] \in Record /\ file \in [Pool -> Record]
    BY Referred DEF IInv, TypeOK
<1>2. PICK r \in Record : r = file[f]
    BY <1>1
<1>3. PICK m : m = [r EXCEPT !.pos = p]
    OBVIOUS
<1>4. m \in Record /\ m.live = r.live /\ m.ino = r.ino /\ m.ref = r.ref
    BY <1>3, MoveRecord
<1>5. file' = [file EXCEPT ![f] = m]
    BY <1>2, <1>3
<1> QED
    BY <1>1, <1>2, <1>4, <1>5

\* file_read and file_lseek.
LEMMA SeekStep ==
    ASSUME IInv, NEW c \in Threads, NEW p \in Nat, pc[c] = "io",
           file' = [file EXCEPT ![fp[c]].pos = p], Goto(c, "put"),
           UNCHANGED <<f_lock, fds, fp, locals, data>>
    PROVE  IInv'
<1>1. PICK f : f = fp[c]
    OBVIOUS
<1>2. /\ UNCHANGED <<f_lock, fds, fp, fd, pos, i_size, written, opens>>
      /\ file' = [file EXCEPT ![f].pos = p] /\ pc' = [pc EXCEPT ![c] = "put"]
    BY <1>1 DEF Goto, locals, data
<1>3. f \in Pool /\ pc \in [Threads -> Labels]
    BY <1>1 DEF IInv, TypeOK, InHand
<1>4. /\ file' \in [Pool -> Record]
      /\ \A g \in Pool : /\ file'[g].live = file[g].live /\ file'[g].ino = file[g].ino
                         /\ file'[g].ref = file[g].ref /\ (~file[g].live => file'[g] = file[g])
    BY <1>1, <1>2, <1>3, MoveStep
<1>5. /\ pc' \in [Threads -> Labels] /\ pc'[c] = "put" /\ \A d \in Threads : d # c => pc'[d] = pc[d]
    BY <1>2, <1>3 DEF Labels
<1>6. TypeOK'
    BY <1>2, <1>4, <1>5 DEF IInv, TypeOK
<1>7. Slots' /\ InHand' /\ Counted'
    BY <1>2, <1>4, <1>5, <1>6, QuietStep
<1>8. Locked' /\ Sizes'
    <2>1. \A d \in Threads : /\ pc[d] \in Writing => pc'[d] = pc[d] /\ fp'[d] = fp[d]
                             /\ pc[d] \notin Writing => pc'[d] \notin Writing
        BY <1>2, <1>5 DEF Writing
    <2> QED
        BY <1>2, <1>4, <2>1, SizesKept
<1> QED
    BY <1>6, <1>7, <1>8 DEF IInv

LEMMA ReadStep ==
    ASSUME IInv, NEW c \in Threads, file_read(c)
    PROVE  IInv'
<1>1. pc[c] = "io" /\ Goto(c, "put") /\ UNCHANGED <<f_lock, fds, fp, locals, data>>
    BY DEF file_read
<1>2. fp[c] \in Pool
    BY <1>1 DEF IInv, TypeOK, InHand
<1>3. file[fp[c]] \in Record /\ file[fp[c]].ino \in Inodes
    BY <1>2, Referred
<1>4. PICK p : p = IF file[fp[c]].pos < i_size[file[fp[c]].ino] THEN file[fp[c]].pos + 1
                                                                ELSE file[fp[c]].pos
    OBVIOUS
<1>5. p \in Nat
    BY <1>3, <1>4 DEF Record
<1>6. file' = [file EXCEPT ![fp[c]].pos = p]
    BY <1>4 DEF file_read
<1> QED
    BY <1>1, <1>5, <1>6, SeekStep

LEMMA LseekStep ==
    ASSUME IInv, NEW c \in Threads, file_lseek(c)
    PROVE  IInv'
<1>1. pc[c] = "io" /\ Goto(c, "put") /\ UNCHANGED <<f_lock, fds, fp, locals, data>>
    BY DEF file_lseek
<1>2. PICK from \in {0, file[fp[c]].pos, i_size[file[fp[c]].ino]}, offset \in -1..1 :
         from + offset \in 0..MaxPos /\ file' = [file EXCEPT ![fp[c]].pos = from + offset]
    BY DEF file_lseek
<1>3. from + offset \in Nat
    BY <1>2, FilesAssumption DEF FilesAssumption
<1>4. PICK p \in Nat : p = from + offset
    BY <1>3
<1> QED
    BY <1>1, <1>2, <1>4, SeekStep

\* file_write takes the lock of a file that nobody is writing.
LEMMA WriteStep ==
    ASSUME IInv, NEW c \in Threads, file_write(c)
    PROVE  IInv'
<1> USE FilesAssumption DEF FilesAssumption
<1>1. PICK f : f = fp[c]
    OBVIOUS
<1>2. PICK p : p = IF file[f].append THEN i_size[file[f].ino] ELSE file[f].pos
    OBVIOUS
<1>3. /\ pc[c] = "io" /\ f_lock[f] = None /\ f_lock' = [f_lock EXCEPT ![f] = c]
      /\ pos' = [pos EXCEPT ![c] = p + 1] /\ pc' = [pc EXCEPT ![c] = "write"]
      /\ UNCHANGED <<file, fds, fp, fd, i_size, written, opens>>
    BY <1>1, <1>2 DEF file_write, Unlocked, Goto, data
<1>4. /\ f \in Pool /\ pc \in [Threads -> Labels] /\ pos \in [Threads -> Nat]
      /\ f_lock \in [Pool -> Threads \cup {None}]
    BY <1>1, <1>3 DEF IInv, TypeOK, InHand
<1>5. p + 1 \in Nat
    <2>1. file[f] \in Record /\ file[f].ino \in Inodes
        BY <1>1, <1>4, Referred
    <2> QED
        BY <1>2, <2>1 DEF Record, IInv, TypeOK
<1>6. /\ pc' \in [Threads -> Labels] /\ pc'[c] = "write" /\ \A d \in Threads : d # c => pc'[d] = pc[d]
      /\ pos' \in [Threads -> Nat] /\ \A d \in Threads : d # c => pos'[d] = pos[d]
      /\ f_lock' \in [Pool -> Threads \cup {None}]
      /\ f_lock'[f] = c /\ \A g \in Pool : g # f => f_lock'[g] = f_lock[g]
    BY <1>3, <1>4, <1>5 DEF Labels, Writing
<1>7. TypeOK'
    BY <1>3, <1>6 DEF IInv, TypeOK
<1>8. Slots' /\ InHand' /\ Counted'
    BY <1>3, <1>6, <1>7, QuietStep DEF Writing
<1>9. Locked'
    <2>1. \A d \in Threads : ~(fp[d] = f /\ pc[d] \in Writing)
        BY <1>3, <1>4 DEF IInv, Locked
    <2> QED
        BY <1>1, <1>3, <1>6, <2>1 DEF IInv, Locked, Writing
<1>10. Sizes'
    <2>1. \A n \in Inodes : Growing(n)' = Growing(n) /\ c \notin Growing(n)
        BY <1>3, <1>6 DEF Growing
    <2>2. \A n \in Inodes : \A d \in Growing(n) : pos'[d] = pos[d]
        BY <1>6, <2>1 DEF Growing
    <2> QED
        BY <1>3, <2>1, <2>2 DEF IInv, Sizes
<1> QED
    BY <1>7, <1>8, <1>9, <1>10 DEF IInv

\* The lock of the only struct file of an inode keeps everybody else away from
\* the update of i_size.
LEMMA OneGrower ==
    ASSUME IInv, NEW c \in Threads, pc[c] \in Writing, NEW n \in Inodes, file[fp[c]].ino = n,
           opens[n] # 2
    PROVE  \A d \in Growing(n) : d = c
<1> SUFFICES ASSUME NEW d \in Threads, pc[d] = "size", file[fp[d]].ino = n PROVE d = c
    BY DEF Growing
<1>1. fp[c] \in Pool /\ fp[d] \in Pool
    BY DEF IInv, TypeOK, InHand, Writing
<1>2. file[fp[c]].live /\ file[fp[d]].live
    BY <1>1, Referred
<1>3. fp[c] = fp[d]
    BY <1>1, <1>2 DEF IInv, Sizes
<1> QED
    BY <1>1, <1>3 DEF IInv, Locked, Writing

\* The test of i_size after the write.
LEMMA TestStep ==
    ASSUME IInv, NEW c \in Threads, write_test(c)
    PROVE  IInv'
<1>1. PICK f : f = fp[c]
    OBVIOUS
<1>2. PICK n : n = file[f].ino
    OBVIOUS
<1>3. PICK l : l = IF pos[c] > i_size[n] THEN "size" ELSE "unlock"
    OBVIOUS
<1>4. /\ pc[c] = "write" /\ file' = [file EXCEPT ![f].pos = pos[c]]
      /\ written' = [written EXCEPT ![n] = IF pos[c] > @ THEN pos[c] ELSE @]
      /\ pc' = [pc EXCEPT ![c] = l]
      /\ UNCHANGED <<f_lock, fds, i_size, opens, fp, fd, pos>>
    BY <1>1, <1>2, <1>3 DEF write_test, Goto, locals
<1>5. /\ f \in Pool /\ pc \in [Threads -> Labels] /\ pos[c] \in Nat /\ pos \in [Threads -> Nat]
      /\ written \in [Inodes -> Nat] /\ i_size \in [Inodes -> Nat]
    BY <1>1, <1>4 DEF IInv, TypeOK, InHand
<1>6. file[f].live /\ n \in Inodes
    BY <1>1, <1>2, <1>5, Referred
<1>7. /\ file' \in [Pool -> Record]
      /\ \A g \in Pool : /\ file'[g].live = file[g].live /\ file'[g].ino = file[g].ino
                         /\ file'[g].ref = file[g].ref /\ (~file[g].live => file'[g] = file[g])
    BY <1>1, <1>4, <1>5, MoveStep
<1>8. /\ pc' \in [Threads -> Labels] /\ pc'[c] = l /\ \A d \in Threads : d # c => pc'[d] = pc[d]
      /\ l \in {"size", "unlock"}
    BY <1>3, <1>4, <1>5 DEF Labels, Writing
<1>9. /\ written' \in [Inodes -> Nat] /\ \A m \in Inodes : m # n => written'[m] = written[m]
      /\ written'[n] = IF pos[c] > written[n] THEN pos[c] ELSE written[n]
    BY <1>4, <1>5, <1>6
<1>10. TypeOK'
    BY <1>4, <1>7, <1>8, <1>9 DEF IInv, TypeOK
<1>11. Slots' /\ InHand' /\ Counted'
    BY <1>4, <1>7, <1>8, <1>10, QuietStep DEF Writing
<1>12. Locked'
    BY <1>4, <1>8 DEF IInv, Locked, Writing
<1>13. Sizes'
    <2> SUFFICES ASSUME NEW m \in Inodes, opens[m] # 2
                 PROVE  /\ Growing(m)' = {} => i_size[m] = written'[m]
                        /\ \A d \in Growing(m)' : pos[d] = written'[m]
        BY <1>4, <1>7 DEF IInv, Sizes
    <2>1. \A d \in Threads : pc'[d] = "size" => fp[d] \in Pool /\ file'[fp[d]].ino = file[fp[d]].ino
        BY <1>1, <1>5, <1>7, <1>8 DEF IInv, TypeOK, InHand
    <2>2. CASE m # n
        <3>1. Growing(m)' = Growing(m)
            BY <1>1, <1>2, <1>4, <1>8, <2>1, <2>2 DEF Growing
        <3> QED
            BY <1>9, <2>2, <3>1 DEF IInv, Sizes
    <2>3. CASE m = n
        <3>1. Growing(m) = {}
            <4>1. \A d \in Growing(m) : d = c
                BY <1>1, <1>2, <1>4, <2>3, OneGrower DEF Writing
            <4> QED
                BY <1>4, <4>1 DEF Growing
        <3>2. i_size[m] = written[m]
            BY <3>1 DEF IInv, Sizes
        <3>3. \A d \in Threads : d \in Growing(m)' <=> d = c /\ l = "size"
            BY <1>1, <1>2, <1>4, <1>8, <2>1, <2>3, <3>1 DEF Growing
        <3>4. Growing(m)' \subseteq Threads
            BY DEF Growing
        <3> QED
            BY <1>3, <1>5, <1>9, <2>3, <3>2, <3>3, <3>4
    <2> QED
        BY <2>2, <2>3
<1> QED
    BY <1>10, <1>11, <1>12, <1>13 DEF IInv

\* The update of i_size.
LEMMA SizeStep ==
    ASSUME IInv, NEW c \in Threads, write_size(c)
    PROVE  IInv'
<1>1. PICK n : n = file[fp[c]].ino
    OBVIOUS
<1>2. /\ pc[c] = "size" /\ i_size' = [i_size EXCEPT ![n] = pos[c]] /\ pc' = [pc EXCEPT ![c] = "unlock"]
      /\ UNCHANGED <<file, f_lock, fds, written, opens, fp, fd, pos>>
    BY <1>1 DEF write_size, Goto, locals
<1>3. /\ fp[c] \in Pool /\ pc \in [Threads -> Labels] /\ pos[c] \in Nat /\ i_size \in [Inodes -> Nat]
    BY <1>2 DEF IInv, TypeOK, InHand
<1>4. n \in Inodes
    BY <1>1, <1>3, Referred
<1>5. /\ pc' \in [Threads -> Labels] /\ pc'[c] = "unlock" /\ \A d \in Threads : d # c => pc'[d] = pc[d]
      /\ i_size' \in [Inodes -> Nat] /\ i_size'[n] = pos[c]
      /\ \A m \in Inodes : m # n => i_size'[m] = i_size[m]
    BY <1>2, <1>3, <1>4 DEF Labels, Writing
<1>6. TypeOK'
    BY <1>2, <1>5 DEF IInv, TypeOK
<1>7. Slots' /\ InHand' /\ Counted'
    BY <1>2, <1>5, <1>6, QuietStep DEF Writing
<1>8. Locked'
    BY <1>2, <1>5 DEF IInv, Locked, Writing
<1>9. Sizes'
    <2> SUFFICES ASSUME NEW m \in Inodes, opens[m] # 2
                 PROVE  /\ Growing(m)' = {} => i_size'[m] = written[m]
                        /\ \A d \in Growing(m)' : pos[d] = written[m]
        BY <1>2 DEF IInv, Sizes
    <2>1. CASE m # n
        <3>1. Growing(m)' = Growing(m)
            BY <1>1, <1>2, <1>5, <2>1 DEF Growing
        <3> QED
            BY <1>5, <2>1, <3>1 DEF IInv, Sizes
    <2>2. CASE m = n
        <3>1. c \in Growing(m) /\ \A d \in Growing(m) : d = c
            BY <1>1, <1>2, <2>2, OneGrower DEF Growing, Writing
        <3>2. Growing(m)' = {}
            BY <1>2, <1>5, <3>1 DEF Growing
        <3>3. pos[c] = written[m]
            BY <3>1 DEF IInv, Sizes
        <3> QED
            BY <1>5, <2>2, <3>2, <3>3
    <2> QED
        BY <2>1, <2>2
<1> QED
    BY <1>6, <1>7, <1>8, <1>9 DEF IInv

\* The end of file_write.
LEMMA EndStep ==
    ASSUME IInv, NEW c \in Threads, write_end(c)
    PROVE  IInv'
<1> USE FilesAssumption DEF FilesAssumption
<1>1. PICK f : f = fp[c]
    OBVIOUS
<1>2. /\ pc[c] = "unlock" /\ f_lock' = [f_lock EXCEPT ![f] = None] /\ pos' = [pos EXCEPT ![c] = 0]
      /\ pc' = [pc EXCEPT ![c] = "put"] /\ UNCHANGED <<file, fds, fp, fd, i_size, written, opens>>
    BY <1>1 DEF write_end, Goto, data
<1>3. /\ f \in Pool /\ pc \in [Threads -> Labels] /\ pos \in [Threads -> Nat]
      /\ f_lock \in [Pool -> Threads \cup {None}]
    BY <1>1, <1>2 DEF IInv, TypeOK, InHand
<1>4. /\ pc' \in [Threads -> Labels] /\ pc'[c] = "put" /\ \A d \in Threads : d # c => pc'[d] = pc[d]
      /\ pos' \in [Threads -> Nat] /\ \A d \in Threads : d # c => pos'[d] = pos[d]
      /\ f_lock' \in [Pool -> Threads \cup {None}]
      /\ f_lock'[f] = None /\ \A g \in Pool : g # f => f_lock'[g] = f_lock[g]
    BY <1>2, <1>3 DEF Labels
<1>5. TypeOK'
    BY <1>2, <1>4 DEF IInv, TypeOK
<1>6. Slots' /\ InHand' /\ Counted'
    BY <1>2, <1>4, <1>5, QuietStep DEF Writing
<1>7. Locked'
    <2>1. f_lock[f] = c /\ \A d \in Threads : fp[d] = f /\ pc[d] \in Writing => d = c
        BY <1>1, <1>2, <1>3 DEF IInv, Locked, Writing
    <2> QED
        BY <1>1, <1>2, <1>4, <2>1 DEF IInv, Locked, Writing
<1>8. Sizes'
    <2>1. \A n \in Inodes : Growing(n)' = Growing(n) /\ c \notin Growing(n)
        BY <1>2, <1>4 DEF Growing
    <2>2. \A n \in Inodes : \A d \in Growing(n) : pos'[d] = pos[d]
        BY <1>4, <2>1 DEF Growing
    <2> QED
        BY <1>2, <2>1, <2>2 DEF IInv, Sizes
<1> QED
    BY <1>5, <1>6, <1>7, <1>8 DEF IInv
-----------------------------------------------------------------------------
LEMMA NextIInv == IInv /\ [Next]_vars => IInv'
<1> SUFFICES ASSUME IInv, [Next]_vars PROVE IInv'
    OBVIOUS
<1>1. CASE UNCHANGED vars
    <2> USE <1>1 DEF vars
    <2>1. \A t \in Tables : Filled(t)' = Filled(t) /\ InTable(t)' = InTable(t)
        BY DEF Filled, InTable
    <2>2. TypeOK'
        BY DEF IInv, TypeOK
    <2>3. Slots' /\ InHand'
        BY <2>1 DEF IInv, Slots, InHand
    <2>4. \A f \in Pool : Holders(f)' = Holders(f)
        BY DEF Holders
    <2>5. \A f \in Pool : Refs(f)' = Refs(f)
        BY <2>1, <2>2, <2>4, SameRefs
    <2>6. Counted'
        BY <2>5 DEF IInv, Counted
    <2>7. Locked' /\ Sizes'
        BY SizesKept
    <2> QED
        BY <2>2, <2>3, <2>6, <2>7 DEF IInv
<1>2. CASE fd_table_dup
    BY <1>2, DupStep
<1>3. CASE fd_table_free
    BY <1>3, TableFreeStep
<1>4. ASSUME NEW c \in Threads,
             \/ file_open(c) \/ fd_alloc(c) \/ fd_install(c) \/ vfs_close(c)
             \/ fd_get(c) \/ put(c) \/ fd_free(c) \/ file_read(c) \/ file_lseek(c)
             \/ file_write(c) \/ write_test(c) \/ write_size(c) \/ write_end(c)
      PROVE  IInv'
    BY <1>4, OpenStep, AllocStep, InstallStep, CloseStep, GetStep, PutStep, FreeStep, ReadStep,
       LseekStep, WriteStep, TestStep, SizeStep, EndStep
<1> QED
    BY <1>1, <1>2, <1>3, <1>4 DEF Next

\* The inductive invariant of open files and descriptor tables.
THEOREM Invariance == Spec => []IInv
<1>1. Init => IInv
    BY InitIInv
<1>2. IInv /\ [Next]_vars => IInv'
    BY NextIInv
<1> QED
    BY <1>1, <1>2, PTL DEF Spec

\* f_refcnt counts the descriptors and threads that refer to a struct file, and
\* no file is freed while one does.
THEOREM CountsReferences == Spec => []RefsExact
<1>1. IInv => RefsExact
    BY DEF IInv, Counted, RefsExact
<1> QED
    BY <1>1, Invariance, PTL

\* i_size of an inode that was opened once covers what file_write has written.
THEOREM SizesCover == Spec => []SizeCovers
<1>1. IInv => SizeCovers
    <2> SUFFICES ASSUME IInv, NEW n \in Inodes, opens[n] = 1, \A c \in Threads : pc[c] \notin {"size"}
                 PROVE  i_size[n] = written[n]
        BY DEF SizeCovers
    <2>1. Growing(n) = {}
        BY DEF Growing
    <2> QED
        BY <2>1 DEF IInv, Sizes
<1> QED
    BY <1>1, Invariance, PTL

\* No step of fd_alloc, fd_install or fd_free replaces the file of a descriptor
\* that is open.
THEOREM DescriptorsKept == Spec => DescriptorStable
<1> USE FilesAssumption DEF FilesAssumption
<1> DEFINE Kept == \A i \in DOMAIN fds["own"] :
                      fds["own"][i] # None => fds'["own"][i] \in {fds["own"][i], None}
<1>1. IInv /\ [Next]_vars => [Kept]_vars
    <2> SUFFICES ASSUME IInv, Next PROVE Kept
        OBVIOUS
    <2>0. /\ fds = [t \in Tables |-> fds[t]]
          /\ \E n \in NR_OPEN_DEFAULT..NR_OPEN_MAX : fds["own"] \in Table(n)
        BY DEF IInv, TypeOK
    <2>1. CASE UNCHANGED fds
        BY <2>1
    <2>2. CASE fd_table_dup \/ fd_table_free
        BY <2>0, <2>2 DEF fd_table_dup, fd_table_free, Tables
    <2>3. ASSUME NEW c \in Threads, fd_alloc(c)
          PROVE  Kept
        <3>1. PICK n \in NR_OPEN_DEFAULT..NR_OPEN_MAX : fds["own"] \in Table(n)
            BY <2>0
        <3>2. n \in Nat \ {0} /\ DOMAIN fds["own"] = 0..(n - 1) /\ MaxFds("own") = n
            <4>1. n \in Nat \ {0}
                OBVIOUS
            <4>2. DOMAIN fds["own"] = 0..(n - 1)
                BY <3>1 DEF Table
            <4> QED
                BY <4>1, <4>2, FS_Interval DEF MaxFds
        <3>3. CASE fds' = [fds EXCEPT !["own"] = grown("own")] /\ n < NR_OPEN_MAX
            <4>1. PICK m \in Nat : /\ n <= m
                                   /\ \A i \in 0..(m - 1) : grown("own")[i] = IF i < n THEN fds["own"][i] ELSE None
                BY <3>1, <3>2, <3>3, GrownTable
            <4>2. fds'["own"] = grown("own")
                BY <2>0, <3>3 DEF Tables
            <4> QED
                BY <3>2, <4>1, <4>2
        <3> QED
            BY <2>1, <2>3, <3>2, <3>3 DEF fd_alloc
    <2>4. ASSUME NEW c \in Threads, fd_install(c)
          PROVE  Kept
        BY <2>0, <2>1, <2>4 DEF fd_install, Tables
    <2>5. ASSUME NEW c \in Threads, fd_free(c)
          PROVE  Kept
        BY <2>0, <2>5 DEF fd_free, Tables
    <2>6. ASSUME NEW c \in Threads,
                 \/ file_open(c) \/ vfs_close(c) \/ fd_get(c) \/ put(c) \/ file_read(c) \/ file_lseek(c)
                 \/ file_write(c) \/ write_test(c) \/ write_size(c) \/ write_end(c)
          PROVE  UNCHANGED fds
        BY <2>6 DEF file_open, vfs_close, fd_get, put, file_read, file_lseek, file_write, write_test,
                    write_size, write_end
    <2> QED
        BY <2>1, <2>2, <2>3, <2>4, <2>5, <2>6 DEF Next
<1> QED
    BY <1>1, Invariance, PTL DEF Spec, DescriptorStable
==============================================================================
