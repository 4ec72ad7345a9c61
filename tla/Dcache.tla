------------------------------- MODULE Dcache --------------------------------
(***************************************************************************)
(* The inode cache and the dentry cache: src/fs/inode.c, src/fs/dentry.c   *)
(* and the hash table of src/misc/hashtable.c, as operators on a record of *)
(* the kernel's state, which Vfs threads through its calls:                *)
(*    dent  the dentry objects; an object that is not live is free         *)
(*    ht    the nodes of dentry_state.ht: key -> dentry                    *)
(*    iref  i_refcnt of the inode in inode_state.ht, 0 for none            *)
(* An operator that can fail yields [s, d, err].                           *)
(*                                                                         *)
(* An inode stands for its number: inode_state.ht has one inode for each,  *)
(* as numbers of different file systems are disjoint here.  The lists      *)
(* d_children, dentry_list, dentry_lru and inode_list and the counters are *)
(* written and never read, and left out; d_op is NULL, s_op has no         *)
(* alloc_inode, destroy_inode or drop_inode.                               *)
(***************************************************************************)
EXTENDS Integers, FiniteSets, SequencesExt

CONSTANTS
    NDentries,           \* bound: dentry objects; an object is its address
    Names, NameHash,     \* components, and hash_string of each
    HashSize,            \* buckets of dentry_state.ht, a power of two (128)
    Inos,                \* inode numbers, positive
    RefMod               \* 2^32: d_refcnt wraps here

\* The components of paths, the name of root dentries and that of none.
NoName == ""
Components == Names \cup {"/", NoName, ".", ".."}

ASSUME DcacheAssumption ==
    /\ NDentries \in Nat \ {0} /\ RefMod \in Nat /\ RefMod > 2 /\ Inos \subseteq Nat \ {0}
    /\ HashSize \in {2, 4, 8, 16, 32, 64, 128}
    /\ {"/", NoName, ".", ".."} \cap Names = {}
    /\ NameHash \in [Components -> Nat]

Dentries == 1..NDentries
NoDentry == [live |-> FALSE, parent |-> 0, name |-> NoName, sb |-> NoName, ino |-> 0, ref |-> 0]

Ok(s, d) == [s |-> s, d |-> d, err |-> "0"]
Fail(s, e) == [s |-> s, d |-> 0, err |-> e]

\* A call inside a function: what it does when the call has failed, and the rest.
Call(r, Failed(_), Rest(_)) == IF r.err = "0" THEN Rest(r) ELSE Failed(r)
Then(r, Rest(_)) == IF r.err = "0" THEN Rest(r) ELSE r
-----------------------------------------------------------------------------
(* hashtable.c *)

\* The lowest seven bits of x ^ y.
differ(x, y, bit) == ((x \div bit) + (y \div bit)) % 2
xor(x, y) ==
    differ(x, y, 1) + 2 * differ(x, y, 2) + 4 * differ(x, y, 4) + 8 * differ(x, y, 8)
    + 16 * differ(x, y, 16) + 32 * differ(x, y, 32) + 64 * differ(x, y, 64)

\* hash_ptr, for a key below 128 and a table of at most 128 buckets.
hash_ptr == [k \in 0..(HashSize - 1) |-> (xor(69, k) * 33) % HashSize]

hashtable_init == <<>>
hashtable_lookup(ht, k) == IF k \in DOMAIN ht THEN ht[k] ELSE 0
hashtable_insert(ht, k, d) == [j \in DOMAIN ht \cup {k} |-> IF j = k THEN d ELSE ht[j]]
hashtable_delete(ht, k) == [j \in DOMAIN ht \ {k} |-> ht[j]]
-----------------------------------------------------------------------------
(* inode.c *)

inode_init == [i \in Inos |-> 0]

\* i_refcnt of a new inode, and none once it has left the table.
inode_alloc == 1
inode_free(s, i) == [s EXCEPT !.iref[i] = 0]

inode_get(s, i) == [s EXCEPT !.iref[i] = IF @ # 0 THEN @ + 1 ELSE inode_alloc]
inode_put(s, i) ==
    IF i = 0 THEN s
    ELSE IF s.iref[i] = 1 THEN inode_free(s, i) ELSE [s EXCEPT !.iref[i] = @ - 1]
-----------------------------------------------------------------------------
(* dentry.c *)

dentry_init == [d \in Dentries |-> NoDentry]

\* dentry_hash_key: the super block is that of the parent.
KeyOf ==
    [p \in Dentries |-> [n \in Components |-> hash_ptr[xor(p, NameHash[n]) % HashSize]]]
dentry_hash_key(s, d) == KeyOf[s.dent[d].parent][s.dent[d].name]

dentry_alloc(s, parent, sb, n) ==
    LET free == {d \in Dentries : ~s.dent[d].live}
        d == Min(free)
    IN  IF free = {} THEN Fail(s, "ENOMEM")
        ELSE Ok([s EXCEPT !.dent[d] =
                    [live |-> TRUE, parent |-> IF parent = 0 THEN d ELSE parent,
                     name |-> n, sb |-> sb, ino |-> 0, ref |-> 1]], d)

\* Mutant: the inode keeps the reference of the freed dentry.
dentry_free_keeps(s, d) ==
    [s EXCEPT !.ht = hashtable_delete(@, dentry_hash_key(s, d)), !.dent[d] = NoDentry]

\* dentry_free: the node under the key of d goes, whose ever it is.
dentry_free(s, d) ==
    [inode_put(s, s.dent[d].ino) EXCEPT
        !.ht = hashtable_delete(@, dentry_hash_key(s, d)), !.dent[d] = NoDentry]

\* Mutant: the bucket in which hashtable_insert puts the key.
dentry_lookup_fixed(s, parent, n) ==
    LET d == hashtable_lookup(s.ht, KeyOf[parent][n])
    IN  IF d # 0 /\ s.dent[d].parent = parent /\ s.dent[d].name = n THEN d ELSE 0

\* dentry_lookup takes the key for the number of a bucket; hashtable_insert puts
\* the key k into bucket hash_ptr[k].
dentry_lookup(s, parent, n) ==
    LET hit == {k \in DOMAIN s.ht :
                   /\ hash_ptr[k] = KeyOf[parent][n]
                   /\ s.dent[s.ht[k]].parent = parent /\ s.dent[s.ht[k]].name = n}
    IN  IF hit = {} THEN 0 ELSE s.ht[CHOOSE k \in hit : TRUE]

dentry_get(s, d) == [s EXCEPT !.dent[d].ref = (@ + 1) % RefMod]
dentry_put(s, d) == [s EXCEPT !.dent[d].ref = (@ + RefMod - 1) % RefMod]

\* dentry_insert: -EEXIST when the key is taken; no caller but dentry_root looks.
dentry_insert(s, d) ==
    LET k == dentry_hash_key(s, d)
    IN  IF hashtable_lookup(s.ht, k) # 0 THEN Fail(s, "EEXIST")
        ELSE Ok([s EXCEPT !.ht = hashtable_insert(@, k, d)], d)

dentry_delete(s, d) == dentry_free(s, d)

dentry_root(s, sb) ==
    Then(dentry_alloc(s, 0, sb, "/"), LAMBDA a :
        Call(dentry_insert(a.s, a.d),
             LAMBDA i : Fail(dentry_free(a.s, a.d), i.err), LAMBDA i : i))
==============================================================================
