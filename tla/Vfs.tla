--------------------------------- MODULE Vfs ---------------------------------
(***************************************************************************)
(* Path walk, mounts and the calls of the virtual file system:             *)
(* src/fs/namei.c, src/fs/vfs.c and src/fs/super.c, over the caches of     *)
(* Dcache.  A call is one step: what threads of one process do with files  *)
(* at the same time is the subject of Files.  A path is the sequence of    *)
(* its components.                                                         *)
(*                                                                         *)
(* The file systems are not part of the kernel source: fs_lookup,          *)
(* fs_create, fs_remove, fs_rename and fs_mount are what the code expects  *)
(* of i_op and of file_system_type.  "root" is mounted first, "other" at   *)
(* any directory; a number is given to a new inode when nothing names it   *)
(* on disk or in the cache.                                                *)
(***************************************************************************)
EXTENDS Dcache

CONSTANTS
    Paths, NewPaths, Targets,  \* arguments of lookups, of calls that make a name, of mounts
    InoSb, RootIno,            \* file system of a number, number of each root directory
    Disk, DiskDirs,            \* what is on the disks at boot: entries, directories
    NFiles                     \* bound: struct file objects

Sbs == {"root", "other"}

ASSUME VfsAssumption ==
    /\ NFiles \in Nat /\ InoSb \in [Inos -> Sbs] /\ RootIno \in [Sbs -> Inos]
    /\ \A sb \in Sbs : InoSb[RootIno[sb]] = sb
    /\ Disk \subseteq DiskDirs \X Names \X Inos /\ DiskDirs \subseteq Inos
    /\ \A e \in Disk : InoSb[e[1]] = InoSb[e[3]]
    /\ Paths \cup NewPaths \cup Targets \subseteq Seq(Components)

VARIABLES
    dent, ht, iref,   \* see Dcache
    entry, dirs,      \* on disk: <<directory, name, number>>, and which are directories
    s_count,          \* per super block, 0 when it is not mounted
    mounts,           \* vfs_state.mount_list, newest first
    files             \* open files

vars == <<dent, ht, iref, entry, dirs, s_count, mounts, files>>

Now == [dent |-> dent, ht |-> ht, iref |-> iref, entry |-> entry, dirs |-> dirs,
        s_count |-> s_count, mounts |-> mounts, files |-> files]
Becomes(s) ==
    /\ dent' = s.dent /\ ht' = s.ht /\ iref' = s.iref /\ entry' = s.entry /\ dirs' = s.dirs
    /\ s_count' = s.s_count /\ mounts' = s.mounts /\ files' = s.files

\* vfs_init.
Init ==
    /\ dent = dentry_init /\ ht = hashtable_init /\ iref = inode_init
    /\ entry = Disk /\ dirs = DiskDirs
    /\ s_count = [sb \in Sbs |-> 0] /\ mounts = <<>> /\ files = {}

IsDir(s, d) == s.dent[d].ino \in s.dirs
-----------------------------------------------------------------------------
(* The file systems. *)
DirOf(s, d) == s.dent[s.dent[d].parent].ino
Named(s, d) == {e \in s.entry : e[1] = DirOf(s, d) /\ e[2] = s.dent[d].name}
Instantiate(s, d, i) == [inode_get(s, i) EXCEPT !.dent[d].ino = i]

fs_lookup(s, d) ==
    IF Named(s, d) = {} THEN Fail(s, "ENOENT")
    ELSE Ok(Instantiate(s, d, (CHOOSE e \in Named(s, d) : TRUE)[3]), d)

Unused(s, sb) ==
    {i \in Inos : InoSb[i] = sb /\ i # RootIno[sb] /\ s.iref[i] = 0 /\ \A e \in s.entry : e[3] # i}

fs_create(s, d, isdir) ==
    IF Named(s, d) # {} \/ s.dent[d].name \notin Names \/ Unused(s, s.dent[d].sb) = {}
      THEN Fail(s, "EEXIST")
      ELSE LET i == Min(Unused(s, s.dent[d].sb))
               made == [s EXCEPT !.entry = @ \cup {<<DirOf(s, d), s.dent[d].name, i>>},
                                 !.dirs = IF isdir THEN @ \cup {i} ELSE @ \ {i}]
           IN  Ok(Instantiate(made, d, i), d)

fs_remove(s, d) ==
    IF Named(s, d) = {} \/ \E e \in s.entry : e[1] = s.dent[d].ino THEN Fail(s, "ENOTEMPTY")
    ELSE Ok([s EXCEPT !.entry = @ \ Named(s, d)], d)

\* A directory is only renamed where it is.
fs_rename(s, old, new) ==
    IF \/ Named(s, old) = {} \/ Named(s, new) # {} \/ s.dent[new].name \notin Names
       \/ s.dent[old].sb # s.dent[new].sb
       \/ IsDir(s, old) /\ DirOf(s, old) # DirOf(s, new)
      THEN Fail(s, "EINVAL")
      ELSE LET i == s.dent[old].ino
               moved == [s EXCEPT !.entry = (@ \ Named(s, old)) \cup
                                            {<<DirOf(s, new), s.dent[new].name, i>>}]
           IN  Ok(Instantiate(moved, new, i), new)

\* super.c: a super block starts with one count and is freed with the last one.
super_alloc(s, sb) == [s EXCEPT !.s_count[sb] = 1]
super_free(s, sb) == [s EXCEPT !.s_count[sb] = 0]
super_put(s, sb) ==
    IF s.s_count[sb] = 1 THEN super_free(s, sb) ELSE [s EXCEPT !.s_count[sb] = @ - 1]

\* The super block, and the root dentry with its inode; one instance of each.
fs_mount(s, sb) ==
    IF s.s_count[sb] # 0 THEN Fail(s, "EBUSY")
    ELSE Then(dentry_root(s, sb), LAMBDA r :
            Ok(super_alloc(Instantiate(r.s, r.d, RootIno[sb]), sb), r.d))

\* kill_sb undoes it.
fs_kill(s, sb, root) == super_put(dentry_free(s, root), sb)
-----------------------------------------------------------------------------
(* namei.c *)

\* vfs_lookup_mount: the root of the first mount whose mount point has the parent
\* and the name of d, 0 for none.
vfs_lookup_mount(s, d) ==
    LET hit == {i \in DOMAIN s.mounts : /\ s.dent[s.mounts[i].mp].parent = s.dent[d].parent
                                        /\ s.dent[s.mounts[i].mp].name = s.dent[d].name}
    IN  IF hit = {} THEN 0 ELSE s.mounts[Min(hit)].root

follow_mount(s, d) ==
    LET root == vfs_lookup_mount(s, d)
    IN  IF root = 0 THEN Ok(s, d) ELSE Ok(dentry_get(dentry_put(s, d), root), root)

\* vfs_lookup_single starts in what is mounted on the directory, if anything is.
mounted_on(s, dir) ==
    LET root == vfs_lookup_mount(s, dir) IN IF root = 0 THEN dir ELSE root
lookup_in(s, base, n) ==
    IF ~IsDir(s, base) THEN Fail(s, "ENOTDIR")
    ELSE IF dentry_lookup(s, base, n) # 0 THEN Ok(s, dentry_lookup(s, base, n))
    ELSE Then(dentry_alloc(s, base, s.dent[base].sb, n), LAMBDA a :
            Call(fs_lookup(a.s, a.d),
                 LAMBDA l : Fail(dentry_free(a.s, a.d), l.err),
                 LAMBDA l : Ok(dentry_insert(l.s, a.d).s, a.d)))
vfs_lookup_single(s, dir, n) == lookup_in(s, mounted_on(s, dir), n)

\* Mutant: every walk stays below its start.
walk_dotdot_stays(s, d) == d

\* "..": the parent, without a reference.
walk_dotdot(s, d) == s.dent[d].parent

\* One component of vfs_path_walk.  With the next component the last one must
\* have been a directory.
walk_step(w, n) ==
    Then(w, LAMBDA v :
        IF ~v.first /\ ~IsDir(v.s, v.d)
          THEN [v EXCEPT !.s = dentry_put(v.s, v.d), !.err = "ENOTDIR"]
        ELSE IF n = "." THEN [v EXCEPT !.first = FALSE]
        ELSE IF n = ".." THEN [v EXCEPT !.first = FALSE, !.d = walk_dotdot(v.s, v.d)]
        ELSE Call(vfs_lookup_single(v.s, v.d, n),
                  LAMBDA l : [v EXCEPT !.s = l.s, !.err = l.err],
                  LAMBDA l : Then(follow_mount(l.s, l.d), LAMBDA f :
                      [v EXCEPT !.first = FALSE, !.s = dentry_put(f.s, v.d), !.d = f.d])))

vfs_path_walk(s, base, p) ==
    LET start == [s |-> s, d |-> base, err |-> "0", first |-> TRUE]
        upto[n \in 0..Len(p)] == IF n = 0 THEN start ELSE walk_step(upto[n - 1], p[n])
    IN  upto[Len(p)]

\* The caller has checked that there is a root.
vfs_get_root(s) == s.mounts[Len(s.mounts)].root

\* vfs_path_lookup: after a failure base is put, even if the walk has put it.
vfs_path_lookup(s, p) ==
    LET base == vfs_get_root(s)
    IN  Call(vfs_path_walk(dentry_get(s, base), base, p),
             LAMBDA w : Fail(dentry_put(w.s, base), w.err),
             LAMBDA w : Ok(w.s, w.d))

parent_step(w, n) ==
    Then(w, LAMBDA v :
        Call(vfs_lookup_single(v.s, v.d, n),
             LAMBDA l : [v EXCEPT !.s = l.s, !.err = l.err],
             LAMBDA l : Then(follow_mount(l.s, l.d), LAMBDA f :
                 [v EXCEPT !.s = IF v.d # v.base THEN dentry_put(f.s, v.d) ELSE f.s, !.d = f.d])))

\* The last component is not looked up.
parent_walk(s, base, p) ==
    LET start == [s |-> s, d |-> base, base |-> base, err |-> "0"]
        upto[n \in 0..Len(p)] ==
            IF n = 0 THEN start
            ELSE IF n = Len(p) THEN upto[n - 1] ELSE parent_step(upto[n - 1], p[n])
    IN  upto[Len(p)]

\* vfs_path_parent: base keeps its reference when the parent is not base.
vfs_path_parent(s, p) ==
    LET base == vfs_get_root(s)
    IN  Call(parent_walk(dentry_get(s, base), base, p),
             LAMBDA w : Fail(dentry_put(w.s, base), w.err),
             LAMBDA w : Ok(w.s, w.d))

LastName(p) == IF p = <<>> THEN NoName ELSE Last(p)
-----------------------------------------------------------------------------
(* vfs.c and super.c: mounting. *)
Mounted == mounts # <<>>

\* vfs_state.super_list is written only.
vfs_mount(s, sb) == fs_mount(s, sb)
vfs_umount(s, sb, root) == fs_kill(s, sb, root)

\* kmalloc of the mount may fail.
vfs_mount_root ==
    /\ ~Mounted
    /\ LET r == vfs_mount(Now, "root")
       IN  /\ r.err = "0"
           /\ \/ Becomes(vfs_umount(r.s, "root", r.d))
              \/ Becomes([r.s EXCEPT !.mounts = <<[mp |-> r.d, root |-> r.d, sb |-> "root"]>>])

\* vfs_mount_to, with the results of its lookup and of vfs_mount; kmalloc of the
\* mount may fail.
mount_at(l, r) ==
    \/ l.err # "0" /\ Becomes(l.s)
    \/ l.err = "0" /\ ~IsDir(l.s, l.d) /\ Becomes(dentry_put(l.s, l.d))
    \/ l.err = "0" /\ IsDir(l.s, l.d) /\ r.err # "0" /\ Becomes(dentry_put(r.s, l.d))
    \/ /\ l.err = "0" /\ IsDir(l.s, l.d) /\ r.err = "0"
       /\ \/ Becomes(dentry_put(vfs_umount(r.s, "other", r.d), l.d))
          \/ Becomes([r.s EXCEPT !.mounts = <<[mp |-> l.d, root |-> r.d, sb |-> "other"]>> \o @])
vfs_mount_to(p) ==
    /\ Mounted
    /\ \E l \in {vfs_path_lookup(Now, p)} : mount_at(l, vfs_mount(l.s, "other"))

\* vfs_mount_put of the last reference, when nothing uses the file system:
\* super_put frees the super block, both dentries stay.
vfs_mount_put(k) ==
    LET m == mounts[k]
    IN  /\ m.sb = "other" /\ \A f \in files : dent[f.d].sb # m.sb
        /\ \A o \in Range(mounts) : dent[o.mp].sb # m.sb
        /\ Becomes([dentry_put(dentry_put(super_put(Now, m.sb), m.mp), m.root) EXCEPT
                       !.mounts = RemoveAt(@, k)])
-----------------------------------------------------------------------------
(* vfs.c: names. *)

\* The common part of vfs_create, vfs_mkdir and vfs_open with O_CREAT.
make(s, p, isdir) ==
    Then(vfs_path_parent(s, p), LAMBDA q :
        IF ~IsDir(q.s, q.d) THEN Fail(dentry_put(q.s, q.d), "ENOTDIR")
        ELSE Call(dentry_alloc(q.s, q.d, q.s.dent[q.d].sb, LastName(p)),
                  LAMBDA a : Fail(dentry_put(a.s, q.d), a.err),
                  LAMBDA a : Call(fs_create(a.s, a.d, isdir),
                      LAMBDA c : Fail(dentry_put(dentry_free(a.s, a.d), q.d), c.err),
                      LAMBDA c : Ok(dentry_put(dentry_insert(c.s, a.d).s, q.d), a.d))))

made(p, isdir) ==
    /\ Mounted
    /\ Becomes(Call(make(Now, p, isdir), LAMBDA r : r.s, LAMBDA r : dentry_put(r.s, r.d)))
vfs_create(p) == made(p, FALSE)
vfs_mkdir(p) == made(p, TRUE)

\* file_open has its own reference; that of the lookup is never put.
file_open(s, d) ==
    IF Cardinality(s.files) = NFiles THEN dentry_put(s, d)
    ELSE [dentry_get(s, d) EXCEPT !.files = @ \cup {[d |-> d, ino |-> s.dent[d].ino]}]

or_make(l, p, creat) == IF l.err = "ENOENT" /\ creat THEN make(l.s, p, FALSE) ELSE l
vfs_open(p, creat) ==
    /\ Mounted
    /\ Becomes(Call(or_make(vfs_path_lookup(Now, p), p, creat),
                    LAMBDA r : r.s, LAMBDA r : file_open(r.s, r.d)))

vfs_close(f) == Becomes([dentry_put(Now, f.d) EXCEPT !.files = @ \ {f}])

\* The common part of vfs_unlink and vfs_rmdir.
removed(p, isdir) ==
    /\ Mounted
    /\ Becomes(Call(vfs_path_lookup(Now, p), LAMBDA l : l.s, LAMBDA l :
                    IF IsDir(l.s, l.d) # isdir THEN dentry_put(l.s, l.d)
                    ELSE Call(fs_remove(l.s, l.d), LAMBDA r : dentry_put(l.s, l.d),
                              LAMBDA r : dentry_delete(r.s, l.d))))
vfs_unlink(p) == removed(p, FALSE)
vfs_rmdir(p) == removed(p, TRUE)

\* The end of vfs_rename: in the directory par, new beside old.
renamed(old, par, new) ==
    LET puts(s) == dentry_put(dentry_put(s, old.d), par.d)
    IN  Call(new, LAMBDA n : puts(par.s), LAMBDA n :
            Call(fs_rename(n.s, old.d, n.d),
                 LAMBDA r : puts(dentry_free(n.s, n.d)),
                 LAMBDA r : dentry_put(dentry_put(dentry_delete(dentry_insert(r.s, n.d).s, old.d),
                                                  n.d), par.d)))
vfs_rename(p, q) ==
    /\ Mounted
    /\ Becomes(Call(vfs_path_lookup(Now, p), LAMBDA old : old.s, LAMBDA old :
                    Call(vfs_path_parent(old.s, q),
                         LAMBDA par : dentry_put(par.s, old.d),
                         LAMBDA par :
                             IF ~IsDir(par.s, par.d)
                               THEN dentry_put(dentry_put(par.s, old.d), par.d)
                               ELSE renamed(old, par, dentry_alloc(par.s, par.d,
                                               par.s.dent[par.d].sb, LastName(q))))))

\* vfs_statfs: the lookup is what it changes.
vfs_statfs(p) ==
    /\ Mounted
    /\ Becomes(Call(vfs_path_lookup(Now, p), LAMBDA l : l.s, LAMBDA l : dentry_put(l.s, l.d)))

Next ==
    \/ vfs_mount_root
    \/ \E p \in Targets : vfs_mount_to(p)
    \/ \E k \in DOMAIN mounts : vfs_mount_put(k)
    \/ \E p \in NewPaths : vfs_create(p) \/ vfs_mkdir(p)
    \/ \E p \in Paths : vfs_open(p, FALSE)
    \/ \E p \in NewPaths : vfs_open(p, TRUE)
    \/ \E f \in files : vfs_close(f)
    \/ \E p \in Paths : vfs_unlink(p) \/ vfs_rmdir(p) \/ vfs_statfs(p)
    \/ \E p \in Paths, q \in NewPaths : vfs_rename(p, q)

Spec == Init /\ [][Next]_vars
-----------------------------------------------------------------------------
(* Properties. *)
Live(d) == d \in Dentries /\ dent[d].live

\* What the kernel will follow again is not freed: the dentries of the hash table,
\* the root of a mount, and the dentry of a mount point or of an open file with its
\* parent, by which vfs_lookup_mount and dentry_free follow it; nothing is said of
\* what is above that.  An open file keeps the inode it was opened on through unlink,
\* rmdir and rename, and d_refcnt counts the file, but for a root: failed walks put
\* that once too often.
NoDangling ==
    /\ \A k \in DOMAIN ht : Live(ht[k])
    /\ \A m \in Range(mounts) : Live(m.mp) /\ Live(dent[m.mp].parent) /\ Live(m.root)
    /\ \A f \in files : /\ Live(f.d) /\ Live(dent[f.d].parent)
                        /\ dent[f.d].ino = f.ino /\ iref[f.ino] > 0
                        /\ dent[f.d].parent # f.d => dent[f.d].ref > 0

\* i_refcnt is the number of dentries that name the inode.
InodeRefsExact == \A i \in Inos : iref[i] = Cardinality({d \in Dentries : dent[d].live /\ dent[d].ino = i})

\* A mount whose mount point is not directly below a root.
Deep(m) == dent[dent[m.mp].parent].parent # dent[m.mp].parent

\* The inode a path leads to, from the tables on disk and the mounts in M: a stack of
\* inodes, the last one the place reached, the first one the root it cannot leave;
\* <<>> for no place.
Top(M, i) ==
    LET over == SelectSeq(M, LAMBDA m : dent[m.mp].ino = i)
    IN  IF over = <<>> THEN i ELSE dent[over[1].root].ino
resolve(M, at, n) ==
    LET here == Last(at)
        found == {e \in entry : e[1] = Top(M, here) /\ e[2] = n}
        next == (CHOOSE e \in found : TRUE)[3]
    IN  IF at = <<>> \/ here \notin dirs THEN <<>>
        ELSE IF n = "." THEN at
        ELSE IF n = ".." THEN (IF Len(at) = 1 THEN at ELSE Front(at))
        ELSE IF found = {} THEN <<>>
        ELSE IF Top(M, next) # next THEN <<Top(M, next)>>
        ELSE IF Top(M, here) # here THEN <<Top(M, here), next>>
        ELSE Append(at, next)
place(M, p) == FoldLeft(LAMBDA at, n : resolve(M, at, n), <<RootIno["root"]>>, p)

\* The result of a lookup is that place; a walk that has no dentry left is out of it.
LeadsTo(l, at) ==
    l.err # "ENOMEM" =>
        IF at = <<>> THEN l.err # "0" ELSE l.err = "0" /\ l.s.dent[l.d].ino = Last(at)

\* vfs_path_lookup finds what the path names now, whatever was created, renamed,
\* removed, mounted and leaked before, or fails where it names nothing.  With no deep
\* mount that is the place in the tree of all mounts.  A deep mount has no effect at
\* all: vfs_lookup_mount compares the parents of dentries, the walk that mounted was
\* the only one with that parent, and every later walk passes below the mount to the
\* directory that it should cover.
LookupAgrees ==
    Mounted => \A p \in Paths :
        LeadsTo(vfs_path_lookup(Now, p), place(SelectSeq(mounts, LAMBDA m : ~Deep(m)), p))
-----------------------------------------------------------------------------
(* The inductive invariant. *)
Dentry == [live : BOOLEAN, parent : Dentries \cup {0}, name : Components,
           sb : Sbs \cup {NoName}, ino : Inos \cup {0}, ref : Nat]
Tables == UNION {[K -> Dentries] : K \in SUBSET (0..(HashSize - 1))}
State == [dent : [Dentries -> Dentry], ht : Tables, iref : [Inos -> Nat],
          entry : SUBSET (Inos \X Names \X Inos), dirs : SUBSET Inos,
          s_count : [Sbs -> Int],
          mounts : Seq([mp : Dentries, root : Dentries, sb : Sbs]),
          files : SUBSET [d : Dentries, ino : Inos]]

\* Between calls: a live dentry has a parent and an inode, the hash table has live
\* dentries under their keys, and inodes are counted.
Users(D, i) == {d \in Dentries : D[d].live /\ D[d].ino = i}
Tree(D, H, R) ==
    /\ D \in [Dentries -> Dentry] /\ H \in Tables /\ R \in [Inos -> Nat]
    /\ \A d \in Dentries : IF D[d].live THEN D[d].parent # 0 /\ D[d].ino # 0 ELSE D[d] = NoDentry
    /\ \A k \in DOMAIN H : D[H[k]].live /\ KeyOf[D[H[k]].parent][D[H[k]].name] = k
    /\ \A i \in Inos : R[i] = Cardinality(Users(D, i))

\* What mounts and files refer to.
IsRoot(D, d) == D[d].live /\ D[d].parent = d /\ D[d].name = "/"
Placed(D, d) == D[d].live /\ D[D[d].parent].live
Anchored(s) ==
    /\ \A m \in Range(s.mounts) : IsRoot(s.dent, m.root) /\ Placed(s.dent, m.mp)
    /\ \A f \in s.files :
          /\ Placed(s.dent, f.d) /\ s.dent[f.d].ino = f.ino
          /\ s.dent[f.d].parent # f.d => \A m \in Range(s.mounts) : m.mp # f.d

\* ".." ends the paths it is in.
SafeWalks == \A p \in Paths \cup NewPaths \cup Targets : \A i \in 1..(Len(p) - 1) : p[i] # ".."

\* Then the dentries of open files are counted.
Counted(s) == \A f \in s.files : s.dent[f.d].parent # f.d => s.dent[f.d].ref > 0

Consistent(s) ==
    /\ s \in State /\ Tree(s.dent, s.ht, s.iref) /\ Anchored(s)
    /\ SafeWalks => Counted(s)
IInv == Consistent(Now)
==============================================================================
