------------------------------- MODULE Files ---------------------------------
(***************************************************************************)
(* Open files and descriptor tables: src/fs/file.c and src/fs/fd_table.c.  *)
(* Threads of one process share the table "own"; fd_table_dup makes the    *)
(* table "copy" from it and fd_table_free drops that one again.  A thread  *)
(* opens as open, fd_alloc, fd_install, uses a descriptor as fd_get, an    *)
(* operation, file_put, and closes with fd_free; a file that could not be  *)
(* installed is closed with vfs_close.                                     *)
(*                                                                         *)
(* What runs under the lock of a table, or under file->f_lock without      *)
(* waiting, is one step.  file_write reads and stores inode->i_size under  *)
(* f_lock only, so these are steps.  open_fds, file_list and count are     *)
(* read by nothing and left out.                                           *)
(***************************************************************************)
EXTENDS Integers, FiniteSets

CONSTANTS
    Threads, Pool,       \* callers, and struct file objects
    Inodes,
    NR_OPEN_DEFAULT, NR_OPEN_MAX,
    MaxPos,              \* bound on file positions
    RefMod,              \* 2^32: f_refcnt wraps here
    None

ASSUME FilesAssumption ==
    /\ NR_OPEN_DEFAULT \in Nat \ {0} /\ NR_OPEN_MAX \in Nat /\ NR_OPEN_DEFAULT <= NR_OPEN_MAX
    /\ IsFiniteSet(Threads) /\ RefMod \in Nat /\ RefMod > Cardinality(Threads) + 3
    /\ MaxPos \in Nat /\ None \notin Threads \cup Pool \cup Inodes

VARIABLES
    file,    \* per object: live, f_refcnt, f_inode, f_pos, O_APPEND
    f_lock,  \* per object: the thread in file_write
    fds,     \* per table: descriptor -> file; NoTable for a table that is not there
    i_size,
    pc, fp,  \* per thread: next step, the file it has in hand
    fd,      \* per thread: the descriptor it got from fd_alloc
    pos,     \* per thread: local of file_write
    written, \* per inode: the end of what file_write has written
    opens    \* per inode: how often it has been opened (0, 1, 2: more than once)

vars == <<file, f_lock, fds, i_size, pc, fp, fd, pos, written, opens>>
locals == <<fd, pos>>
data == <<i_size, written, opens>>

Tables == {"own", "copy"}
NoTable == [i \in {} |-> None]
\* A freed struct file, and what file_alloc and file_open make of it.
Closed == [live |-> FALSE, ref |-> 0, ino |-> None, pos |-> 0, append |-> FALSE]
Opened(n, a) == [live |-> TRUE, ref |-> 1, ino |-> n, pos |-> 0, append |-> a]
Dec(n) == (n + RefMod - 1) % RefMod

\* fd_table_alloc.
fd_table_alloc == [i \in 0..(NR_OPEN_DEFAULT - 1) |-> None]

Init ==
    /\ file = [f \in Pool |-> Closed] /\ f_lock = [f \in Pool |-> None]
    /\ fds = [t \in Tables |-> IF t = "own" THEN fd_table_alloc ELSE NoTable]
    /\ i_size = [n \in Inodes |-> 0] /\ written = [n \in Inodes |-> 0]
    /\ opens = [n \in Inodes |-> 0]
    /\ pc = [c \in Threads |-> "idle"] /\ fp = [c \in Threads |-> None]
    /\ fd = [c \in Threads |-> 0] /\ pos = [c \in Threads |-> 0]

Goto(c, l) == pc' = [pc EXCEPT ![c] = l]
Unlocked(f) == f_lock[f] = None

\* file_put: at zero it calls file_close, which counts down once more, to the
\* largest value, and so neither releases nor frees the file.
file_put(r) == IF Dec(r.ref) = 0 THEN [r EXCEPT !.ref = Dec(Dec(@))] ELSE [r EXCEPT !.ref = Dec(@)]

\* file_close: the file is freed at zero.
file_close(r) == IF Dec(r.ref) = 0 THEN Closed ELSE [r EXCEPT !.ref = Dec(@)]

file_get(r) == [r EXCEPT !.ref = (@ + 1) % RefMod]
-----------------------------------------------------------------------------
(* Opening. *)

\* file_open: file_alloc, and the file system's open, which may fail and then
\* everything is undone.
file_open(c) ==
    /\ pc[c] = "idle"
    /\ \E f \in Pool, n \in Inodes, a \in BOOLEAN :
          /\ ~file[f].live
          /\ file' = [file EXCEPT ![f] = Opened(n, a)]
          /\ fp' = [fp EXCEPT ![c] = f]
          /\ opens' = [opens EXCEPT ![n] = IF @ = 2 THEN 2 ELSE @ + 1]
    /\ Goto(c, "alloc")
    /\ UNCHANGED <<f_lock, fds, i_size, written, locals>>

FreeSlots(t) == {i \in DOMAIN fds[t] : fds[t][i] = None}
MaxFds(t) == Cardinality(DOMAIN fds[t])

\* The table of fd_alloc when it is full: twice as long.
grown(t) ==
    LET max == IF 2 * MaxFds(t) > NR_OPEN_MAX THEN NR_OPEN_MAX ELSE 2 * MaxFds(t)
    IN  [i \in 0..(max - 1) |-> IF i < MaxFds(t) THEN fds[t][i] ELSE None]

\* fd_alloc: the first empty slot, which is not marked; -EMFILE when the table
\* cannot grow.
fd_alloc(c) ==
    /\ pc[c] = "alloc"
    /\ \/ /\ FreeSlots("own") # {}
          /\ fd' = [fd EXCEPT ![c] = CHOOSE i \in FreeSlots("own") : \A j \in FreeSlots("own") : i <= j]
          /\ Goto(c, "install") /\ UNCHANGED fds
       \/ /\ FreeSlots("own") = {} /\ MaxFds("own") < NR_OPEN_MAX
          /\ fds' = [fds EXCEPT !["own"] = grown("own")]
          /\ fd' = [fd EXCEPT ![c] = Cardinality(DOMAIN grown("own")) \div 2]
          /\ Goto(c, "install")
       \/ /\ FreeSlots("own") = {}
          /\ Goto(c, "close") /\ UNCHANGED <<fds, fd>>
    /\ UNCHANGED <<file, f_lock, fp, pos, data>>

\* Mutant: the slot is not tested again.
fd_install_blind(c) ==
    /\ pc[c] = "install"
    /\ fds' = [fds EXCEPT !["own"][fd[c]] = fp[c]]
    /\ fp' = [fp EXCEPT ![c] = None]
    /\ fd' = [fd EXCEPT ![c] = 0]
    /\ Goto(c, "idle")
    /\ UNCHANGED <<file, f_lock, pos, data>>

\* fd_install: -EBADF when another thread has filled the slot.
fd_install(c) ==
    /\ pc[c] = "install"
    /\ IF fds["own"][fd[c]] # None
         THEN Goto(c, "close") /\ UNCHANGED <<fds, fp>>
         ELSE /\ fds' = [fds EXCEPT !["own"][fd[c]] = fp[c]]
              /\ fp' = [fp EXCEPT ![c] = None]
              /\ Goto(c, "idle")
    /\ fd' = [fd EXCEPT ![c] = 0]
    /\ UNCHANGED <<file, f_lock, pos, data>>

vfs_close(c) ==
    /\ pc[c] = "close"
    /\ file' = [file EXCEPT ![fp[c]] = file_close(@)]
    /\ fp' = [fp EXCEPT ![c] = None]
    /\ Goto(c, "idle")
    /\ UNCHANGED <<f_lock, fds, locals, data>>
-----------------------------------------------------------------------------
(* Descriptors. *)
Filled(t) == {i \in DOMAIN fds[t] : fds[t][i] # None}
InTable(t) == {fds[t][i] : i \in Filled(t)}

fd_get(c) ==
    /\ pc[c] = "idle"
    /\ \E i \in Filled("own") : LET f == fds["own"][i] IN
          /\ Unlocked(f)
          /\ file' = [file EXCEPT ![f] = file_get(@)]
          /\ fp' = [fp EXCEPT ![c] = f]
    /\ Goto(c, "io")
    /\ UNCHANGED <<f_lock, fds, locals, data>>

put(c) ==
    /\ pc[c] \in {"io", "put"} /\ Unlocked(fp[c])
    /\ file' = [file EXCEPT ![fp[c]] = file_put(@)]
    /\ fp' = [fp EXCEPT ![c] = None]
    /\ Goto(c, "idle")
    /\ UNCHANGED <<f_lock, fds, locals, data>>

fd_free(c) ==
    /\ pc[c] = "idle"
    /\ \E i \in Filled("own") :
          /\ Unlocked(fds["own"][i])
          /\ file' = [file EXCEPT ![fds["own"][i]] = file_put(@)]
          /\ fds' = [fds EXCEPT !["own"][i] = None]
    /\ UNCHANGED <<f_lock, pc, fp, locals, data>>

\* Mutant: the copy does not count.
fd_table_dup_uncounted ==
    /\ fds["copy"] = NoTable /\ \A f \in InTable("own") : Unlocked(f)
    /\ fds' = [fds EXCEPT !["copy"] = [i \in DOMAIN fd_table_alloc |-> fds["own"][i]]]
    /\ UNCHANGED <<file, f_lock, pc, fp, locals, data>>

\* fd_table_dup: the descriptors that fit into a new table.
fd_table_dup ==
    /\ fds["copy"] = NoTable /\ \A f \in InTable("own") : Unlocked(f)
    /\ fds' = [fds EXCEPT !["copy"] = [i \in DOMAIN fd_table_alloc |-> fds["own"][i]]]
    /\ file' = [f \in Pool |-> IF \E i \in DOMAIN fd_table_alloc : fds["own"][i] = f
                               THEN file_get(file[f]) ELSE file[f]]
    /\ UNCHANGED <<f_lock, pc, fp, locals, data>>

fd_table_free ==
    /\ fds["copy"] # NoTable /\ \A f \in InTable("copy") : Unlocked(f)
    /\ file' = [f \in Pool |-> IF f \in InTable("copy") THEN file_put(file[f]) ELSE file[f]]
    /\ fds' = [fds EXCEPT !["copy"] = NoTable]
    /\ UNCHANGED <<f_lock, pc, fp, locals, data>>
-----------------------------------------------------------------------------
(* The operations on a file in hand: one byte is read or written. *)
file_read(c) == LET f == fp[c] n == file[f].ino IN
    /\ pc[c] = "io" /\ Unlocked(f)
    /\ file' = [file EXCEPT ![f].pos = IF @ < i_size[n] THEN @ + 1 ELSE @]
    /\ Goto(c, "put")
    /\ UNCHANGED <<f_lock, fds, fp, locals, data>>

\* file_lseek by -1, 0 or 1 from the start, the position or the end.
file_lseek(c) == LET f == fp[c] IN
    /\ pc[c] = "io" /\ Unlocked(f)
    /\ \E from \in {0, file[f].pos, i_size[file[f].ino]}, offset \in -1..1 :
          /\ from + offset \in 0..MaxPos
          /\ file' = [file EXCEPT ![f].pos = from + offset]
    /\ Goto(c, "put")
    /\ UNCHANGED <<f_lock, fds, fp, locals, data>>

\* Mutant: the file is not locked.
file_write_unlocked(c) == LET f == fp[c] IN
    /\ pc[c] = "io"
    /\ LET p == IF file[f].append THEN i_size[file[f].ino] ELSE file[f].pos IN
          p < MaxPos /\ pos' = [pos EXCEPT ![c] = p + 1]
    /\ Goto(c, "write")
    /\ UNCHANGED <<file, f_lock, fds, fp, fd, data>>

\* file_write: the lock, and the position of the write.
file_write(c) == LET f == fp[c] IN
    /\ pc[c] = "io" /\ Unlocked(f)
    /\ f_lock' = [f_lock EXCEPT ![f] = c]
    /\ LET p == IF file[f].append THEN i_size[file[f].ino] ELSE file[f].pos IN
          p < MaxPos /\ pos' = [pos EXCEPT ![c] = p + 1]
    /\ Goto(c, "write")
    /\ UNCHANGED <<file, fds, fp, fd, data>>

\* f_op->write has moved the position: store it and compare it with i_size.
write_test(c) == LET f == fp[c] n == file[f].ino IN
    /\ pc[c] = "write"
    /\ file' = [file EXCEPT ![f].pos = pos[c]]
    /\ written' = [written EXCEPT ![n] = IF pos[c] > @ THEN pos[c] ELSE @]
    /\ Goto(c, IF pos[c] > i_size[n] THEN "size" ELSE "unlock")
    /\ UNCHANGED <<f_lock, fds, i_size, opens, fp, locals>>

write_size(c) ==
    /\ pc[c] = "size"
    /\ i_size' = [i_size EXCEPT ![file[fp[c]].ino] = pos[c]]
    /\ Goto(c, "unlock")
    /\ UNCHANGED <<file, f_lock, fds, written, opens, fp, locals>>

write_end(c) ==
    /\ pc[c] = "unlock"
    /\ f_lock' = [f_lock EXCEPT ![fp[c]] = None]
    /\ pos' = [pos EXCEPT ![c] = 0]
    /\ Goto(c, "put")
    /\ UNCHANGED <<file, fds, fp, fd, data>>

Next ==
    \/ fd_table_dup
    \/ fd_table_free
    \/ \E c \in Threads :
         \/ file_open(c) \/ fd_alloc(c) \/ fd_install(c) \/ vfs_close(c)
         \/ fd_get(c) \/ put(c) \/ fd_free(c)
         \/ file_read(c) \/ file_lseek(c)
         \/ file_write(c) \/ write_test(c) \/ write_size(c) \/ write_end(c)

Spec == Init /\ [][Next]_vars
-----------------------------------------------------------------------------
Holders(f) == {c \in Threads : fp[c] = f}
Refs(f) == Cardinality({t \in Tables : f \in InTable(t)}) + Cardinality(Holders(f))

\* A file that a descriptor or a thread refers to is not freed, and f_refcnt
\* counts these references; a file that lost the last one by file_put stays
\* allocated with a count that has wrapped.
RefsExact ==
    \A f \in Pool :
        /\ Refs(f) > 0 => file[f].live /\ file[f].ref = Refs(f)
        /\ Refs(f) = 0 => file[f] = Closed \/ file[f].ref = RefMod - 1

\* A descriptor keeps its file until it is closed, although fd_alloc gives the
\* same slot to two threads.
DescriptorStable ==
    [][\A i \in DOMAIN fds["own"] :
          fds["own"][i] # None => fds'["own"][i] \in {fds["own"][i], None}]_vars

\* A file that was opened once has a size that covers everything written through
\* it, whatever threads share it.  (Two opens of an inode have two locks.)
SizeCovers ==
    \A n \in Inodes : opens[n] = 1 /\ (\A c \in Threads : pc[c] \notin {"size"}) =>
        i_size[n] = written[n]
-----------------------------------------------------------------------------
(* The inductive invariant. *)
Writing == {"write", "size", "unlock"}
Labels == {"idle", "alloc", "install", "close", "io", "put"} \cup Writing
Record == [live : BOOLEAN, ref : 0..(RefMod - 1), ino : Inodes \cup {None}, pos : Nat,
           append : BOOLEAN]
Table(n) == [0..(n - 1) -> Pool \cup {None}]

TypeOK ==
    /\ file \in [Pool -> Record] /\ f_lock \in [Pool -> Threads \cup {None}]
    /\ fds = [t \in Tables |-> fds[t]]
    /\ \E n \in NR_OPEN_DEFAULT..NR_OPEN_MAX : fds["own"] \in Table(n)
    /\ fds["copy"] = NoTable \/ fds["copy"] \in Table(NR_OPEN_DEFAULT)
    /\ i_size \in [Inodes -> Nat] /\ written \in [Inodes -> Nat] /\ opens \in [Inodes -> 0..2]
    /\ pc \in [Threads -> Labels] /\ fp \in [Threads -> Pool \cup {None}]
    /\ fd \in [Threads -> Nat] /\ pos \in [Threads -> Nat]

\* A table has a file in one slot at most; a thread that opens a file is the only
\* one to know it, and the slot it was given exists.
Slots ==
    /\ \A t \in Tables : \A i, j \in Filled(t) : fds[t][i] = fds[t][j] => i = j
    /\ \A c \in Threads : pc[c] \in {"alloc", "install", "close"} =>
          /\ \A t \in Tables : fp[c] \notin InTable(t)
          /\ \A d \in Threads : fp[d] = fp[c] => d = c
    /\ \A c \in Threads : pc[c] = "install" => fd[c] \in DOMAIN fds["own"]

InHand == \A c \in Threads : fp[c] = None <=> pc[c] = "idle"

\* RefsExact: a file without references is free, or leaked with a wrapped count.
Counted ==
    \A f \in Pool :
        /\ file[f].live => file[f].ino \in Inodes
        /\ Refs(f) > 0 => file[f].live /\ file[f].ref = Refs(f)
        /\ Refs(f) = 0 => file[f] = Closed \/ (file[f].live /\ file[f].ref = RefMod - 1)

Locked == \A f \in Pool, c \in Threads : f_lock[f] = c <=> fp[c] = f /\ pc[c] \in Writing

\* An inode that was opened once has one struct file, whose lock covers the test
\* of i_size and its update.
Growing(n) == {c \in Threads : pc[c] = "size" /\ file[fp[c]].ino = n}
Sizes ==
    \A n \in Inodes : opens[n] # 2 =>
        /\ \A f, g \in Pool : file[f].live /\ file[g].live /\ file[f].ino = n /\ file[g].ino = n => f = g
        /\ opens[n] = 0 => \A f \in Pool : ~(file[f].live /\ file[f].ino = n)
        /\ Growing(n) = {} => i_size[n] = written[n]
        /\ \A c \in Growing(n) : pos[c] = written[n]

IInv == TypeOK /\ Slots /\ InHand /\ Counted /\ Locked /\ Sizes
==============================================================================
