----------------------------- MODULE BlockStore ------------------------------
(***************************************************************************)
(* What the buffer cache promises its users: between bread and brelse a    *)
(* hart has a block to itself, bread shows it what the disk holds, and     *)
(* what it wrote with bwrite is on the disk when it gives the block back.  *)
(* Nothing is promised of a block after an I/O error on it.                *)
(***************************************************************************)
CONSTANTS Harts, Blocks, Values, Nobody

VARIABLES
    store,   \* block -> its value on the disk
    owner,   \* block -> the hart that has it
    seen,    \* block -> the value that its owner sees
    bad      \* blocks with an I/O error

vars == <<store, owner, seen, bad>>

Init ==
    /\ store \in [Blocks -> Values]
    /\ owner = [b \in Blocks |-> Nobody]
    /\ seen = [b \in Blocks |-> Nobody]
    /\ bad = {}

Open(h, b) ==
    /\ owner[b] = Nobody
    /\ owner' = [owner EXCEPT ![b] = h]
    /\ \E v \in Values : seen' = [seen EXCEPT ![b] = v] /\ (v = store[b] \/ b \in bad')
    /\ bad' \in {bad, bad \cup {b}}
    /\ UNCHANGED store

Edit(h, b) ==
    /\ owner[b] = h
    /\ \E v \in Values : seen' = [seen EXCEPT ![b] = v]
    /\ UNCHANGED <<store, owner, bad>>

\* The owner's write; without an owner, only a bad block changes.
Write(b) ==
    /\ \/ store' = [store EXCEPT ![b] = seen[b]] /\ owner[b] # Nobody /\ UNCHANGED bad
       \/ b \in bad /\ UNCHANGED bad /\ \E v \in Values : store' = [store EXCEPT ![b] = v]
       \/ bad' = bad \cup {b} /\ UNCHANGED store
    /\ UNCHANGED <<owner, seen>>

Close(h, b) ==
    /\ owner[b] = h
    /\ seen[b] = store[b] \/ b \in bad
    /\ owner' = [owner EXCEPT ![b] = Nobody]
    /\ seen' = [seen EXCEPT ![b] = Nobody]
    /\ UNCHANGED <<store, bad>>

Next ==
    \E b \in Blocks : \/ Write(b)
                      \/ \E h \in Harts : Open(h, b) \/ Edit(h, b) \/ Close(h, b)

Spec == Init /\ [][Next]_vars
==============================================================================
