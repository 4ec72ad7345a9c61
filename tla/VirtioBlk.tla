------------------------------ MODULE VirtioBlk ------------------------------
(***************************************************************************)
(* The block device: blk_read and blk_write of src/hal/blk.c, the request  *)
(* of src/hal/virtio/virtio_blk.c, its queue of src/hal/virtio/virtq.c and *)
(* the start-up of src/hal/virtio/virtio_mmio.c, with the device as the    *)
(* other side.                                                             *)
(*                                                                         *)
(* A request holds the lock of its block device from its allocation to its *)
(* end and polls for the answer.  The answer may also be taken by the      *)
(* interrupt handler of another hart.  What runs under vq->lock waits for  *)
(* nothing and the device does not look at a descriptor before avail->idx  *)
(* covers it, so each such section is one step; virtq_has_buf reads        *)
(* without the lock and is a step of its own.  The driver leaves the       *)
(* device's interrupt masked for the time being (virtio_blk.c:246): the    *)
(* specification lets it fire at any time or not at all.                   *)
(***************************************************************************)
EXTENDS Integers, Sequences, SequencesExt, FiniteSets

CONSTANTS
    Harts,
    Values,       \* contents of a sector
    Capacity,     \* sectors of the disk
    SectorMod,    \* 2^64: sector numbers wrap here
    VIRTQ_SIZE,   \* queue size that the driver asks for
    QueueMax,     \* the values the device may offer in QUEUE_NUM_MAX
    IdxMod,       \* 2^16: avail->idx and used->idx wrap here
    Nobody        \* no hart, no request

ASSUME VirtioAssumption ==
    /\ Capacity \in 1..(SectorMod - 1) /\ VIRTQ_SIZE \in Nat \ {0}
    /\ QueueMax \subseteq Nat
    /\ \A n \in QueueMax \ {0} : IdxMod % n = 0
    /\ IdxMod \in Nat /\ IdxMod > 1 /\ IdxMod % VIRTQ_SIZE = 0
    /\ SectorMod \in Nat /\ Nobody \notin Harts \cup Nat

VARIABLES
    boot,        \* next step of virtio_blk_init
    status,      \* the device's status register
    virtio_blk,  \* the global pointer: "null", "live" or "freed"
    vq,          \* the virtqueue, driver's side and the avail ring
    used,        \* the used ring: the device writes it
    dev,         \* the device: where it is in the avail ring and what it serves
    disk,        \* sector -> value
    req,         \* per hart: its request
    buf,         \* per hart: the caller's buffer, between call and return
    pc, done,    \* per hart: next step, request taken from the queue
    dev_lock,    \* holder of blk_dev.lock
    irq          \* the interrupt: device's INT_STATUS, and PLIC claim

vars == <<boot, status, virtio_blk, vq, used, dev, disk, req, buf, pc, done, dev_lock, irq>>
bootv == <<boot, status, virtio_blk>>

Sectors == 0..(SectorMod - 1)
NoReq == [live |-> FALSE, write |-> FALSE, sector |-> 0, status |-> "IOERR", completed |-> FALSE]
FreeDesc(next) == [buf |-> <<"none", Nobody>>, cont |-> TRUE, write |-> FALSE, next |-> next]

\* The state that virtq_create leaves, for a queue of num descriptors.
virtq_create(num) ==
    [num |-> num, num_free |-> num, free_head |-> 0, avail_idx |-> 0, used_idx |-> 0,
     data |-> [i \in 0..(num - 1) |-> Nobody],
     ring |-> [i \in 0..(num - 1) |-> 0],
     descs |-> [i \in 0..(num - 1) |->
                  IF i = num - 1 THEN [FreeDesc(0) EXCEPT !.cont = FALSE] ELSE FreeDesc(i + 1)]]

Init ==
    /\ boot = "probe" /\ status = {} /\ virtio_blk = "null"
    /\ vq = virtq_create(0)
    /\ used = [idx |-> 0, ring |-> <<>>]
    /\ dev = [idx |-> 0, notified |-> FALSE, serving |-> Nobody]
    /\ disk \in [0..(Capacity - 1) -> Values]
    /\ req = [h \in Harts |-> NoReq]
    /\ buf = [h \in Harts |-> Nobody]
    /\ pc = [h \in Harts |-> "idle"] /\ done = [h \in Harts |-> Nobody]
    /\ dev_lock = Nobody
    /\ irq = [raised |-> FALSE, claimed |-> FALSE]
-----------------------------------------------------------------------------
(* virtio_blk_init.  A status bit that is written may not read back.  Every *)
(* failure after the allocation frees the structure and leaves the pointer. *)
fail ==
    /\ boot' = "failed"
    /\ virtio_blk' = IF virtio_blk = "live" THEN "freed" ELSE virtio_blk
    /\ UNCHANGED vq

\* virtio_mmio_probe, the test of the device id, and the allocation.
probe ==
    /\ boot = "probe"
    /\ \/ boot' = "mmio" /\ virtio_blk' = "live" /\ UNCHANGED vq
       \/ fail
    /\ UNCHANGED status

\* virtio_mmio_init: reset, ACKNOWLEDGE, DRIVER.
virtio_mmio_init ==
    /\ boot = "mmio"
    /\ \E bits \in {{}, {"ACKNOWLEDGE"}, {"ACKNOWLEDGE", "DRIVER"}} :
          /\ status' = bits
          /\ IF "DRIVER" \in bits THEN boot' = "features" /\ UNCHANGED <<virtio_blk, vq>> ELSE fail

\* virtio_negotiate_features.
virtio_negotiate_features ==
    /\ boot = "features"
    /\ \/ /\ status' = status \cup {"FEATURES_OK"}
          /\ boot' = "vq" /\ UNCHANGED <<virtio_blk, vq>>
       \/ status' = {"FAILED"} /\ fail

\* virtio_setup_vq: the smaller of the two sizes; 0 is a failure, and so is a
\* failed allocation in virtq_create.
virtio_setup_vq ==
    /\ boot = "vq"
    /\ \E max \in QueueMax : LET num == IF VIRTQ_SIZE > max THEN max ELSE VIRTQ_SIZE IN
          \/ /\ num > 0
             /\ vq' = virtq_create(num) /\ boot' = "config" /\ UNCHANGED virtio_blk
          \/ fail
    /\ UNCHANGED status

\* The rest: the configuration, DRIVER_OK and blk_register, which finds the
\* registry empty.
register ==
    /\ boot = "config"
    /\ status' = status \cup {"DRIVER_OK"}
    /\ boot' = "done"
    /\ UNCHANGED <<virtio_blk, vq>>

virtio_blk_init ==
    /\ probe \/ virtio_mmio_init \/ virtio_negotiate_features \/ virtio_setup_vq \/ register
    /\ used' = [used EXCEPT !.ring = [i \in 0..(vq'.num - 1) |-> 0]]
    /\ UNCHANGED <<dev, disk, req, buf, pc, done, dev_lock, irq>>
-----------------------------------------------------------------------------
(* The queue. *)

\* The descriptors that virtq_alloc_desc hands out next, n of them.
alloc_descs(q, n) ==
    LET at[i \in 1..n] == IF i = 1 THEN q.free_head ELSE q.descs[at[i - 1]].next IN at

\* The descriptors of the chain that begins at head.
chain(q, head) ==
    LET upto[n \in 0..(q.num - 1)] ==
          IF n = 0 THEN <<head>>
          ELSE LET s == upto[n - 1] d == q.descs[Last(s)] IN
               IF d.cont THEN Append(s, d.next) ELSE s
    IN  upto[q.num - 1]

\* virtq_add_buf: the first n_in buffers are read by the device and the others
\* written.  The caller has tested that there is room.
virtq_add_buf(q, bufs, n_in, token) ==
    LET n == Len(bufs)
        ds == alloc_descs(q, n)
    IN  [q EXCEPT !.data[ds[1]] = token, !.num_free = @ - n,
                  !.free_head = q.descs[ds[n]].next,
                  !.descs = [d \in DOMAIN @ |->
                     IF \E i \in 1..n : ds[i] = d
                       THEN LET i == CHOOSE i \in 1..n : ds[i] = d IN
                            [buf |-> bufs[i], cont |-> i < n, write |-> i > n_in,
                             next |-> IF i < n THEN ds[i + 1] ELSE 0]
                       ELSE @[d]],
                  !.ring[q.avail_idx % q.num] = ds[1],
                  !.avail_idx = (@ + 1) % IdxMod]

\* virtq_free_desc for each descriptor of c, the first one first.
free_descs(q, c) ==
    [q EXCEPT !.num_free = @ + Len(c), !.free_head = Last(c),
              !.descs = [d \in DOMAIN @ |->
                 IF \E i \in DOMAIN c : c[i] = d
                   THEN LET i == CHOOSE i \in DOMAIN c : c[i] = d IN
                        FreeDesc(IF i = 1 THEN q.free_head ELSE c[i - 1])
                   ELSE @[d]]]

\* virtq_get_buf, when the used ring is not empty: the head it takes and the
\* queue it leaves.
taken(q) == used.ring[q.used_idx % q.num]

\* Mutant: only the head of the chain goes back to the free list.
virtq_get_buf_head(q) ==
    [free_descs(q, <<taken(q)>>) EXCEPT
        !.data[taken(q)] = Nobody, !.used_idx = (@ + 1) % IdxMod]

virtq_get_buf(q) ==
    [free_descs(q, chain(q, taken(q))) EXCEPT
        !.data[taken(q)] = Nobody, !.used_idx = (@ + 1) % IdxMod]

virtq_has_buf == vq.used_idx # used.idx
-----------------------------------------------------------------------------
(* A request. *)
Goto(h, l) == pc' = [pc EXCEPT ![h] = l]

\* blk_read or blk_write: blk_lookup finds the device or the call fails.
blk_call(h) ==
    /\ pc[h] = "idle" /\ boot = "done"
    /\ Goto(h, "lock")
    /\ UNCHANGED <<bootv, vq, used, dev, disk, req, buf, done, dev_lock, irq>>

\* The lock of the block device, the test of the capacity (in u64) and the
\* allocation of the request.  The caller's arguments matter from here on.
start(h) ==
    /\ pc[h] = "lock" /\ dev_lock = Nobody
    /\ dev_lock' = h
    /\ \E w \in BOOLEAN, s \in Sectors, v \in Values :
          /\ buf' = [buf EXCEPT ![h] = IF w THEN v ELSE Nobody]
          /\ \/ /\ (s + 1) % SectorMod <= Capacity
                /\ req' = [req EXCEPT ![h] = [NoReq EXCEPT !.live = TRUE, !.write = w, !.sector = s]]
                /\ Goto(h, "add")
             \/ Goto(h, "error") /\ UNCHANGED req
    /\ UNCHANGED <<bootv, vq, used, dev, disk, done, irq>>

\* in_bufs and out_bufs of virtio_blk_rw_internal: the data are among out_bufs
\* whether the request is a read or a write.
bufs(h) == <<<<"hdr", h>>, <<"data", h>>, <<"status", h>>>>

\* Mutant: the data are among in_bufs, for reads too.
n_in_data == 2
n_in == 1

add(h) ==
    /\ pc[h] = "add"
    /\ IF Len(bufs(h)) > vq.num_free
         THEN /\ req' = [req EXCEPT ![h].live = FALSE]
              /\ Goto(h, "error") /\ UNCHANGED vq
         ELSE /\ vq' = virtq_add_buf(vq, bufs(h), n_in, h)
              /\ Goto(h, "kick") /\ UNCHANGED req
    /\ UNCHANGED <<bootv, used, dev, disk, buf, done, dev_lock, irq>>

\* Mutant: the device is not told.
virtq_kick_lost(h) ==
    /\ pc[h] = "kick"
    /\ Goto(h, "poll")
    /\ UNCHANGED <<bootv, vq, used, dev, disk, req, buf, done, dev_lock, irq>>

virtq_kick(h) ==
    /\ pc[h] = "kick"
    /\ dev' = [dev EXCEPT !.notified = TRUE]
    /\ Goto(h, "poll")
    /\ UNCHANGED <<bootv, vq, used, disk, req, buf, done, dev_lock, irq>>

\* The loop of virtio_blk_rw_internal and the one of virtio_blk_isr: test the
\* used ring, take a request from it, mark it.  `loop' is where the loop goes on.
take(h, loop) ==
    /\ done' = [done EXCEPT ![h] = IF virtq_has_buf THEN vq.data[taken(vq)] ELSE Nobody]
    /\ vq' = IF virtq_has_buf THEN virtq_get_buf(vq) ELSE vq
    /\ Goto(h, IF done'[h] = Nobody THEN loop ELSE IF loop = "poll" THEN "mark" ELSE "isr_mark")
    /\ UNCHANGED <<bootv, used, dev, disk, req, buf, dev_lock, irq>>

mark(h, loop) ==
    /\ req' = [req EXCEPT ![done[h]].completed = TRUE]
    /\ done' = [done EXCEPT ![h] = Nobody]
    /\ Goto(h, loop)
    /\ UNCHANGED <<bootv, vq, used, dev, disk, buf, dev_lock, irq>>

poll(h) ==
    /\ pc[h] = "poll"
    /\ \/ req[h].completed /\ Goto(h, "finish")
       \/ ~req[h].completed /\ virtq_has_buf /\ Goto(h, "take")
    /\ UNCHANGED <<bootv, vq, used, dev, disk, req, buf, done, dev_lock, irq>>

poll_take(h) == pc[h] = "take" /\ take(h, "poll")
poll_mark(h) == pc[h] = "mark" /\ mark(h, "poll")

\* Mutant: the caller does not wait for the answer.
finish_early(h) ==
    /\ pc[h] \in {"poll", "finish"}
    /\ req' = [req EXCEPT ![h].live = FALSE]
    /\ Goto(h, IF req[h].status = "OK" THEN "ok" ELSE "error")
    /\ UNCHANGED <<bootv, vq, used, dev, disk, buf, done, dev_lock, irq>>

\* The request is freed and its status returned.
finish(h) ==
    /\ pc[h] = "finish"
    /\ req' = [req EXCEPT ![h].live = FALSE]
    /\ Goto(h, IF req[h].status = "OK" THEN "ok" ELSE "error")
    /\ UNCHANGED <<bootv, vq, used, dev, disk, buf, done, dev_lock, irq>>

\* The lock of the block device is released and the caller gets the result.
blk_return(h) ==
    /\ pc[h] \in {"ok", "error"}
    /\ dev_lock' = Nobody
    /\ req' = [req EXCEPT ![h] = NoReq]
    /\ buf' = [buf EXCEPT ![h] = Nobody]
    /\ Goto(h, "idle")
    /\ UNCHANGED <<bootv, vq, used, dev, disk, done, irq>>
-----------------------------------------------------------------------------
(* The interrupt.  A hart that holds or waits for a lock has interrupts off. *)
pending == irq.raised /\ ~irq.claimed

\* The trap, which any hart may take; handle_external returns when the claim
\* finds that another hart was first.
trap(h) ==
    /\ pc[h] = "idle" /\ pending
    /\ Goto(h, "claim")
    /\ UNCHANGED <<bootv, vq, used, dev, disk, req, buf, done, dev_lock, irq>>

handle_external(h) ==
    /\ pc[h] = "claim"
    /\ IF pending THEN irq' = [irq EXCEPT !.claimed = TRUE] /\ Goto(h, "ack")
                  ELSE UNCHANGED irq /\ Goto(h, "idle")
    /\ UNCHANGED <<bootv, vq, used, dev, disk, req, buf, done, dev_lock>>

\* virtio_irq_handler: INT_STATUS is acknowledged before the ring is looked at.
virtio_irq_handler(h) ==
    /\ pc[h] = "ack"
    /\ irq' = [irq EXCEPT !.raised = FALSE]
    /\ Goto(h, "isr")
    /\ UNCHANGED <<bootv, vq, used, dev, disk, req, buf, done, dev_lock>>

\* The loop of virtio_blk_isr; plic_complete follows it.
virtio_blk_isr(h) ==
    /\ pc[h] = "isr"
    /\ IF virtq_has_buf THEN Goto(h, "isr_take") /\ UNCHANGED irq
       ELSE Goto(h, "idle") /\ irq' = [irq EXCEPT !.claimed = FALSE]
    /\ UNCHANGED <<bootv, vq, used, dev, disk, req, buf, done, dev_lock>>

isr_take(h) == pc[h] = "isr_take" /\ take(h, "isr")
isr_mark(h) == pc[h] = "isr_mark" /\ mark(h, "isr")
-----------------------------------------------------------------------------
(* The device. *)
OfKind(k) ==
    LET c == chain(vq, dev.serving) IN {i \in DOMAIN c : vq.descs[c[i]].buf[1] = k}
HdrOwner == vq.descs[dev.serving].buf[2]

\* It takes the next chain of the avail ring once it is told that there is one.
device_take ==
    /\ dev.notified /\ dev.serving = Nobody
    /\ IF dev.idx = vq.avail_idx
         THEN dev' = [dev EXCEPT !.notified = FALSE]
         ELSE dev' = [dev EXCEPT !.serving = vq.ring[dev.idx % vq.num], !.idx = (@ + 1) % IdxMod]
    /\ UNCHANGED <<bootv, vq, used, disk, req, buf, pc, done, dev_lock, irq>>

\* It reads the data of a write from the descriptors it may read and writes the
\* data of a read to those it may write.  It may fail; it does when the sector
\* does not exist.  The used ring entry and the interrupt come last.
device_serve ==
    LET r == req[HdrOwner]
        d == CHOOSE i \in OfKind("data") : TRUE
        writable == vq.descs[chain(vq, dev.serving)[d]].write
    IN  /\ dev.serving # Nobody
        /\ \/ /\ r.sector < Capacity
              /\ req' = [req EXCEPT ![HdrOwner].status = "OK"]
              /\ disk' = IF r.write /\ ~writable THEN [disk EXCEPT ![r.sector] = buf[HdrOwner]] ELSE disk
              /\ buf' = IF ~r.write /\ writable THEN [buf EXCEPT ![HdrOwner] = disk[r.sector]] ELSE buf
           \/ /\ req' = [req EXCEPT ![HdrOwner].status = "IOERR"]
              /\ UNCHANGED <<disk, buf>>
        /\ used' = [idx |-> (used.idx + 1) % IdxMod,
                    ring |-> [used.ring EXCEPT ![used.idx % vq.num] = dev.serving]]
        /\ dev' = [dev EXCEPT !.serving = Nobody]
        /\ irq' = [irq EXCEPT !.raised = TRUE]
        /\ UNCHANGED <<bootv, vq, pc, done, dev_lock>>

Driver(h) ==
    \/ start(h) \/ add(h) \/ virtq_kick(h) \/ poll(h) \/ poll_take(h) \/ poll_mark(h)
    \/ finish(h) \/ blk_return(h)
    \/ handle_external(h) \/ virtio_irq_handler(h)
    \/ virtio_blk_isr(h) \/ isr_take(h) \/ isr_mark(h)

Next ==
    \/ virtio_blk_init
    \/ \E h \in Harts : blk_call(h) \/ trap(h) \/ Driver(h)
    \/ device_take
    \/ device_serve

Spec == Init /\ [][Next]_vars

\* Code that runs on a hart goes on; the device answers what it is told of.
FairSpec ==
    /\ Spec
    /\ \A h \in Harts : WF_vars(Driver(h))
    /\ WF_vars(device_take) /\ WF_vars(device_serve)
-----------------------------------------------------------------------------
InFlight == {i \in DOMAIN vq.data : vq.data[i] # Nobody}

\* Descriptors.  Those of the requests in flight and those of the free list are
\* different ones and together all of them, and num_free is the length of the
\* list: the list runs through the same next fields as the chains, across any
\* number of requests.
DescriptorsPartitioned ==
    LET free == alloc_descs(vq, vq.num_free)
        busy == UNION {ToSet(chain(vq, i)) : i \in InFlight}
    IN  /\ Cardinality({free[i] : i \in DOMAIN free}) = vq.num_free
        /\ {free[i] : i \in DOMAIN free} \cap busy = {}
        /\ vq.num_free + Cardinality(busy) = vq.num

\* Lifetime.  A request that the queue, the device or a handler on another hart
\* can still reach has not been freed, and its caller is still waiting.
ReachableIsLive ==
    /\ \A i \in InFlight : req[vq.data[i]].live
    /\ \A h \in Harts : done[h] # Nobody => req[done[h]].live /\ ~req[done[h]].completed
    /\ dev.serving # Nobody => dev.serving \in InFlight /\ req[HdrOwner].live

\* A read that succeeds leaves in the caller's buffer what the sector holds, and
\* no request succeeds for a sector past the end, although the test of the
\* capacity wraps.
ReadReturnsSector ==
    \A h \in Harts : pc[h] = "ok" =>
        /\ req[h].sector < Capacity
        /\ ~req[h].write => buf[h] = disk[req[h].sector]

\* A request that was submitted ends, whoever takes its answer from the ring.
RequestEnds ==
    \A h \in Harts : pc[h] = "kick" ~> pc[h] \in {"ok", "error"}

\* A block write that succeeds has reached the disk.
WriteReachesDisk ==
    \A h \in Harts : pc[h] = "ok" /\ req[h].write => disk[req[h].sector] = buf[h]
-----------------------------------------------------------------------------
(* The inductive invariant. *)
Descs(q) == 0..(q.num - 1)
Idx == 0..(IdxMod - 1)
Owning == {"add", "kick", "poll", "take", "mark", "finish", "ok", "error"}
Labels == Owning \cup {"idle", "lock", "claim", "ack", "isr", "isr_take", "isr_mark"}
Kinds == {"none", "hdr", "data", "status"}
Desc == [buf : Kinds \X (Harts \cup {Nobody}), cont : BOOLEAN, write : BOOLEAN, next : Nat]
Queue(n) ==
    [num : {n}, num_free : Nat, free_head : Nat, avail_idx : Idx, used_idx : Idx,
     data : [0..(n - 1) -> Harts \cup {Nobody}], ring : [0..(n - 1) -> Nat],
     descs : [0..(n - 1) -> Desc]]

TypeOK ==
    /\ boot \in {"probe", "mmio", "features", "vq", "config", "done", "failed"}
    /\ vq.num \in Nat /\ vq \in Queue(vq.num)
    /\ used \in [idx : Idx, ring : [Descs(vq) -> Nat]]
    /\ dev \in [idx : Idx, notified : BOOLEAN, serving : Nat \cup {Nobody}]
    /\ disk \in [0..(Capacity - 1) -> Values]
    /\ req \in [Harts -> [live : BOOLEAN, write : BOOLEAN, sector : Sectors,
                          status : {"OK", "IOERR"}, completed : BOOLEAN]]
    /\ buf \in [Harts -> Values \cup {Nobody}]
    /\ pc \in [Harts -> Labels] /\ done \in [Harts -> Harts \cup {Nobody}]
    /\ dev_lock \in Harts \cup {Nobody}
    /\ irq \in [raised : BOOLEAN, claimed : BOOLEAN]

\* Nothing runs before the device is registered.
Booting ==
    boot # "done" => /\ \A h \in Harts : pc[h] = "idle"
                     /\ ~irq.raised /\ ~dev.notified
                     /\ vq = virtq_create(vq.num) /\ used.idx = 0 /\ dev.idx = 0

\* A hart has the lock of the device in a request, and a request taken from the
\* queue only until it marks it.
Locking ==
    \A h \in Harts : /\ dev_lock = h <=> pc[h] \in Owning
                     /\ done[h] # Nobody <=> pc[h] \in {"mark", "isr_mark"}

\* fl is the free list of q from its head on, none of it in busy.
FreeList(q, fl, busy) ==
    /\ \A i, j \in 1..q.num_free : fl[i] = fl[j] => i = j
    /\ \A i \in 1..q.num_free : fl[i] \notin busy
    /\ q.num_free > 0 => fl[1] = q.free_head
    /\ \A i \in 2..q.num_free : fl[i] = q.descs[fl[i - 1]].next
Rest(q, busy) ==
    /\ q.num_free + Cardinality(busy) = q.num
    /\ \E fl \in [1..q.num_free -> Descs(q)] : FreeList(q, fl, busy)

\* The queue holds no request.
Empty ==
    /\ vq.data = [i \in Descs(vq) |-> Nobody] /\ Rest(vq, {})
    /\ vq.used_idx = vq.avail_idx /\ used.idx = vq.avail_idx /\ dev.idx = vq.avail_idx
    /\ dev.serving = Nobody

\* It holds the request of h, in the descriptors a, b and c ...
Flight(q, h, a, b, c) ==
    /\ a # b /\ b # c /\ a # c /\ Rest(q, {a, b, c})
    /\ q.data = [i \in Descs(q) |-> IF i = a THEN h ELSE Nobody]
    /\ q.descs[a] = [buf |-> <<"hdr", h>>, cont |-> TRUE, write |-> FALSE, next |-> b]
    /\ q.descs[b] = [buf |-> <<"data", h>>, cont |-> TRUE, write |-> TRUE, next |-> c]
    /\ q.descs[c] = [buf |-> <<"status", h>>, cont |-> FALSE, write |-> TRUE, next |-> 0]

\* What the answer OK means.
Result(h) ==
    req[h].status = "OK" =>
        /\ req[h].sector < Capacity
        /\ ~req[h].write => buf[h] = disk[req[h].sector]

\* ... which wait for the device, are with it, or wait for the driver.
NextIdx(i) == (i + 1) % IdxMod
Queued(a) ==
    /\ dev.serving = Nobody /\ vq.ring[dev.idx % vq.num] = a
    /\ vq.avail_idx = NextIdx(dev.idx) /\ used.idx = dev.idx /\ vq.used_idx = dev.idx
Serving(a) ==
    /\ dev.serving = a /\ dev.idx = vq.avail_idx
    /\ vq.avail_idx = NextIdx(used.idx) /\ vq.used_idx = used.idx
Answered(a) ==
    /\ dev.serving = Nobody /\ dev.idx = vq.avail_idx /\ used.idx = vq.avail_idx
    /\ vq.avail_idx = NextIdx(vq.used_idx) /\ used.ring[vq.used_idx % vq.num] = a

\* The request in progress: in the queue, taken from it, or settled.
Submitted ==
    /\ dev_lock \in Harts /\ pc[dev_lock] \in {"kick", "poll", "take"}
    /\ req[dev_lock].live /\ ~req[dev_lock].completed
    /\ \A h \in Harts : done[h] = Nobody
    /\ \E a, b, c \in Descs(vq) :
          /\ Flight(vq, dev_lock, a, b, c)
          /\ Queued(a) \/ Serving(a) \/ (Answered(a) /\ Result(dev_lock))
Taken ==
    /\ dev_lock \in Harts /\ pc[dev_lock] \in {"kick", "poll", "take", "mark"}
    /\ req[dev_lock].live /\ ~req[dev_lock].completed /\ Result(dev_lock)
    /\ Empty
    /\ \E g \in Harts : \A h \in Harts : done[h] = IF h = g THEN dev_lock ELSE Nobody
Settled ==
    /\ Empty
    /\ \A h \in Harts : done[h] = Nobody
    /\ dev_lock \in Harts =>
          \/ pc[dev_lock] = "add" /\ req[dev_lock].live /\ ~req[dev_lock].completed
          \/ /\ pc[dev_lock] \in {"kick", "poll", "take", "finish"} /\ req[dev_lock].completed
             /\ Result(dev_lock)
          \/ pc[dev_lock] = "ok" /\ req[dev_lock].status = "OK" /\ Result(dev_lock)
          \/ pc[dev_lock] = "error"

IInv == TypeOK /\ Booting /\ Locking /\ (Submitted \/ Taken \/ Settled)
==============================================================================
