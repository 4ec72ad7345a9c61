---------------------------- MODULE Sched_proofs -----------------------------
(* Proofs about the scheduler, for any number of threads, any queue at boot  *)
(* and any set of threads that return from their function.                   *)
EXTENDS Sched, FiniteSetTheorems, TLAPS

-----------------------------------------------------------------------------
(* Sequences of threads. *)
Elems(q) == {q[i] : i \in 1..Len(q)}
Once(q) == \A i, j \in 1..Len(q) : q[i] = q[j] => i = j

\* list_add_tail of a thread that is not in the queue.
LEMMA AppendOnce ==
    ASSUME NEW q \in Seq(Threads), NEW x \in Threads, NEW r, r = Append(q, x)
    PROVE  /\ r \in Seq(Threads) /\ Elems(r) = Elems(q) \cup {x}
           /\ Once(q) /\ x \notin Elems(q) => Once(r)
<1>1. /\ r \in Seq(Threads) /\ Len(r) = Len(q) + 1 /\ Len(q) \in Nat
      /\ \A i \in 1..Len(q) : r[i] = q[i]
      /\ r[Len(q) + 1] = x
    OBVIOUS
<1>2. \A i \in 1..Len(r) : i \in 1..Len(q) \/ i = Len(q) + 1
    BY <1>1
<1>3. 1..Len(q) \subseteq 1..Len(r) /\ Len(q) + 1 \in 1..Len(r)
    BY <1>1
<1>4. Elems(r) = Elems(q) \cup {x}
    BY <1>1, <1>2, <1>3 DEF Elems
<1>5. ASSUME Once(q), x \notin Elems(q)
      PROVE  Once(r)
    <2> SUFFICES ASSUME NEW i \in 1..Len(r), NEW j \in 1..Len(r), r[i] = r[j]
                 PROVE  i = j
        BY DEF Once
    <2>1. \A k \in 1..Len(q) : r[k] # x
        BY <1>1, <1>5 DEF Elems
    <2> QED
        BY <1>1, <1>2, <1>5, <2>1 DEF Once
<1> QED
    BY <1>1, <1>4, <1>5

\* dequeue_proc takes one thread out of the queue, or stands for idle.
LEMMA DequeueOnce ==
    ASSUME NEW q \in Seq(Threads), Once(q)
    PROVE  /\ dequeued(q) \in Seq(Threads) /\ Once(dequeued(q))
           /\ first(q) = Idle \/ first(q) \in Elems(q)
           /\ first(q) = Idle => Elems(q) = {}
           /\ Elems(dequeued(q)) = Elems(q) \ {first(q)}
           /\ Elems(q) \subseteq Threads
<1>0. Elems(q) \subseteq Threads
    BY DEF Elems
<1>1. CASE q = <<>>
    BY <1>0, <1>1 DEF dequeued, first, Elems
<1>2. CASE q # <<>>
    <2>1. PICK r : r = Tail(q)
        OBVIOUS
    <2>2. /\ r \in Seq(Threads) /\ Len(q) \in Nat \ {0} /\ Len(r) = Len(q) - 1
          /\ \A i \in 1..Len(r) : r[i] = q[i + 1] /\ i + 1 \in 1..Len(q)
          /\ \A i \in 1..Len(q) : i # 1 => i - 1 \in 1..Len(r) /\ q[i] = r[i - 1]
          /\ 1 \in 1..Len(q) /\ Head(q) = q[1]
        BY <1>2, <2>1
    <2>3. first(q) = q[1] /\ dequeued(q) = r
        BY <1>2, <2>1, <2>2 DEF first, dequeued
    <2>4. Once(r)
        BY <2>2 DEF Once
    <2>5. q[1] \in Elems(q) /\ q[1] \in Threads
        BY <1>0, <2>2 DEF Elems
    <2>6. \A i \in 1..Len(r) : r[i] # q[1]
        BY <2>2 DEF Once
    <2>7. Elems(r) = Elems(q) \ {q[1]}
        <3>1. \A x \in Elems(r) : x \in Elems(q) \ {q[1]}
            BY <2>2, <2>6 DEF Elems
        <3>2. ASSUME NEW x \in Elems(q), x # q[1]
              PROVE  x \in Elems(r)
            <4>1. PICK i \in 1..Len(q) : x = q[i]
                BY DEF Elems
            <4> QED
                BY <2>2, <3>2, <4>1 DEF Elems
        <3> QED
            BY <3>1, <3>2
    <2> QED
        BY <1>0, <2>2, <2>3, <2>4, <2>5, <2>7, ThreadAssumption DEF ThreadAssumption
<1> QED
    BY <1>1, <1>2

\* A queue without repetition has as many members as entries.
LEMMA OnceCardinality ==
    ASSUME NEW q \in Seq(Threads), Once(q)
    PROVE  Cardinality(Elems(q)) = Len(q)
<1>1. IsFiniteSet(1..Len(q)) /\ Cardinality(1..Len(q)) = Len(q)
    <2>1. PICK n \in Nat : n = Len(q)
        OBVIOUS
    <2>2. IsFiniteSet(1..n) /\ Cardinality(1..n) = IF 1 > n THEN 0 ELSE n - 1 + 1
        BY FS_Interval
    <2>3. IsFiniteSet(1..n) /\ Cardinality(1..n) = n
        BY <2>2
    <2> QED
        BY <2>1, <2>3
<1>2. [i \in 1..Len(q) |-> q[i]] \in Bijection(1..Len(q), Elems(q))
    BY DEF Bijection, Injection, Surjection, IsInjective, Once, Elems
<1>3. ExistsBijection(1..Len(q), Elems(q))
    BY <1>2 DEF ExistsBijection
<1> QED
    BY <1>1, <1>3, FS_Bijection
-----------------------------------------------------------------------------
(* Contexts. *)

\* Steps within a thread keep the stack and the locals of its context.
LEMMA GotoFields ==
    ASSUME NEW c \in Contexts, NEW s \in Steps, NEW d, d = [c EXCEPT !.at = s]
    PROVE  /\ d \in Contexts /\ d.at = s /\ d.stack = c.stack /\ d.p = c.p /\ d.next = c.next
           /\ d.trapped = c.trapped /\ d.sie = c.sie
<1>1. d = [stack |-> c.stack, at |-> s, trapped |-> c.trapped, sie |-> c.sie, p |-> c.p, next |-> c.next]
    BY DEF Contexts
<1> QED
    BY <1>1 DEF Contexts

LEMMA StartFields ==
    ASSUME NEW q \in Procs, NEW d, d = Start(q)
    PROVE  /\ d \in Contexts /\ d.at = "run" /\ d.stack = q /\ d.sie = 1
BY DEF Start, Contexts, Steps
-----------------------------------------------------------------------------
LEMMA InitIInv == Init => IInv
<1> SUFFICES ASSUME Init PROVE IInv
    OBVIOUS
<1> USE ThreadAssumption DEF ThreadAssumption
<1>1. cur = Start(Idle) /\ Idle \in Procs /\ proc = Idle /\ queue = Boot
    BY DEF Init, Procs
<1>2. cur \in Contexts /\ cur.at = "run" /\ cur.stack = Idle
    BY <1>1, StartFields
<1>3. /\ ctx \in [Procs -> Contexts]
      /\ \A q \in Procs : ctx[q].at = "run" /\ ctx[q].stack = q
    <2>1. ctx = [q \in Procs |-> Start(q)]
        BY DEF Init
    <2>2. \A q \in Procs : ctx[q] \in Contexts /\ ctx[q].at = "run" /\ ctx[q].stack = q
        BY <2>1, StartFields
    <2> QED
        BY <2>1, <2>2
<1>4. /\ \A t \in Threads : state[t] = IF t \in Queued THEN "RUNNABLE" ELSE "UNUSED"
      /\ state[Idle] = "IDLE" /\ state \in [Procs -> {"UNUSED", "RUNNABLE", "RUNNING", "ZOMBIE", "IDLE"}]
    BY <1>1 DEF Init, Procs, Queued
<1>5. Queued \subseteq Threads
    BY <1>1 DEF Queued
<1>6. TypeOK
    BY <1>1, <1>2, <1>3, <1>4 DEF Init, TypeOK, Procs
<1>7. InQueueOnce
    BY <1>1, <1>4, <1>5 DEF InQueueOnce
<1>8. SavedProper /\ MadeOnce
    BY <1>2, <1>3 DEF SavedProper, MadeOnce, Proper, Making
<1>9. CurProper
    BY <1>1, <1>2 DEF CurProper, Proper, Making
<1>10. Kept
    <2>1. \A t \in Threads : state[t] = "RUNNABLE" => t \in Queued
        BY <1>4
    <2>2. \A t \in Queued : Waits(t)
        BY DEF Waits
    <2>3. halt = "no"
        BY DEF Init
    <2> QED
        BY <2>1, <2>2, <2>3 DEF Kept
<1> QED
    BY <1>6, <1>7, <1>8, <1>9, <1>10 DEF IInv

\* Steps within a thread's function or out of kerneltrap change nothing that is
\* shared.
LEMMA LocalStep ==
    ASSUME IInv, UNCHANGED <<state, ctx, queue, proc, halt>>,
           need_resched' \in BOOLEAN, intr_state' \in {0, 1}, sie' \in {0, 1},
           cur' \in Contexts, cur'.stack = cur.stack, cur'.p = cur.p, cur'.next = cur.next,
           \/ cur'.at = cur.at
           \/ cur.at \in {"run", "mask"} /\ cur'.at \in {"run", "mask"} /\ cur.stack # Idle
           \/ cur.at = "created" /\ cur'.at = "mask_enqueue"
    PROVE  IInv'
<1>1. TypeOK'
    BY DEF IInv, TypeOK
<1>2. InQueueOnce'
    BY DEF IInv, InQueueOnce, Queued
<1>3. Queued' = Queued /\ (Making(cur)' <=> Making(cur))
    BY DEF Queued, Making
<1>4. \A q \in Procs : Saved(q)' <=> Saved(q)
    BY DEF Saved
<1>5. \A q \in Procs : Proper(ctx[q], q) => Proper(ctx[q], q)'
    BY <1>3 DEF Proper, Making
<1>6. SavedProper'
    BY <1>4, <1>5 DEF IInv, SavedProper
<1>7. CurProper'
    BY <1>3 DEF IInv, CurProper, Proper, Making
<1>8. MadeOnce'
    BY <1>3, <1>4 DEF IInv, MadeOnce, Making
<1>9. Kept'
    BY <1>3 DEF IInv, Kept, NoExit, Waits, Making
<1> QED
    BY <1>1, <1>2, <1>6, <1>7, <1>8, <1>9 DEF IInv

\* spinlock_acquire, spinlock_release, the first half of enqueue_proc, kernelret.
LEMMA LocalSteps ==
    ASSUME IInv, \/ spinlock_acquire \/ spinlock_release \/ kernelret
                 \/ At("created") /\ enqueue_proc
    PROVE  IInv'
<1>0. cur \in Contexts /\ intr_state \in {0, 1} /\ sie \in {0, 1} /\ need_resched \in BOOLEAN
    BY DEF IInv, TypeOK
<1>1. CASE spinlock_acquire
    <2>1. cur' = [cur EXCEPT !.at = "mask"] /\ cur.at = "run" /\ cur.stack # Idle
        BY <1>1 DEF spinlock_acquire, Goto, At
    <2>2. /\ cur' \in Contexts /\ cur'.at = "mask" /\ cur'.stack = cur.stack /\ cur'.p = cur.p
          /\ cur'.next = cur.next
        BY <1>0, <2>1, GotoFields DEF Steps
    <2> QED
        BY <1>0, <1>1, <2>1, <2>2, LocalStep DEF spinlock_acquire, tasks
<1>2. CASE spinlock_release
    <2>1. cur' = [cur EXCEPT !.at = "run"] /\ cur.at = "mask"
        BY <1>2 DEF spinlock_release, Goto, At
    <2>2. /\ cur' \in Contexts /\ cur'.at = "run" /\ cur'.stack = cur.stack /\ cur'.p = cur.p
          /\ cur'.next = cur.next
        BY <1>0, <2>1, GotoFields DEF Steps
    <2>3. cur.stack # Idle
        BY <2>1 DEF IInv, CurProper, Proper
    <2> QED
        BY <1>0, <1>2, <2>1, <2>2, <2>3, LocalStep DEF spinlock_release, tasks
<1>3. CASE kernelret
    <2>1. cur' = [cur EXCEPT !.trapped = FALSE]
        BY <1>3 DEF kernelret
    <2>2. cur' = [stack |-> cur.stack, at |-> cur.at, trapped |-> FALSE, sie |-> cur.sie, p |-> cur.p,
                  next |-> cur.next]
        BY <1>0, <2>1 DEF Contexts
    <2>3. /\ cur' \in Contexts /\ cur'.at = cur.at /\ cur'.stack = cur.stack /\ cur'.p = cur.p
          /\ cur'.next = cur.next
        BY <1>0, <2>2 DEF Contexts
    <2> QED
        BY <1>0, <1>3, <2>3, LocalStep DEF kernelret, tasks
<1>4. CASE At("created") /\ enqueue_proc
    <2>1. cur' = [cur EXCEPT !.at = "mask_enqueue"] /\ cur.at = "created"
        BY <1>4 DEF enqueue_proc, Goto, At
    <2>2. /\ cur' \in Contexts /\ cur'.at = "mask_enqueue" /\ cur'.stack = cur.stack /\ cur'.p = cur.p
          /\ cur'.next = cur.next
        BY <1>0, <2>1, GotoFields DEF Steps
    <2>3. UNCHANGED <<state, ctx, queue, proc, halt, need_resched, sie>> /\ intr_state' = sie
        BY <1>4, <2>1 DEF enqueue_proc, At, tasks
    <2> QED
        BY <1>0, <2>1, <2>2, <2>3, LocalStep
<1> QED
    BY <1>1, <1>2, <1>3, <1>4

\* The second half of enqueue_proc queues the created thread.
LEMMA EnqueueStep == IInv /\ At("mask_enqueue") /\ enqueue_proc => IInv'
<1> SUFFICES ASSUME IInv, At("mask_enqueue"), enqueue_proc PROVE IInv'
    OBVIOUS
<1> USE ThreadAssumption DEF ThreadAssumption
<1>0. /\ cur \in Contexts /\ cur.at = "mask_enqueue" /\ intr_state \in {0, 1} /\ need_resched \in BOOLEAN
      /\ queue \in Seq(Threads)
    BY DEF IInv, TypeOK, At
<1>1. /\ queue' = Append(queue, cur.p) /\ cur' = [cur EXCEPT !.at = "run"] /\ sie' = intr_state
      /\ UNCHANGED <<state, ctx, proc, need_resched, intr_state, halt>>
    BY <1>0 DEF enqueue_proc, At, Goto
<1>2. /\ cur' \in Contexts /\ cur'.at = "run" /\ cur'.stack = cur.stack
    BY <1>0, <1>1, GotoFields DEF Steps
<1>3. cur.p \in Threads \ Queued /\ state[cur.p] = "RUNNABLE" /\ cur.stack = proc
    BY <1>0 DEF IInv, CurProper, Proper, Making
<1>4. Queued = Elems(queue) /\ Queued' = Elems(queue')
    BY DEF Queued, Elems
<1>5. queue' \in Seq(Threads) /\ Queued' = Queued \cup {cur.p} /\ Once(queue')
    <2>1. Once(queue)
        BY DEF IInv, InQueueOnce, Once
    <2> QED
        BY <1>0, <1>1, <1>3, <1>4, <2>1, AppendOnce
<1>6. TypeOK'
    BY <1>0, <1>1, <1>2, <1>5 DEF IInv, TypeOK
<1>7. InQueueOnce'
    BY <1>1, <1>3, <1>5 DEF IInv, InQueueOnce, Once
<1>8. \A q \in Procs : Saved(q)' => Saved(q)
    BY <1>0, <1>1, <1>2 DEF Saved
<1>9. \A q \in Procs : Saved(q) /\ Proper(ctx[q], q) => Proper(ctx[q], q)'
    BY <1>0, <1>1, <1>5 DEF IInv, MadeOnce, Proper, Making
<1>10. SavedProper'
    BY <1>1, <1>8, <1>9 DEF IInv, SavedProper
<1>11. CurProper'
    BY <1>0, <1>1, <1>2, <1>3 DEF IInv, CurProper, Proper, Making
<1>12. MadeOnce'
    BY <1>0, <1>1, <1>2, <1>8 DEF IInv, MadeOnce, Making
<1>13. Kept'
    BY <1>0, <1>1, <1>5 DEF IInv, Kept, NoExit, Waits, Making
<1> QED
    BY <1>6, <1>7, <1>10, <1>11, <1>12, <1>13 DEF IInv

\* kthread_create makes an unused thread RUNNABLE; its creator has it to itself.
LEMMA CreateStep ==
    ASSUME IInv, NEW t \in Threads, kthread_create(t)
    PROVE  IInv'
<1> USE ThreadAssumption DEF ThreadAssumption
<1>0. /\ cur \in Contexts /\ cur.at = "run" /\ cur.stack # Idle /\ state[t] = "UNUSED"
      /\ ctx \in [Procs -> Contexts] /\ t \in Procs /\ proc \in Procs \cup {None}
      /\ state \in [Procs -> {"UNUSED", "RUNNABLE", "RUNNING", "ZOMBIE", "IDLE"}]
    BY DEF IInv, TypeOK, At, kthread_create, Procs
<1>1. /\ state' = [state EXCEPT ![t] = "RUNNABLE"] /\ ctx' = [ctx EXCEPT ![t] = Start(t)]
      /\ cur' = [cur EXCEPT !.at = "created", !.p = t]
      /\ UNCHANGED <<queue, proc, need_resched, intr_state, sie, halt>>
    BY DEF kthread_create
<1>2. cur' = [stack |-> cur.stack, at |-> "created", trapped |-> cur.trapped, sie |-> cur.sie, p |-> t,
              next |-> cur.next]
    BY <1>0, <1>1 DEF Contexts
<1>3. cur' \in Contexts /\ cur'.at = "created" /\ cur'.stack = cur.stack /\ cur'.p = t
    BY <1>0, <1>2 DEF Contexts, Steps
<1>4. PICK d : d = Start(t)
    OBVIOUS
<1>5. d \in Contexts /\ d.at = "run" /\ d.stack = t
    BY <1>0, <1>4, StartFields
<1>6. /\ ctx' \in [Procs -> Contexts] /\ ctx'[t] = d
      /\ \A q \in Procs : q # t => ctx'[q] = ctx[q] /\ state'[q] = state[q]
      /\ state'[t] = "RUNNABLE"
    BY <1>0, <1>1, <1>4, <1>5
<1>7. Queued' = Queued /\ t \notin Queued
    BY <1>0, <1>1 DEF IInv, InQueueOnce, Queued
<1>8. t # proc /\ cur.stack = proc /\ proc \in Procs /\ proc # Idle
    <2>1. cur.stack = proc /\ cur.stack \in Procs
        BY <1>0 DEF IInv, CurProper, Proper, Contexts
    <2>2. proc \in Threads
        BY <1>0, <2>1 DEF Procs
    <2>3. state[proc] \in {"RUNNING", "ZOMBIE"}
        BY <2>2 DEF IInv, CurProper
    <2> QED
        BY <1>0, <2>1, <2>3
<1>9. TypeOK'
    <2>1. state' \in [Procs -> {"UNUSED", "RUNNABLE", "RUNNING", "ZOMBIE", "IDLE"}]
        BY <1>0, <1>1
    <2>2. \A q \in Procs : state'[q] = "IDLE" <=> q = Idle
        BY <1>0, <1>6 DEF IInv, TypeOK
    <2> QED
        BY <1>1, <1>3, <1>6, <2>1, <2>2 DEF IInv, TypeOK
<1>10. \A x \in Threads : (state[x] = "RUNNABLE" => state'[x] = "RUNNABLE")
                         /\ (state'[x] = "ZOMBIE" <=> state[x] = "ZOMBIE")
    BY <1>0, <1>6 DEF Procs
<1>11. InQueueOnce'
    <2>1. Queued \subseteq Threads
        BY DEF IInv, TypeOK, Queued
    <2> QED
        BY <1>1, <1>7, <1>10, <2>1 DEF IInv, InQueueOnce
<1>12. \A q \in Procs : q # t /\ Saved(q)' => Saved(q)
    BY <1>0, <1>1, <1>3, <1>6 DEF Saved
<1>13. \A q \in Procs : \A c \in Contexts : Proper(c, q) => Proper(c, q)'
    BY <1>7, <1>10 DEF Proper, Making
<1>14. SavedProper'
    <2> SUFFICES ASSUME NEW q \in Procs, Saved(q)'
                 PROVE  /\ ctx'[q].at \in {"run", "mask", "created", "mask_enqueue", "next"}
                        /\ Proper(ctx[q], q)'
        BY DEF SavedProper
    <2>1. CASE q = t
        BY <1>5, <1>6, <2>1 DEF Proper, Making
    <2>2. CASE q # t
        <3>1. Saved(q) /\ ctx'[q] = ctx[q] /\ ctx[q] \in Contexts
            BY <1>0, <1>6, <1>12, <2>2
        <3>2. Proper(ctx[q], q) /\ ctx[q].at \in {"run", "mask", "created", "mask_enqueue", "next"}
            BY <3>1 DEF IInv, SavedProper
        <3> QED
            BY <1>7, <1>10, <3>1, <3>2 DEF Proper, Making
    <2> QED
        BY <2>1, <2>2
<1>15. CurProper'
    BY <1>0, <1>1, <1>3, <1>6, <1>7, <1>8 DEF IInv, CurProper, Proper, Making
<1>16. \A q \in Procs : Saved(q)' /\ Making(ctx[q])' =>
          q # t /\ Saved(q) /\ Making(ctx[q]) /\ ctx'[q] = ctx[q] /\ ctx[q].p # t
    <2> SUFFICES ASSUME NEW q \in Procs, Saved(q)', Making(ctx[q])'
                 PROVE  q # t /\ Saved(q) /\ Making(ctx[q]) /\ ctx'[q] = ctx[q] /\ ctx[q].p # t
        OBVIOUS
    <2>1. q # t
        BY <1>5, <1>6 DEF Making
    <2>2. Saved(q) /\ ctx'[q] = ctx[q] /\ Making(ctx[q])
        BY <1>6, <1>12, <2>1 DEF Making
    <2>3. state[ctx[q].p] = "RUNNABLE"
        BY <2>2 DEF IInv, SavedProper, Proper
    <2> QED
        BY <1>0, <2>1, <2>2, <2>3
<1>17. MadeOnce'
    BY <1>3, <1>16 DEF IInv, MadeOnce
<1>18. Kept'
    <2> SUFFICES ASSUME NoExit', NEW x \in Threads, state'[x] = "RUNNABLE"
                 PROVE  Waits(x)'
        BY <1>1, <1>10 DEF IInv, Kept, NoExit
    <2>1. CASE x = t
        BY <1>3, <2>1 DEF Waits, Making
    <2>2. CASE x # t
        <3>1. Waits(x)
            BY <1>6, <1>10, <2>2 DEF IInv, Kept, NoExit, Procs
        <3>2. \A q \in Queued : q \in Procs /\ ctx'[q] = ctx[q]
            BY <1>6, <1>7 DEF IInv, TypeOK, Queued, Procs
        <3> QED
            BY <1>0, <1>7, <3>1, <3>2 DEF Waits, Making
    <2> QED
        BY <2>1, <2>2
<1> QED
    BY <1>9, <1>11, <1>14, <1>15, <1>17, <1>18 DEF IInv

\* kthread_exit finds a proc, the thread itself, which becomes a zombie.
LEMMA ExitStep == IInv /\ kthread_exit => IInv'
<1> SUFFICES ASSUME IInv, kthread_exit PROVE IInv'
    OBVIOUS
<1> USE ThreadAssumption DEF ThreadAssumption
<1>0. /\ cur \in Contexts /\ cur.at = "run" /\ cur.stack \in Exits
      /\ ctx \in [Procs -> Contexts]
      /\ state \in [Procs -> {"UNUSED", "RUNNABLE", "RUNNING", "ZOMBIE", "IDLE"}]
    BY DEF IInv, TypeOK, At, kthread_exit
<1>1. cur.stack = proc /\ proc \in Threads /\ state[proc] = "RUNNING" /\ proc \in Procs /\ proc # None
    BY <1>0 DEF IInv, CurProper, Proper, Procs
<1>2. /\ state' = [state EXCEPT ![proc] = "ZOMBIE"] /\ cur' = [cur EXCEPT !.at = "zombie"]
      /\ UNCHANGED <<ctx, queue, proc, need_resched, intr_state, sie, halt>>
    BY <1>1 DEF kthread_exit, Goto
<1>3. cur' \in Contexts /\ cur'.at = "zombie" /\ cur'.stack = cur.stack
    BY <1>0, <1>2, GotoFields DEF Steps
<1>4. /\ state'[proc] = "ZOMBIE" /\ \A q \in Procs : q # proc => state'[q] = state[q]
      /\ state' \in [Procs -> {"UNUSED", "RUNNABLE", "RUNNING", "ZOMBIE", "IDLE"}]
    BY <1>0, <1>1, <1>2
<1>5. TypeOK'
    <2>1. \A q \in Procs : state'[q] = "IDLE" <=> q = Idle
        BY <1>1, <1>4 DEF IInv, TypeOK
    <2> QED
        BY <1>2, <1>3, <1>4, <2>1 DEF IInv, TypeOK
<1>6. Queued' = Queued /\ Queued \subseteq Procs /\ proc \notin Queued
    BY <1>1, <1>2 DEF IInv, TypeOK, InQueueOnce, Queued, Procs
<1>7. InQueueOnce'
    BY <1>2, <1>4, <1>6 DEF IInv, InQueueOnce
<1>8. \A q \in Procs : Saved(q)' => q # proc /\ Saved(q)
    BY <1>2, <1>4 DEF Saved
<1>9. \A x \in Threads : /\ state[x] = "RUNNABLE" => state'[x] = "RUNNABLE"
                         /\ state[x] = "ZOMBIE" => state'[x] = "ZOMBIE"
    BY <1>1, <1>4 DEF Procs
<1>10. SavedProper'
    BY <1>2, <1>6, <1>8, <1>9 DEF IInv, SavedProper, Proper, Making
<1>11. CurProper'
    BY <1>1, <1>2, <1>3, <1>4 DEF CurProper, Proper, Making
<1>12. MadeOnce'
    BY <1>2, <1>3, <1>8 DEF IInv, MadeOnce, Making
<1>13. Kept'
    BY <1>1, <1>2, <1>4 DEF Kept, NoExit
<1> QED
    BY <1>5, <1>7, <1>10, <1>11, <1>12, <1>13 DEF IInv

\* sched_yield after kthread_exit: the zombie is not queued, and no proc is left.
LEMMA YieldStep == IInv /\ sched_yield => IInv'
<1> SUFFICES ASSUME IInv, sched_yield PROVE IInv'
    OBVIOUS
<1> USE ThreadAssumption DEF ThreadAssumption
<1>0. /\ cur \in Contexts /\ cur.at = "zombie" /\ proc \in Threads /\ state[proc] = "ZOMBIE"
    BY DEF IInv, TypeOK, CurProper, At, sched_yield
<1>1. /\ cur' = [cur EXCEPT !.at = "null", !.p = proc] /\ proc' = None
      /\ UNCHANGED <<state, queue, ctx, need_resched, intr_state, sie, halt>>
    BY <1>0 DEF sched_yield, requeue, yielded
<1>2. cur' = [stack |-> cur.stack, at |-> "null", trapped |-> cur.trapped, sie |-> cur.sie, p |-> proc,
              next |-> cur.next]
    BY <1>0, <1>1 DEF Contexts
<1>3. cur' \in Contexts /\ cur'.at = "null" /\ cur'.p = proc
    BY <1>0, <1>2 DEF Contexts, Steps, Procs
<1>4. TypeOK'
    BY <1>1, <1>3 DEF IInv, TypeOK
<1>5. Queued' = Queued /\ InQueueOnce'
    BY <1>1 DEF IInv, InQueueOnce, Queued
<1>6. \A q \in Procs : Saved(q)' => Saved(q)
    BY <1>0, <1>1, <1>3 DEF Saved
<1>7. SavedProper'
    BY <1>1, <1>5, <1>6 DEF IInv, SavedProper, Proper, Making
<1>8. CurProper'
    BY <1>0, <1>1, <1>3 DEF CurProper, Proper, Making, Procs
<1>9. MadeOnce'
    BY <1>1, <1>3, <1>6 DEF IInv, MadeOnce, Making
<1>10. Kept'
    BY <1>0, <1>1 DEF Kept, NoExit
<1> QED
    BY <1>4, <1>5, <1>7, <1>8, <1>9, <1>10 DEF IInv

\* dequeue_proc: the thread taken is in no other hands.
LEMMA DequeueStep == IInv /\ dequeue_proc => IInv'
<1> SUFFICES ASSUME IInv, dequeue_proc PROVE IInv'
    OBVIOUS
<1> USE ThreadAssumption DEF ThreadAssumption
<1>0. /\ cur \in Contexts /\ cur.at = "null" /\ proc = None /\ cur.p \in Threads /\ state[cur.p] = "ZOMBIE"
      /\ queue \in Seq(Threads) /\ sie \in {0, 1}
    BY DEF IInv, TypeOK, CurProper, At, dequeue_proc
<1>1. /\ cur' = [cur EXCEPT !.at = "picked", !.next = first(queue)] /\ queue' = dequeued(queue)
      /\ intr_state' = sie /\ UNCHANGED <<state, ctx, proc, need_resched, sie, halt>>
    BY DEF dequeue_proc
<1>2. Queued = Elems(queue) /\ Queued' = Elems(queue') /\ Once(queue)
    BY DEF Queued, Elems, Once, IInv, InQueueOnce
<1>3. /\ queue' \in Seq(Threads) /\ Once(queue')
      /\ first(queue) = Idle \/ first(queue) \in Queued
      /\ Queued' = Queued \ {first(queue)} /\ Queued \subseteq Threads
    BY <1>0, <1>1, <1>2, DequeueOnce
<1>4. cur' = [stack |-> cur.stack, at |-> "picked", trapped |-> cur.trapped, sie |-> cur.sie, p |-> cur.p,
              next |-> first(queue)]
    BY <1>0, <1>1 DEF Contexts
<1>5. first(queue) \in Procs
    BY <1>3 DEF Procs
<1>6. cur' \in Contexts /\ cur'.at = "picked" /\ cur'.p = cur.p /\ cur'.next = first(queue)
    BY <1>0, <1>4, <1>5 DEF Contexts, Steps
<1>7. TypeOK'
    BY <1>0, <1>1, <1>3, <1>6 DEF IInv, TypeOK
<1>8. InQueueOnce'
    BY <1>1, <1>3 DEF IInv, InQueueOnce, Once
<1>9. \A q \in Procs : Saved(q)' => Saved(q)
    BY <1>0, <1>1, <1>6 DEF Saved
<1>10. SavedProper'
    BY <1>1, <1>3, <1>9 DEF IInv, SavedProper, Proper, Making
<1>11. CurProper'
    BY <1>0, <1>1, <1>3, <1>6 DEF IInv, InQueueOnce, CurProper, Proper, Making, Procs
<1>12. MadeOnce'
    <2>1. \A q \in Procs : Saved(q) /\ Making(ctx[q]) => ctx[q].p # first(queue)
        BY <1>3 DEF IInv, SavedProper, Proper
    <2> QED
        BY <1>1, <1>6, <1>9, <2>1 DEF IInv, MadeOnce, Making
<1>13. Kept'
    BY <1>0, <1>1 DEF Kept, NoExit
<1> QED
    BY <1>7, <1>8, <1>10, <1>11, <1>12, <1>13 DEF IInv

\* context_switch_yield called by an exiting thread starts the proc it picked.
LEMMA PickStep == IInv /\ context_switch_yield => IInv'
<1> SUFFICES ASSUME IInv, context_switch_yield PROVE IInv'
    OBVIOUS
<1> USE ThreadAssumption DEF ThreadAssumption
<1> DEFINE n == cur.next
<1>0. /\ cur \in Contexts /\ cur.at = "picked" /\ proc = None /\ cur.p \in Threads /\ state[cur.p] = "ZOMBIE"
      /\ state \in [Procs -> {"UNUSED", "RUNNABLE", "RUNNING", "ZOMBIE", "IDLE"}]
      /\ sie \in {0, 1} /\ queue \in Seq(Threads)
    BY DEF IInv, TypeOK, CurProper, At, context_switch_yield
<1>1. n = Idle \/ (n \in Threads /\ n \notin Queued /\ state[n] = "RUNNABLE")
    BY <1>0 DEF IInv, CurProper
<1>2. /\ cur' = [cur EXCEPT !.at = "next"] /\ proc' = n
      /\ state' = IF n = Idle THEN state ELSE [state EXCEPT ![n] = "RUNNING"]
      /\ intr_state' = sie /\ UNCHANGED <<ctx, queue, need_resched, sie, halt>>
    BY DEF context_switch_yield, start, Goto
<1>3. cur' \in Contexts /\ cur'.at = "next" /\ cur'.p = cur.p /\ cur'.next = n
    BY <1>0, <1>2, GotoFields DEF Steps
<1>4. n \in Procs /\ state[Idle] = "IDLE"
    BY <1>1 DEF Procs, IInv, TypeOK
<1> HIDE DEF n
<1>5. /\ state' \in [Procs -> {"UNUSED", "RUNNABLE", "RUNNING", "ZOMBIE", "IDLE"}]
      /\ \A q \in Procs : q # n => state'[q] = state[q]
      /\ state'[n] = IF n = Idle THEN "IDLE" ELSE "RUNNING"
    BY <1>0, <1>1, <1>2, <1>4
<1>6. Queued' = Queued /\ Queued \subseteq Threads
    BY <1>0, <1>2 DEF Queued
<1>7. TypeOK'
    <2>1. \A q \in Procs : state'[q] = "IDLE" <=> q = Idle
        BY <1>5 DEF IInv, TypeOK
    <2> QED
        BY <1>0, <1>2, <1>3, <1>4, <1>5, <2>1 DEF IInv, TypeOK
<1>8. InQueueOnce'
    BY <1>1, <1>2, <1>5, <1>6 DEF IInv, InQueueOnce, Procs
<1>9. \A q \in Procs : Saved(q)' => Saved(q)
    BY <1>0, <1>1, <1>4, <1>5 DEF Saved, Procs
<1>10. \A q \in Procs : state[q] = "ZOMBIE" => state'[q] = "ZOMBIE"
    BY <1>1, <1>4, <1>5
<1>11. SavedProper'
    <2> SUFFICES ASSUME NEW q \in Procs, Saved(q)'
                 PROVE  /\ ctx'[q].at \in {"run", "mask", "created", "mask_enqueue", "next"}
                        /\ Proper(ctx[q], q)'
        BY DEF SavedProper
    <2>1. /\ Saved(q) /\ ctx' = ctx /\ Proper(ctx[q], q)
          /\ ctx[q].at \in {"run", "mask", "created", "mask_enqueue", "next"}
        BY <1>2, <1>9 DEF IInv, SavedProper
    <2>2. Making(ctx[q]) => ctx[q].p # n
        BY <1>0, <2>1 DEF IInv, MadeOnce, n
    <2>3. Making(ctx[q]) => ctx[q].p \in Threads \ Queued /\ state'[ctx[q].p] = "RUNNABLE"
        BY <1>5, <2>1, <2>2 DEF Proper, Procs
    <2>4. ctx[q].at = "next" => state'[ctx[q].p] = "ZOMBIE"
        BY <1>10, <2>1 DEF Proper, Procs
    <2> QED
        BY <1>6, <2>1, <2>3, <2>4 DEF Proper, Making
<1>12. CurProper'
    <2>1. state'[cur.p] = "ZOMBIE"
        BY <1>0, <1>10 DEF Procs
    <2> QED
        BY <1>0, <1>2, <1>3, <1>4, <1>5, <2>1 DEF CurProper, Proper, Making
<1>13. MadeOnce'
    BY <1>2, <1>3, <1>9 DEF IInv, MadeOnce, Making
<1>14. Kept'
    <2>1. state'[cur.p] = "ZOMBIE"
        BY <1>0, <1>10 DEF Procs
    <2> QED
        BY <1>0, <2>1 DEF Kept, NoExit
<1> QED
    BY <1>7, <1>8, <1>11, <1>12, <1>13, <1>14 DEF IInv

\* The exiting thread leaves and the picked proc goes on where it was saved.
LEMMA LeaveStep == IInv /\ leave => IInv'
<1> SUFFICES ASSUME IInv, leave PROVE IInv'
    OBVIOUS
<1> USE ThreadAssumption DEF ThreadAssumption
<1>0. /\ cur \in Contexts /\ cur.at = "next" /\ cur.next = proc /\ proc \in Procs
      /\ cur.p \in Threads /\ state[cur.p] = "ZOMBIE" /\ cur.p \in Procs
      /\ ctx \in [Procs -> Contexts] /\ sie \in {0, 1}
    BY DEF IInv, TypeOK, CurProper, Proper, At, leave, Procs
<1>1. state[proc] # "ZOMBIE" /\ proc # cur.p
    BY <1>0 DEF IInv, TypeOK, CurProper, Procs
<1>2. PICK c : c = [cur EXCEPT !.at = "gone", !.sie = sie]
    OBVIOUS
<1>3. c = [stack |-> cur.stack, at |-> "gone", trapped |-> cur.trapped, sie |-> sie, p |-> cur.p,
           next |-> cur.next]
    BY <1>0, <1>2 DEF Contexts
<1>4. c \in Contexts
    BY <1>0, <1>3 DEF Contexts, Steps
<1>5. /\ ctx' = [ctx EXCEPT ![cur.p] = c] /\ cur' = ctx'[proc] /\ sie' = cur'.sie
      /\ UNCHANGED <<state, queue, proc, need_resched, intr_state, halt>>
    BY <1>0, <1>2 DEF leave, context_switch
<1>6. /\ ctx' \in [Procs -> Contexts] /\ cur' = ctx[proc] /\ cur' \in Contexts /\ sie' \in {0, 1}
      /\ \A q \in Procs : q # cur.p => ctx'[q] = ctx[q]
    <2>1. /\ ctx' \in [Procs -> Contexts] /\ cur' = ctx[proc] /\ cur' \in Contexts
          /\ \A q \in Procs : q # cur.p => ctx'[q] = ctx[q]
        BY <1>0, <1>1, <1>4, <1>5
    <2> QED
        BY <1>5, <2>1 DEF Contexts
<1>7. Saved(proc)
    BY <1>0, <1>1 DEF Saved
<1>8. Proper(cur', proc) /\ cur'.at \in {"run", "mask", "created", "mask_enqueue", "next"}
    BY <1>0, <1>6, <1>7 DEF IInv, SavedProper
<1>9. TypeOK' /\ InQueueOnce' /\ Queued' = Queued
    BY <1>5, <1>6 DEF IInv, TypeOK, InQueueOnce, Queued
<1>10. \A q \in Procs : Saved(q)' => Saved(q) /\ ctx'[q] = ctx[q] /\ (q = proc => cur'.at = "next")
    BY <1>0, <1>5, <1>6 DEF Saved
<1>11. SavedProper'
    BY <1>5, <1>9, <1>10 DEF IInv, SavedProper, Proper, Making
<1>12. CurProper'
    <2>1. Proper(cur, proc)'
        BY <1>5, <1>8, <1>9 DEF Proper, Making
    <2>2. proc \in Threads => state[proc] = "RUNNING"
        BY <1>1 DEF IInv, CurProper
    <2> QED
        BY <1>5, <1>8, <2>1, <2>2 DEF CurProper
<1>13. MadeOnce'
    <2>1. \A q, r \in Procs :
             q # r /\ Saved(q)' /\ Saved(r)' /\ Making(ctx'[q]) /\ Making(ctx'[r]) => ctx'[q].p # ctx'[r].p
        BY <1>10 DEF IInv, MadeOnce
    <2>2. \A q \in Procs : Saved(q)' /\ Making(ctx'[q]) /\ Making(cur') => cur'.p # ctx'[q].p
        BY <1>0, <1>6, <1>7, <1>10 DEF IInv, MadeOnce, Making
    <2> QED
        BY <1>8, <2>1, <2>2 DEF MadeOnce, Making
<1>14. Kept'
    BY <1>0, <1>5 DEF Kept, NoExit
<1> QED
    BY <1>9, <1>11, <1>12, <1>13, <1>14 DEF IInv

\* An interrupt: nothing happens, the kernel panics without a proc, or the proc is
\* preempted and the first of the queue goes on.
LEMMA TrapStep ==
    ASSUME IInv, NEW irq, kerneltrap(irq)
    PROVE  IInv'
<1> USE ThreadAssumption DEF ThreadAssumption
<1>0. /\ cur \in Contexts /\ ctx \in [Procs -> Contexts] /\ queue \in Seq(Threads)
      /\ state \in [Procs -> {"UNUSED", "RUNNABLE", "RUNNING", "ZOMBIE", "IDLE"}]
      /\ need_resched' \in BOOLEAN /\ proc \in Procs \cup {None} /\ intr_state \in {0, 1} /\ sie \in {0, 1}
      /\ \A q \in Procs : state[q] = "IDLE" <=> q = Idle
    BY DEF IInv, TypeOK, kerneltrap
<1>1. CASE ~need_resched'
    BY <1>0, <1>1, LocalStep DEF kerneltrap, tasks
<1>2. CASE need_resched' /\ proc = None
    <2>1. UNCHANGED <<state, ctx, queue, proc, cur, intr_state, sie>>
        BY <1>2 DEF kerneltrap, panic, tasks
    <2>2. cur.at \in {"null", "picked"}
        BY <1>0, <1>2 DEF IInv, CurProper, Proper, Contexts, Steps, Procs
    <2>3. ~NoExit'
        BY <2>1, <2>2 DEF IInv, CurProper, NoExit
    <2>4. TypeOK' /\ InQueueOnce' /\ Queued' = Queued
        BY <1>0, <2>1 DEF IInv, TypeOK, InQueueOnce, Queued
    <2>5. SavedProper' /\ CurProper' /\ MadeOnce'
        BY <2>1, <2>4 DEF IInv, SavedProper, CurProper, MadeOnce, Saved, Proper, Making
    <2> QED
        BY <2>3, <2>4, <2>5 DEF IInv, Kept
<1>3. CASE need_resched' /\ proc # None
    <2> DEFINE n == first(requeue)
    <2>0. /\ queue' = dequeued(requeue) /\ proc' = n
          /\ state' = IF n = Idle THEN yielded ELSE [yielded EXCEPT ![n] = "RUNNING"]
          /\ ctx' = [ctx EXCEPT ![proc] = [cur EXCEPT !.trapped = TRUE, !.sie = 0]]
          /\ cur' = ctx'[n] /\ sie' = cur'.sie /\ intr_state' = 0 /\ halt' = halt
        BY <1>3 DEF kerneltrap, start, context_switch
    <2>1. proc \in Procs /\ cur.at \notin {"null", "picked", "gone"}
        BY <1>0, <1>3 DEF IInv, CurProper
    \* What is queued and in which state the threads are before the next one starts.
    <2>2. state[proc] = "RUNNING" => proc \in Threads
        BY <1>0, <2>1 DEF Procs
    <2>3. Queued = Elems(queue) /\ Queued' = Elems(queue') /\ Once(queue) /\ Queued \subseteq Threads
        BY <1>0 DEF Queued, Elems, Once, IInv, InQueueOnce
    <2>4. state[proc] # "RUNNABLE" /\ proc \notin Queued
        BY <1>0, <2>1, <2>3 DEF IInv, CurProper, InQueueOnce, Procs
    <2>5. /\ requeue \in Seq(Threads) /\ Once(requeue)
          /\ Elems(requeue) = Queued \cup (IF state[proc] = "RUNNING" THEN {proc} ELSE {})
        <3>1. CASE state[proc] = "RUNNING"
            BY <1>0, <2>2, <2>3, <2>4, <3>1, AppendOnce DEF requeue
        <3>2. CASE state[proc] # "RUNNING"
            BY <1>0, <2>3, <3>2 DEF requeue
        <3> QED
            BY <3>1, <3>2
    <2>6. /\ queue' \in Seq(Threads) /\ Once(queue') /\ Queued' = Elems(requeue) \ {n}
          /\ n = Idle \/ n \in Elems(requeue)
          /\ n = Idle => Elems(requeue) = {}
        BY <2>0, <2>3, <2>5, DequeueOnce
    <2> HIDE DEF n
    <2>7. /\ n \in Procs
          /\ n # Idle => n \in Threads /\ (n \in Queued \/ (n = proc /\ state[proc] = "RUNNING"))
        <3>1. n # Idle => n \in Queued \/ (n = proc /\ state[proc] = "RUNNING")
            BY <2>5, <2>6
        <3> QED
            BY <2>2, <2>3, <3>1 DEF Procs
    <2>8. /\ yielded \in [Procs -> {"UNUSED", "RUNNABLE", "RUNNING", "ZOMBIE", "IDLE"}]
          /\ \A q \in Procs : yielded[q] = IF q = proc /\ state[proc] = "RUNNING" THEN "RUNNABLE" ELSE state[q]
        BY <1>0, <2>1 DEF yielded
    <2>9. /\ state' \in [Procs -> {"UNUSED", "RUNNABLE", "RUNNING", "ZOMBIE", "IDLE"}]
          /\ \A q \in Procs : state'[q] = IF q = n /\ n # Idle THEN "RUNNING" ELSE yielded[q]
        BY <2>0, <2>7, <2>8
    <2>10. \A t \in Queued : state[t] = "RUNNABLE"
        BY DEF IInv, InQueueOnce
    <2>11. \A q \in Procs : /\ state'[q] = "ZOMBIE" <=> state[q] = "ZOMBIE"
                            /\ state'[q] = "IDLE" <=> q = Idle
        BY <1>0, <2>7, <2>8, <2>9, <2>10
    <2>12. state[n] # "ZOMBIE"
        BY <1>0, <2>7, <2>10
    \* What is saved and loaded.
    <2>13. PICK c : c = [cur EXCEPT !.trapped = TRUE, !.sie = 0]
        OBVIOUS
    <2>14. c = [stack |-> cur.stack, at |-> cur.at, trapped |-> TRUE, sie |-> 0, p |-> cur.p, next |-> cur.next]
        BY <1>0, <2>13 DEF Contexts
    <2>15. c \in Contexts /\ c.at = cur.at /\ c.stack = cur.stack /\ c.p = cur.p /\ c.next = cur.next
        BY <1>0, <2>14 DEF Contexts
    <2>16. /\ ctx' \in [Procs -> Contexts] /\ ctx'[proc] = c
           /\ \A q \in Procs : q # proc => ctx'[q] = ctx[q]
        BY <1>0, <2>0, <2>1, <2>13, <2>15
    <2>17. cur' = ctx'[n] /\ cur' \in Contexts /\ sie' \in {0, 1}
        BY <2>0, <2>7, <2>16 DEF Contexts
    <2>18. \A q \in Procs : q # proc /\ state[q] # "ZOMBIE" => Saved(q)
        BY DEF Saved
    <2>19. \A q \in Procs : state[q] # "ZOMBIE" =>
               /\ ctx'[q].at \in {"run", "mask", "created", "mask_enqueue", "next"}
               /\ Proper(ctx'[q], q)
        <3> SUFFICES ASSUME NEW q \in Procs, state[q] # "ZOMBIE"
                     PROVE  /\ ctx'[q].at \in {"run", "mask", "created", "mask_enqueue", "next"}
                            /\ Proper(ctx'[q], q)
            OBVIOUS
        <3>1. CASE q = proc
            <4>1. cur.at \in {"run", "mask", "created", "mask_enqueue", "next"} /\ Proper(cur, proc)
                BY <1>0, <2>1, <3>1 DEF IInv, CurProper, Contexts, Steps
            <4>2. Proper(c, proc)
                BY <2>15, <4>1 DEF Proper, Making
            <4> QED
                BY <2>15, <2>16, <3>1, <4>1, <4>2
        <3>2. CASE q # proc
            BY <2>16, <2>18, <3>2 DEF IInv, SavedProper
        <3> QED
            BY <3>1, <3>2
    <2>20. \A q, r \in Procs :
               q # r /\ state[q] # "ZOMBIE" /\ state[r] # "ZOMBIE" /\ Making(ctx'[q]) /\ Making(ctx'[r])
                   => ctx'[q].p # ctx'[r].p
        <3>1. Making(c) <=> Making(cur)
            BY <2>15 DEF Making
        <3> QED
            BY <2>1, <2>15, <2>16, <2>18, <3>1 DEF IInv, MadeOnce
    \* Contexts are unaffected by the threads that change their state.
    <2>21. \A x \in Threads : x \notin Queued /\ state[x] = "RUNNABLE" => x \notin Queued' /\ state'[x] = "RUNNABLE"
        BY <2>4, <2>5, <2>6, <2>7, <2>8, <2>9 DEF Procs
    <2>22. \A q \in Procs : state[q] # "ZOMBIE" => Proper(ctx[q], q)'
        <3> SUFFICES ASSUME NEW q \in Procs, state[q] # "ZOMBIE"
                     PROVE  Proper(ctx[q], q)'
            OBVIOUS
        <3>1. Proper(ctx'[q], q)
            BY <2>19
        <3> QED
            BY <2>11, <2>21, <3>1 DEF Proper, Making, Procs
    <2>23. TypeOK'
        BY <1>0, <2>0, <2>6, <2>7, <2>9, <2>11, <2>16, <2>17 DEF TypeOK
    <2>24. InQueueOnce'
        <3>1. \A t \in Queued' : state'[t] = "RUNNABLE"
            BY <2>3, <2>5, <2>6, <2>7, <2>8, <2>9, <2>10, <2>2 DEF Procs
        <3> QED
            BY <2>6, <3>1 DEF InQueueOnce, Once
    <2>25. SavedProper'
        BY <2>11, <2>19, <2>22 DEF SavedProper, Saved
    <2>26. CurProper'
        <3>1. Proper(cur, proc)'
            BY <2>0, <2>7, <2>12, <2>17, <2>22 DEF Proper, Making
        <3>2. cur'.at \in {"run", "mask", "created", "mask_enqueue", "next"}
            BY <2>7, <2>12, <2>17, <2>19
        <3>3. n \in Threads => state'[n] = "RUNNING"
            BY <2>7, <2>9 
        <3> QED
            BY <2>0, <3>1, <3>2, <3>3 DEF CurProper
    <2>27. MadeOnce'
        <3>1. \A q, r \in Procs :
                q # r /\ Saved(q)' /\ Saved(r)' /\ Making(ctx'[q]) /\ Making(ctx'[r]) => ctx'[q].p # ctx'[r].p
            BY <2>11, <2>20 DEF Saved
        <3>2. \A q \in Procs : Saved(q)' /\ Making(ctx'[q]) /\ Making(cur') => cur'.p # ctx'[q].p
            BY <2>0, <2>7, <2>11, <2>12, <2>17, <2>20 DEF Saved, Making
        <3>3. cur'.at # "picked"
            BY <2>7, <2>12, <2>17, <2>19
        <3> QED
            BY <3>1, <3>2, <3>3 DEF MadeOnce, Making
    <2>28. Kept'
        <3> SUFFICES ASSUME NoExit', NEW t \in Threads, state'[t] = "RUNNABLE"
                     PROVE  Waits(t)'
            BY <2>0, <2>11 DEF IInv, Kept, NoExit, Procs
        <3>1. t # n \/ n = Idle
            BY <2>9 DEF Procs
        <3>2. CASE t = proc
            <4>1. t \in Elems(requeue)
                BY <2>1, <2>4, <2>5, <2>8, <2>9, <3>1, <3>2
            <4> QED
                BY <2>6, <3>1, <4>1 DEF Waits
        <3>3. CASE t # proc
            <4>1. state[t] = "RUNNABLE"
                BY <2>8, <2>9, <3>1, <3>3 DEF Procs
            <4>2. Waits(t)
                BY <2>11, <4>1 DEF IInv, Kept, NoExit, Procs
            <4>3. CASE t \in Queued
                BY <2>5, <2>6, <3>1, <4>3 DEF Waits
            <4>4. CASE Making(cur) /\ cur.p = t
                <5>1. proc # Idle /\ Making(c) /\ c.p = t
                    BY <2>15, <4>4 DEF IInv, CurProper, Proper, Making
                <5>2. state[proc] # "ZOMBIE" /\ state[proc] = "RUNNING"
                    BY <2>1, <2>11, <4>4, <5>1 DEF IInv, CurProper, NoExit, Procs
                <5>3. CASE n = proc
                    BY <2>16, <2>17, <5>1, <5>3 DEF Waits, Making
                <5>4. CASE n # proc
                    BY <2>5, <2>6, <2>16, <5>1, <5>2, <5>4 DEF Waits, Making
                <5> QED
                    BY <5>3, <5>4
            <4>5. ASSUME NEW q \in Queued, Making(ctx[q]), ctx[q].p = t
                  PROVE  Waits(t)'
                <5>1. q \in Procs /\ q # proc /\ ctx'[q] = ctx[q]
                    BY <2>3, <2>4, <2>16 DEF Procs
                <5>2. CASE n = q
                    BY <2>17, <4>5, <5>1, <5>2 DEF Waits, Making
                <5>3. CASE n # q
                    BY <2>5, <2>6, <4>5, <5>1, <5>3 DEF Waits, Making
                <5> QED
                    BY <5>2, <5>3
            <4> QED
                BY <4>2, <4>3, <4>4, <4>5 DEF Waits
        <3> QED
            BY <3>2, <3>3
    <2> QED
        BY <2>23, <2>24, <2>25, <2>26, <2>27, <2>28 DEF IInv
<1> QED
    BY <1>1, <1>2, <1>3
-----------------------------------------------------------------------------
\* Every step of the hart keeps the invariant.
LEMMA NextIInv == IInv /\ [Next]_vars => IInv'
<1> SUFFICES ASSUME IInv, [Next]_vars PROVE IInv'
    OBVIOUS
<1>1. CASE UNCHANGED vars
    <2>1. /\ UNCHANGED <<state, ctx, queue, proc, halt, cur>>
          /\ need_resched' \in BOOLEAN /\ intr_state' \in {0, 1} /\ sie' \in {0, 1} /\ cur \in Contexts
        BY <1>1 DEF vars, IInv, TypeOK
    <2> QED
        BY <2>1, LocalStep
<1>2. CASE spinlock_acquire \/ spinlock_release \/ kernelret
    BY <1>2, LocalSteps
<1>3. ASSUME NEW t \in Threads, kthread_create(t)
      PROVE  IInv'
    BY <1>3, CreateStep
<1>4. CASE enqueue_proc
    <2>1. At("created") \/ At("mask_enqueue")
        BY <1>4 DEF enqueue_proc
    <2> QED
        BY <1>4, <2>1, LocalSteps, EnqueueStep
<1>5. CASE kthread_exit \/ sched_yield \/ dequeue_proc \/ context_switch_yield \/ leave
    BY <1>5, ExitStep, YieldStep, DequeueStep, PickStep, LeaveStep
<1>6. ASSUME NEW irq \in {"timer", "external"}, kerneltrap(irq)
      PROVE  IInv'
    BY <1>6, TrapStep
<1>7. CASE Halted
    BY <1>1, <1>7 DEF Halted
<1> QED
    BY <1>1, <1>2, <1>3, <1>4, <1>5, <1>6, <1>7 DEF Next

\* The invariant of the scheduler.
THEOREM Invariance == Spec => []IInv
BY InitIInv, NextIInv, PTL DEF Spec

\* enqueue_proc and dequeue_proc: no thread is queued twice or while it runs, also
\* after threads have exited with interrupts on.
THEOREM QueuedOnce == Spec => []QueueSound
<1>1. IInv => QueueSound
    <2> SUFFICES ASSUME IInv PROVE QueueSound
        OBVIOUS
    <2>1. queue \in Seq(Threads) /\ Once(queue) /\ Queued = Elems(queue)
        BY DEF IInv, TypeOK, InQueueOnce, Once, Queued, Elems
    <2>2. Cardinality(Queued) = Len(queue)
        BY <2>1, OnceCardinality
    <2> QED
        BY <2>2 DEF IInv, InQueueOnce, QueueSound
<1> QED
    BY <1>1, Invariance, PTL

\* Preemption at any instruction, kthread_create included, loses no thread.
THEOREM NoneLost == Spec => []NoThreadLost
<1>1. IInv => NoThreadLost
    <2> SUFFICES ASSUME IInv, NoExit, NEW t \in Threads, state[t] = "RUNNABLE"
                 PROVE  t \in Queued \cup Creating
        BY DEF NoThreadLost
    <2>1. Waits(t)
        BY DEF IInv, Kept
    <2> QED
        BY <2>1 DEF Waits, Creating, Making
<1> QED
    BY <1>1, Invariance, PTL

\* context_switch loads the stack of the thread it switches to.
THEOREM StacksKept == Spec => []OwnStack
<1>1. IInv => OwnStack
    <2> SUFFICES ASSUME IInv, NoExit, NEW t \in Threads, state[t] = "RUNNABLE"
                 PROVE  ctx[t].stack = t
        BY DEF OwnStack
    <2>1. t \in Procs /\ Saved(t)
        BY ThreadAssumption DEF ThreadAssumption, Procs, Saved, IInv, CurProper
    <2>2. ctx[t].at # "next"
        BY <2>1 DEF IInv, SavedProper, Proper, NoExit
    <2> QED
        BY <2>1, <2>2 DEF IInv, SavedProper, Proper
<1> QED
    BY <1>1, Invariance, PTL

\* Without an exit neither sched_yield nor kthread_exit panics.
THEOREM PanicsAfterExit == Spec => []PanicNeedsExit
<1>1. IInv => PanicNeedsExit
    BY DEF IInv, Kept, PanicNeedsExit
<1> QED
    BY <1>1, Invariance, PTL

\* No step of sched_yield, kerneltrap or kthread_create brings back a thread that
\* has exited.
THEOREM ZombiesStay == Spec => ZombieForever
<1>1. ASSUME IInv, [Next]_vars
      PROVE  [\A t \in Threads : state[t] = "ZOMBIE" => state'[t] = "ZOMBIE"]_vars
    <2> SUFFICES ASSUME NEW t \in Threads, state[t] = "ZOMBIE"
                 PROVE  state'[t] = "ZOMBIE"
        OBVIOUS
    <2> USE ThreadAssumption DEF ThreadAssumption
    <2>0. /\ state \in [Procs -> {"UNUSED", "RUNNABLE", "RUNNING", "ZOMBIE", "IDLE"}]
          /\ t \in Procs /\ t # Idle /\ queue \in Seq(Threads)
        BY <1>1 DEF IInv, TypeOK, Procs
    <2>1. CASE state' = state
        BY <2>1
    <2>2. ASSUME NEW x \in Threads, kthread_create(x)
          PROVE  state'[t] = "ZOMBIE"
        BY <2>0, <2>2 DEF kthread_create
    <2>3. CASE kthread_exit
        BY <2>0, <2>3 DEF kthread_exit, panic, tasks
    <2>4. yielded[t] = "ZOMBIE"
        BY <2>0 DEF yielded
    <2>5. CASE sched_yield
        BY <2>4, <2>5 DEF sched_yield, panic, tasks
    <2>6. CASE context_switch_yield
        BY <1>1, <2>0, <2>6 DEF context_switch_yield, start, At, IInv, CurProper
    <2>7. ASSUME NEW irq, kerneltrap(irq)
          PROVE  state'[t] = "ZOMBIE"
        <3>1. CASE state' = state
            BY <3>1
        <3>2. CASE start(first(requeue), yielded) /\ proc # None
            <4>1. first(requeue) # t
                <5>1. Once(queue) /\ Elems(queue) = Queued /\ \A x \in Queued : state[x] = "RUNNABLE"
                    BY <1>1 DEF IInv, InQueueOnce, Queued, Elems, Once
                <5>2. CASE state[proc] = "RUNNING"
                    <6>1. proc \in Threads /\ proc \notin Queued
                        BY <1>1, <3>2, <5>1, <5>2 DEF IInv, TypeOK, Procs
                    <6>2. Once(requeue) /\ requeue \in Seq(Threads) /\ Elems(requeue) = Queued \cup {proc}
                        BY <2>0, <5>1, <5>2, <6>1, AppendOnce DEF requeue
                    <6>3. first(requeue) = Idle \/ first(requeue) \in Queued \cup {proc}
                        BY <6>2, DequeueOnce
                    <6> QED
                        BY <2>0, <5>1, <5>2, <6>3
                <5>3. CASE state[proc] # "RUNNING"
                    <6>1. first(requeue) = Idle \/ first(requeue) \in Queued
                        BY <2>0, <5>1, <5>3, DequeueOnce DEF requeue
                    <6> QED
                        BY <2>0, <5>1, <6>1
                <5> QED
                    BY <5>2, <5>3
            <4> QED
                BY <2>4, <3>2, <4>1 DEF start
        <3> QED
            BY <2>7, <3>1, <3>2 DEF kerneltrap, panic, tasks
    <2> QED
        BY <1>1, <2>1, <2>2, <2>3, <2>5, <2>6, <2>7
        DEF Next, spinlock_acquire, spinlock_release, enqueue_proc, dequeue_proc, leave, kernelret,
            Halted, vars, tasks
<1> QED
    BY <1>1, Invariance, PTL DEF Spec, ZombieForever
==============================================================================
