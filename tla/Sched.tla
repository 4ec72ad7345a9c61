-------------------------------- MODULE Sched --------------------------------
(***************************************************************************)
(* The preemptive scheduler of one hart: src/task/sched.c, kthread.c,      *)
(* switch.S and the interrupt path of src/trap/trap.c.  Threads never move *)
(* to another hart and a hart's queue is touched by that hart alone, so    *)
(* one hart (CPU_NUM is 1) shows all there is.                             *)
(*                                                                         *)
(* `cur' is what the hart executes, and a saved context is a copy of it:   *)
(* the stack it is on, its next step, whether it is inside kerneltrap, the *)
(* SIE bit, and the local variables that live on its stack.  Interrupts    *)
(* are off from w_sstatus in intr_off to the matching intr_on, so a locked *)
(* region is one step; the write of cpu->intr_state before it is another,  *)
(* because a trap fits in between.                                         *)
(***************************************************************************)
EXTENDS Naturals, Sequences, FiniteSets

CONSTANTS
    Threads,   \* kernel threads
    Idle,      \* &cpu->idle
    None,      \* the NULL proc
    Boot,      \* threads created before sched_enabled, in queue order
    Exits      \* threads whose function may return

ASSUME ThreadAssumption ==
    /\ Idle \notin Threads /\ None \notin Threads \cup {Idle}
    /\ Exits \subseteq Threads /\ IsFiniteSet(Threads)
    /\ Boot \in Seq(Threads)
    /\ \A i, j \in 1..Len(Boot) : Boot[i] = Boot[j] => i = j

VARIABLES
    state,        \* p->state
    ctx,          \* p->ctx
    queue,        \* runq[hart].queue
    proc,         \* cpu->proc
    need_resched, \* cpu->need_resched
    intr_state,   \* the SIE bit of cpu->intr_state
    sie,          \* the SIE bit of sstatus
    cur,          \* the code that runs
    halt          \* the panic() that was reached, or "no"

vars == <<state, ctx, queue, proc, need_resched, intr_state, sie, cur, halt>>
tasks == <<state, ctx, queue, proc>>

Procs  == Threads \cup {Idle}
\* "run": in its function; "mask", "mask_enqueue": inside intr_off; "created":
\* in kthread_create; "zombie".."next": in kthread_exit and sched_yield.
Steps == {"run", "mask", "created", "mask_enqueue", "zombie", "null", "picked",
          "next", "gone"}

\* kthread_create and init_cpu set ra and sp to the start of the function, and
\* SIE in sstatus.
Start(p) == [stack |-> p, at |-> "run", trapped |-> FALSE, sie |-> 1,
             p |-> None, next |-> None]

Init ==
    /\ state = [p \in Procs |-> IF p = Idle THEN "IDLE"
                                ELSE IF \E i \in 1..Len(Boot) : Boot[i] = p
                                THEN "RUNNABLE" ELSE "UNUSED"]
    /\ ctx = [p \in Procs |-> Start(p)]
    /\ queue = Boot
    /\ proc = Idle
    /\ need_resched = FALSE
    /\ intr_state = 1
    /\ sie = 1
    /\ cur = Start(Idle)
    /\ halt = "no"

panic(why) == halt' = why /\ UNCHANGED <<tasks, intr_state, sie, cur>>

\* The code outside any trap handler is at step s.
At(s) == halt = "no" /\ ~cur.trapped /\ cur.at = s

Goto(s) == cur' = [cur EXCEPT !.at = s]
-----------------------------------------------------------------------------
\* Code of a thread's function that takes a spinlock: intr_off up to the write
\* of sstatus, then the critical section to its intr_on.
spinlock_acquire ==
    /\ At("run") /\ cur.stack # Idle
    /\ intr_state' = sie
    /\ Goto("mask")
    /\ UNCHANGED <<tasks, need_resched, sie, halt>>

spinlock_release ==
    /\ At("mask")
    /\ sie' = intr_state
    /\ Goto("run")
    /\ UNCHANGED <<tasks, need_resched, intr_state, halt>>

\* kthread_create up to enqueue_proc, when its allocations succeed.
kthread_create(t) ==
    /\ At("run") /\ cur.stack # Idle /\ state[t] = "UNUSED"
    /\ state' = [state EXCEPT ![t] = "RUNNABLE"]
    /\ ctx' = [ctx EXCEPT ![t] = Start(t)]
    /\ cur' = [cur EXCEPT !.at = "created", !.p = t]
    /\ UNCHANGED <<queue, proc, need_resched, intr_state, sie, halt>>

enqueue_proc ==
    \/ /\ At("created")
       /\ intr_state' = sie
       /\ Goto("mask_enqueue")
       /\ UNCHANGED <<tasks, need_resched, sie, halt>>
    \/ /\ At("mask_enqueue")
       /\ queue' = Append(queue, cur.p)
       /\ sie' = intr_state
       /\ Goto("run")
       /\ UNCHANGED <<state, ctx, proc, need_resched, intr_state, halt>>
-----------------------------------------------------------------------------
\* The function returned: kthread_exit up to sched_yield, without its message,
\* which is a spinlock_acquire and spinlock_release before this step.
kthread_exit ==
    /\ At("run") /\ cur.stack \in Exits
    /\ IF proc = None THEN panic("kthread_exit_no_current_proc") ELSE
       /\ state' = [state EXCEPT ![proc] = "ZOMBIE"]
       /\ Goto("zombie")
       /\ UNCHANGED <<ctx, queue, proc, intr_state, sie, halt>>
    /\ UNCHANGED need_resched

\* Mutant: a proc is queued again whatever its state is.
requeue_always == IF proc = Idle THEN queue ELSE Append(queue, proc)

\* Mutant: the proc that yields goes to the head of the queue.
requeue_first == IF state[proc] = "RUNNING" THEN <<proc>> \o queue ELSE queue

\* Mutant: the call of enqueue_proc is missing.
requeue_never == queue

\* The switch in sched_yield: only a RUNNING proc is queued again.
requeue == IF state[proc] = "RUNNING" THEN Append(queue, proc) ELSE queue
yielded == IF state[proc] = "RUNNING" THEN [state EXCEPT ![proc] = "RUNNABLE"] ELSE state

\* Mutant: list_del is missing.
dequeued_keeps(q) == q

\* dequeue_proc, with the idle proc standing in for NULL as its caller does.
first(q)    == IF q = <<>> THEN Idle ELSE Head(q)
dequeued(q) == IF q = <<>> THEN <<>> ELSE Tail(q)

\* Mutant: c->proc = next is missing.
start_null(next, states) ==
    /\ proc' = None
    /\ state' = IF next = Idle THEN states ELSE [states EXCEPT ![next] = "RUNNING"]

\* The locked region of context_switch_yield.
start(next, states) ==
    /\ proc' = next
    /\ state' = IF next = Idle THEN states ELSE [states EXCEPT ![next] = "RUNNING"]

\* sched_yield called by kthread_exit, with interrupts on.
sched_yield ==
    /\ At("zombie")
    /\ IF proc = None THEN panic("null_proc_pointer") ELSE
       /\ queue' = requeue /\ state' = yielded
       /\ cur' = [cur EXCEPT !.at = "null", !.p = proc]
       /\ proc' = None
       /\ UNCHANGED <<ctx, intr_state, sie, halt>>
    /\ UNCHANGED need_resched

\* dequeue_proc and, if it returns NULL, the message that the hart idles: either
\* one takes a lock.  A trap before its w_sstatus finds proc NULL, as one before
\* this step does.
dequeue_proc ==
    /\ At("null")
    /\ cur' = [cur EXCEPT !.at = "picked", !.next = first(queue)]
    /\ queue' = dequeued(queue)
    /\ intr_state' = sie
    /\ UNCHANGED <<state, ctx, proc, need_resched, sie, halt>>

context_switch_yield ==
    /\ At("picked")
    /\ start(cur.next, state)
    /\ intr_state' = sie
    /\ Goto("next")
    /\ UNCHANGED <<ctx, queue, need_resched, sie, halt>>

\* Mutant: the two arguments of context_switch are swapped on the save side.
context_switch_swapped(old, next, saved) ==
    LET ctxs == [ctx EXCEPT ![next] = saved]
    IN  ctx' = ctxs /\ cur' = ctxs[next] /\ sie' = ctxs[next].sie

\* switch.S: save into old, then load next.
context_switch(old, next, saved) ==
    LET ctxs == [ctx EXCEPT ![old] = saved]
    IN  ctx' = ctxs /\ cur' = ctxs[next] /\ sie' = ctxs[next].sie

\* The last call of kthread_exit's sched_yield.
leave ==
    /\ At("next")
    /\ context_switch(cur.p, cur.next, [cur EXCEPT !.at = "gone", !.sie = sie])
    /\ UNCHANGED <<state, queue, proc, need_resched, intr_state, halt>>
-----------------------------------------------------------------------------
\* An interrupt: kernelvec, kerneltrap, handle_timer and, once a timer tick has
\* set need_resched (nothing clears it), sched_yield to context_switch, with
\* interrupts off throughout.  A handler that logs takes the lock of printf, and
\* saves the interrupt state it runs with.
kerneltrap(irq) ==
    /\ halt = "no" /\ sie = 1
    /\ need_resched' = (need_resched \/ irq = "timer")
    /\ IF ~need_resched'
       THEN intr_state' \in {intr_state, 0} /\ UNCHANGED <<tasks, sie, cur, halt>>
       ELSE IF proc = None THEN panic("null_proc_pointer") ELSE
       LET next == first(requeue) IN
       /\ queue' = dequeued(requeue)
       /\ start(next, yielded)
       /\ context_switch(proc, next, [cur EXCEPT !.trapped = TRUE, !.sie = 0])
       /\ intr_state' = 0
       /\ UNCHANGED halt

\* Back from context_switch in kerneltrap; sret turns interrupts on.
kernelret ==
    /\ halt = "no" /\ cur.trapped
    /\ cur' = [cur EXCEPT !.trapped = FALSE]
    /\ sie' = 1
    /\ UNCHANGED <<tasks, need_resched, intr_state, halt>>

\* panic() powers the machine off.
Halted == halt # "no" /\ UNCHANGED vars

Next ==
    \/ spinlock_acquire \/ spinlock_release
    \/ \E t \in Threads : kthread_create(t)
    \/ enqueue_proc
    \/ kthread_exit \/ sched_yield \/ dequeue_proc \/ context_switch_yield \/ leave
    \/ \E irq \in {"timer", "external"} : kerneltrap(irq)
    \/ kernelret
    \/ Halted

Spec == Init /\ [][Next]_vars

\* A timer interrupt stays pending (handle_timer always arms the next one) until
\* interrupts are on; a tick is long enough for the code that runs to go on.
FairSpec ==
    /\ Spec
    /\ SF_vars(kerneltrap("timer")) /\ WF_vars(kernelret)
    /\ \A t \in Threads :
         /\ SF_vars(cur.stack = t /\ (spinlock_release \/ enqueue_proc))
         /\ SF_vars(cur.stack = t /\ (sched_yield \/ dequeue_proc \/ context_switch_yield \/ leave))
-----------------------------------------------------------------------------
Queued == {queue[i] : i \in 1..Len(queue)}

\* The run queue holds RUNNABLE threads only, and each of them once: no thread
\* can be started twice.
QueueSound ==
    /\ \A t \in Queued : state[t] = "RUNNABLE"
    /\ Cardinality(Queued) = Len(queue)

\* Threads that code in kthread_create has made RUNNABLE and not yet queued: the
\* code that runs, or code that was preempted there.
Creating == {c.p : c \in {d \in {cur} \cup {ctx[q] : q \in Queued} :
                            d.at \in {"created", "mask_enqueue"}}}

\* No thread has returned from its function.
NoExit == \A t \in Threads : state[t] # "ZOMBIE"

\* No thread is lost: a RUNNABLE one is queued, or about to be by code that is
\* itself running or queued.
NoThreadLost ==
    NoExit => \A t \in Threads : state[t] = "RUNNABLE" => t \in Queued \cup Creating

\* A thread that waits for the hart will go on with its own stack.
OwnStack == NoExit => \A t \in Threads : state[t] = "RUNNABLE" => ctx[t].stack = t

\* An exited thread stays one: nothing brings it back, whoever yields around it.
ZombieForever ==
    [][\A t \in Threads : state[t] = "ZOMBIE" => state'[t] = "ZOMBIE"]_vars

\* The panics of sched_yield and kthread_exit are reached only after a thread has
\* exited: kthread_exit yields with interrupts on, and a tick in there finds no proc.
PanicNeedsExit == halt # "no" => ~NoExit

\* If no thread exits and interrupts are on again and again, a RUNNABLE thread
\* gets to execute.
EveryoneRuns ==
    []NoExit /\ []<>(sie = 1) =>
        \A t \in Threads : state[t] = "RUNNABLE" ~> (cur.stack = t /\ ~cur.trapped)
-----------------------------------------------------------------------------
(* The inductive invariant. *)
Contexts == [stack : Procs, at : Steps, trapped : BOOLEAN, sie : {0, 1},
             p : Procs \cup {None}, next : Procs \cup {None}]

TypeOK ==
    /\ state \in [Procs -> {"UNUSED", "RUNNABLE", "RUNNING", "ZOMBIE", "IDLE"}]
    /\ \A q \in Procs : state[q] = "IDLE" <=> q = Idle
    /\ ctx \in [Procs -> Contexts] /\ cur \in Contexts
    /\ queue \in Seq(Threads) /\ proc \in Procs \cup {None}
    /\ need_resched \in BOOLEAN /\ intr_state \in {0, 1} /\ sie \in {0, 1}

Making(c) == c.at \in {"created", "mask_enqueue"}

\* What code c of proc q knows: it is on its own stack unless an exiting thread is
\* about to load it, the thread it creates is not queued yet, and an exiting
\* thread has cpu->proc set to the one it loads.
Proper(c, q) ==
    /\ c.at \in {"run", "mask", "created", "mask_enqueue"} => c.stack = q
    /\ Making(c) => c.p \in Threads \ Queued /\ state[c.p] = "RUNNABLE"
    /\ c.at = "next" => c.next = q /\ q \in Procs /\ c.p \in Threads /\ state[c.p] = "ZOMBIE"
    /\ q = Idle => c.at \in {"run", "next"}

\* p->ctx is what context_switch will load: not so of a thread that has exited, nor
\* of the one that runs, unless it is still to be loaded.
Saved(q) == state[q] # "ZOMBIE" /\ (q = proc => cur.at = "next")

SavedProper ==
    \A q \in Procs : Saved(q) =>
        /\ ctx[q].at \in {"run", "mask", "created", "mask_enqueue", "next"}
        /\ Proper(ctx[q], q)

CurProper ==
    /\ Proper(cur, proc) /\ cur.at # "gone"
    /\ cur.at = "zombie" => proc \in Threads /\ state[proc] = "ZOMBIE"
    /\ cur.at \in {"null", "picked"} => proc = None /\ cur.p \in Threads /\ state[cur.p] = "ZOMBIE"
    /\ cur.at = "picked" => \/ cur.next = Idle
                            \/ cur.next \in Threads \ Queued /\ state[cur.next] = "RUNNABLE"
    /\ proc \in Threads => \/ state[proc] = "RUNNING"
                           \/ state[proc] = "ZOMBIE" /\ cur.at = "zombie"

\* A thread is created by one context only, and not started before it is queued.
MadeOnce ==
    /\ \A q, r \in Procs :
          q # r /\ Saved(q) /\ Saved(r) /\ Making(ctx[q]) /\ Making(ctx[r]) => ctx[q].p # ctx[r].p
    /\ \A q \in Procs : Saved(q) /\ Making(ctx[q]) =>
          /\ Making(cur) => cur.p # ctx[q].p
          /\ cur.at = "picked" => cur.next # ctx[q].p

InQueueOnce ==
    /\ \A t \in Queued : state[t] = "RUNNABLE"
    /\ \A i, j \in 1..Len(queue) : queue[i] = queue[j] => i = j

\* NoThreadLost, without the set of contexts.
Waits(t) ==
    \/ t \in Queued
    \/ Making(cur) /\ cur.p = t
    \/ \E q \in Queued : Making(ctx[q]) /\ ctx[q].p = t

Kept == NoExit => halt = "no" /\ \A t \in Threads : state[t] = "RUNNABLE" => Waits(t)

IInv == TypeOK /\ InQueueOnce /\ SavedProper /\ CurProper /\ MadeOnce /\ Kept
==============================================================================
