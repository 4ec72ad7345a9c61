------------------------------ MODULE Trapframe ------------------------------
(***************************************************************************)
(* What an interrupt does to the registers of the code it interrupts:      *)
(* kernelvec and kernelret of src/trap/kernelvec.S, and context_switch of  *)
(* src/task/switch.S between them when the handler changes threads.  All   *)
(* of it runs with interrupts off, one hart at a time.                     *)
(*                                                                         *)
(* A register holds <<p, r, n>> when its value is the one that the code of *)
(* proc p left in register r in its n-th stretch of work.  "s", "a" and    *)
(* "t" stand for s0-s11, a0-a7 and t3-t6, which are treated alike.         *)
(***************************************************************************)
EXTENDS Naturals

CONSTANTS
    Procs,     \* threads and the idle proc
    Idle,      \* the proc that boots
    Hart,      \* the value of tp
    Junk,      \* a value that C code has left behind
    Stretches  \* stretches of work are counted modulo this

ASSUME ProcAssumption == Idle \in Procs /\ Stretches \in Nat \ {0}

\* kerneltrap does not return to the first instruction of a thread's function.
ASSUME JunkAssumption == \A p \in Procs : Junk # <<p, "ra", 0>>

Saved == {"ra", "sp", "gp", "s"}                        \* fields of struct context
Regs  == Saved \cup {"tp", "t0", "t1", "t2", "a", "t"}
Csrs  == {"sepc", "sstatus"}

VARIABLES
    regs,    \* the registers of the hart
    epc,     \* where the interrupted or running code is
    ktf,     \* p->ktf
    ctx,     \* p->ctx
    proc,    \* cpu->proc
    in_trap, \* the handler runs
    work     \* per proc: its stretch of work

tfVars == <<regs, epc, ktf, ctx, proc, in_trap, work>>

\* The value of register r in the n-th stretch of p.  gp is the address of
\* p->ktf.
Own(p, r, n) ==
    CASE r = "gp" -> p
      [] r = "tp" -> Hart
      [] OTHER -> <<p, r, n>>

\* The context of a proc that has not run: alloc_proc and kthread_create; for
\* the idle proc init_cpu sets gp itself and not ctx.gp.
Fresh(p) == [r \in Saved |-> IF r = "gp" THEN (IF p = Idle THEN Junk ELSE p)
                             ELSE <<p, r, 0>>]

NoFrame == [r \in Regs \cup Csrs |-> Junk]

TfInit ==
    /\ work = [p \in Procs |-> 0]
    /\ proc = Idle
    /\ in_trap = FALSE
    /\ regs = [r \in Regs |-> Own(Idle, r, 0)]
    /\ epc = <<Idle, "pc", 0>>
    /\ ktf = [p \in Procs |-> NoFrame]
    /\ ctx = [p \in Procs |-> Fresh(p)]
-----------------------------------------------------------------------------
\* The code that runs goes on and leaves new values in its registers.
Work ==
    /\ ~in_trap
    /\ work' = [work EXCEPT ![proc] = (@ + 1) % Stretches]
    /\ regs' = [r \in Regs |-> IF r \in {"gp", "tp"} THEN regs[r] ELSE Own(proc, r, work'[proc])]
    /\ epc' = <<proc, "pc", work'[proc]>>
    /\ UNCHANGED <<ktf, ctx, proc, in_trap>>

\* What kernelvec stores: by then t0, t1 and t2 hold sepc, sstatus and scause.
kernelvec_frame ==
    [r \in Regs \cup Csrs |->
        CASE r \in {"t0", "sepc"} -> epc
          [] r \in {"t1", "t2", "sstatus"} -> Junk
          [] OTHER -> regs[r]]

\* kernelvec stores the frame where gp points and calls kerneltrap, on the stack
\* of the interrupted code; C code uses every register but gp and tp.
kernelvec ==
    /\ ~in_trap
    /\ ktf' = [ktf EXCEPT ![regs["gp"]] = kernelvec_frame]
    /\ in_trap' = TRUE
    /\ regs' = [r \in Regs |-> IF r \in {"gp", "tp", "sp"} THEN regs[r] ELSE Junk]
    /\ UNCHANGED <<epc, ctx, proc, work>>

\* switch.S: what context_switch leaves in a register; the code it returns to
\* takes nothing else over.
loads(c, r) ==
    IF r \in Saved THEN c[r] ELSE IF r = "tp" THEN regs[r] ELSE Junk

\* kerneltrap calls sched_yield: cpu->proc changes, and context_switch saves
\* into the old proc and loads the new one.  A thread that never ran begins its
\* function, with a stack pointer and gp of its own; any other one goes on in
\* the kerneltrap that it was preempted in.
context_switch(next) ==
    /\ in_trap
    /\ proc' = next
    /\ ctx' = [ctx EXCEPT ![proc] = [r \in Saved |-> regs[r]]]
    /\ IF next # Idle /\ ctx'[next]["ra"] = <<next, "ra", 0>>
         THEN /\ in_trap' = FALSE
              /\ regs' = [r \in Regs |-> IF r \in {"gp", "tp", "sp"} THEN loads(ctx'[next], r)
                                         ELSE Own(next, r, work[next])]
              /\ epc' = <<next, "pc", work[next]>>
         ELSE /\ regs' = [r \in Regs |-> loads(ctx'[next], r)]
              /\ UNCHANGED <<in_trap, epc>>
    /\ UNCHANGED <<ktf, work>>

\* Mutant: sepc is not taken from the frame: the CSR still has the value of the
\* last interrupt.
kernelret_stale ==
    LET f == ktf[regs["gp"]] IN
    /\ in_trap
    /\ regs' = [r \in Regs |-> IF r = "t0" THEN f["sepc"] ELSE f[r]]
    /\ in_trap' = FALSE
    /\ UNCHANGED <<epc, ktf, ctx, proc, work>>

\* kernelret: ra, sp and gp come from the frame gp points to, and from then on
\* the rest from the frame the new gp points to; t0 and t1 carry the CSRs.
kernelret ==
    LET f == ktf[regs["gp"]]
        g == ktf[f["gp"]]
    IN  /\ in_trap
        /\ regs' = [r \in Regs |->
                      CASE r \in {"ra", "sp", "gp"} -> f[r]
                        [] r = "t0" -> g["sepc"]
                        [] r = "t1" -> g["sstatus"]
                        [] OTHER -> g[r]]
        /\ epc' = g["sepc"]
        /\ in_trap' = FALSE
        /\ UNCHANGED <<ktf, ctx, proc, work>>

TfNext ==
    \/ Work \/ kernelvec \/ kernelret
    \/ \E next \in Procs : context_switch(next)

TfSpec == TfInit /\ [][TfNext]_tfVars
-----------------------------------------------------------------------------
\* Code that an interrupt stopped goes on where it was, on its own stack and
\* with the values it left in its registers, whoever ran in between; but for t0, t1 and
\* t2, which kernelvec loads with CSRs before it saves them.
Resumes ==
    ~in_trap => /\ epc = <<proc, "pc", work[proc]>>
                /\ \A r \in Regs \ {"t0", "t1", "t2"} : regs[r] = Own(proc, r, work[proc])
-----------------------------------------------------------------------------
(* The inductive invariant. *)
Kept == Regs \ {"t0", "t1", "t2"}

\* Which functions the variables are.
Shapes ==
    /\ proc \in Procs /\ in_trap \in BOOLEAN /\ work \in [Procs -> Nat]
    /\ DOMAIN ktf = Procs /\ ktf = [p \in Procs |-> ktf[p]]
    /\ DOMAIN ctx = Procs /\ ctx = [p \in Procs |-> ctx[p]]

\* The frame of p has what the code of p left.
Framed(p) ==
    /\ ktf[p]["sepc"] = <<p, "pc", work[p]>>
    /\ \A r \in Kept : ktf[p][r] = Own(p, r, work[p])

\* c is what kerneltrap needs of its registers to return to p: the frame, the
\* stack, and a return address in kerneltrap.
Returns(c, p) == c["gp"] = p /\ c["sp"] = <<p, "sp", work[p]>> /\ c["ra"] = Junk

\* A proc that does not run was preempted in kerneltrap or has not begun.
Waiting ==
    \A p \in Procs \ {proc} :
        \/ Framed(p) /\ Returns(ctx[p], p)
        \/ p # Idle /\ work[p] = 0 /\ ctx[p] = Fresh(p)

InHandler == in_trap => Framed(proc) /\ Returns(regs, proc) /\ regs["tp"] = Hart

FrameInv == Shapes /\ Waiting /\ InHandler /\ Resumes
==============================================================================
