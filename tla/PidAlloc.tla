------------------------------ MODULE PidAlloc -------------------------------
(***************************************************************************)
(* alloc_pid of src/task/proc.c: a lock-free counter that wraps around.    *)
(* Several callers run it at once; the read of next_pid and the compare-   *)
(* and-exchange that follows it are separate steps.                        *)
(***************************************************************************)
EXTENDS Integers

CONSTANTS Callers, PID_MIN, PID_MAX

ASSUME PidAssumption == PID_MIN \in Nat /\ PID_MAX \in Nat /\ PID_MIN <= PID_MAX

VARIABLES
    next_pid,
    step,      \* the next step of each caller
    current,   \* its local variable
    pid,       \* the pid it got last
    given      \* pids given out since next_pid was last reset

pidVars == <<next_pid, step, current, pid, given>>

Pids == PID_MIN..PID_MAX

PidInit ==
    /\ next_pid = PID_MIN
    /\ step = [c \in Callers |-> "read"]
    /\ current = [c \in Callers |-> PID_MIN]
    /\ pid = [c \in Callers |-> PID_MIN]
    /\ given = {}

read(c) ==
    /\ step[c] = "read"
    /\ current' = [current EXCEPT ![c] = next_pid]
    /\ step' = [step EXCEPT ![c] = IF next_pid > PID_MAX THEN "wrap" ELSE "take"]
    /\ UNCHANGED <<next_pid, pid, given>>

\* Mutant: the counter is never reset.
wrap_forgets(c) ==
    /\ step[c] = "wrap"
    /\ step' = [step EXCEPT ![c] = "read"]
    /\ UNCHANGED <<next_pid, current, pid, given>>

\* The counter is past PID_MAX: reset it unless another caller has, and retry.
wrap(c) ==
    /\ step[c] = "wrap"
    /\ IF next_pid = current[c]
         THEN next_pid' = PID_MIN /\ given' = {}
         ELSE UNCHANGED <<next_pid, given>>
    /\ step' = [step EXCEPT ![c] = "read"]
    /\ UNCHANGED <<current, pid>>

\* Mutant: the exchange does not compare.
take_stores(c) ==
    /\ step[c] = "take"
    /\ next_pid' = current[c] + 1
    /\ pid' = [pid EXCEPT ![c] = current[c]]
    /\ given' = given \cup {current[c]}
    /\ step' = [step EXCEPT ![c] = "done"]
    /\ UNCHANGED current

\* Mutant: a failed exchange counts as a success.
take_ignores(c) ==
    /\ step[c] = "take"
    /\ IF next_pid = current[c] THEN next_pid' = current[c] + 1 ELSE UNCHANGED next_pid
    /\ pid' = [pid EXCEPT ![c] = current[c]]
    /\ given' = given \cup {current[c]}
    /\ step' = [step EXCEPT ![c] = "done"]
    /\ UNCHANGED current

\* The exchange of next_pid by next_pid + 1, which gives the caller its pid.
take(c) ==
    /\ step[c] = "take"
    /\ IF next_pid = current[c]
         THEN /\ next_pid' = current[c] + 1
              /\ pid' = [pid EXCEPT ![c] = current[c]]
              /\ given' = given \cup {current[c]}
              /\ step' = [step EXCEPT ![c] = "done"]
         ELSE /\ step' = [step EXCEPT ![c] = "read"]
              /\ UNCHANGED <<next_pid, pid, given>>
    /\ UNCHANGED current

\* alloc_pid is called again.
call(c) ==
    /\ step[c] = "done"
    /\ step' = [step EXCEPT ![c] = "read"]
    /\ UNCHANGED <<next_pid, current, pid, given>>

PidNext == \E c \in Callers : read(c) \/ wrap(c) \/ take(c) \/ call(c)

PidSpec == PidInit /\ [][PidNext]_pidVars

\* A caller that is in alloc_pid executes.
PidFairSpec == PidSpec /\ \A c \in Callers : WF_pidVars(read(c) \/ wrap(c) \/ take(c))
-----------------------------------------------------------------------------
PidTypeOK ==
    /\ next_pid \in PID_MIN..(PID_MAX + 1)
    /\ step \in [Callers -> {"read", "wrap", "take", "done"}]
    /\ current \in [Callers -> PID_MIN..(PID_MAX + 1)]
    /\ pid \in [Callers -> Pids]
    /\ given \subseteq Pids

\* The pids given out since the last reset are PID_MIN to next_pid - 1: none is
\* skipped, however the callers' reads, exchanges and resets interleave.
Dense == given = PID_MIN..(next_pid - 1)

\* What a caller has read tells it which way to go.
Branches ==
    \A c \in Callers : /\ step[c] = "take" => current[c] <= PID_MAX
                       /\ step[c] = "wrap" => current[c] = PID_MAX + 1

\* The inductive invariant.
PidInv == PidTypeOK /\ Dense /\ Branches

\* A pid is given out once before the counter wraps around.
GivenOnce ==
    [][\A c \in Callers : step[c] = "take" /\ step'[c] = "done" => pid'[c] \notin given]_pidVars

\* alloc_pid is lock-free: while callers are in it, one of them finishes.
SomeoneFinishes ==
    \A c \in Callers : step[c] = "read" ~> \E d \in Callers : step[d] = "done"
==============================================================================
