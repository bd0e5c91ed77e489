------------------------------- MODULE ForkJoin -------------------------------
(***************************************************************************)
(* What the BSP of a TD relies on when it lets the APs work for it: a job  *)
(* is handed to all workers, every worker takes it exactly once and works  *)
(* on it while it does not change, and the job ends when no worker is left *)
(* with it.  Nothing is said of how the workers are told or counted.       *)
(***************************************************************************)
CONSTANTS
    Worker,     \* the APs
    Job,        \* the arguments of an AcceptPages command
    NoJob       \* no command is out

VARIABLES
    job,        \* the job that is out
    pending,    \* the workers that have not taken it yet
    active      \* the workers that work on it

fjvars == <<job, pending, active>>

Init ==
    /\ job = NoJob
    /\ pending = {}
    /\ active = {}

Fork(j) ==
    /\ job = NoJob
    /\ job' = j
    /\ pending' = Worker
    /\ UNCHANGED active

Take(w) ==
    /\ w \in pending
    /\ pending' = pending \ {w}
    /\ active' = active \cup {w}
    /\ UNCHANGED job

Finish(w) ==
    /\ w \in active
    /\ active' = active \ {w}
    /\ UNCHANGED <<job, pending>>

Join ==
    /\ job # NoJob
    /\ pending = {}
    /\ active = {}
    /\ job' = NoJob
    /\ UNCHANGED <<pending, active>>

Next ==
    \/ \E j \in Job : Fork(j)
    \/ \E w \in Worker : Take(w) \/ Finish(w)
    \/ Join

Spec == Init /\ [][Next]_fjvars
=============================================================================
