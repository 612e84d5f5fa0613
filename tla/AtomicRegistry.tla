-------------------------- MODULE AtomicRegistry --------------------------
(***************************************************************************)
(* What scord promises of its registry of jobs and adhoc storage           *)
(* instances: each ADM_register_*, ADM_update_* and ADM_remove_* takes     *)
(* effect in one step, in full or not at all, and ids are not reused.      *)
(***************************************************************************)
EXTENDS Integers

CONSTANTS SlurmIds, NodeCounts, JobIds, AdhocIds, None

VARIABLES
    jobs,          \* registered jobs: a function from their ids to metadata
    created,       \* ids of the jobs that were ever registered
    slurm_index,   \* Slurm id -> job id
    adhocs,        \* registered adhoc storage instances
    clients        \* adhoc id -> the job that is its client

vars == <<jobs, created, slurm_index, adhocs, clients>>

Init ==
    /\ jobs = [j \in {} |-> None]
    /\ created = {}
    /\ slurm_index = [s \in SlurmIds |-> None]
    /\ adhocs = {}
    /\ clients = [a \in AdhocIds |-> None]

\* A job may name only a registered adhoc storage; it becomes its client if
\* there is none yet.
RegisterJob(j, s, a, n) ==
    /\ j \notin created
    /\ a = None \/ a \in adhocs
    /\ jobs' = [k \in DOMAIN jobs \cup {j} |->
                   IF k = j THEN [slurm_id |-> s, adhoc_id |-> a, nodes |-> n]
                   ELSE jobs[k]]
    /\ created' = created \cup {j}
    /\ slurm_index' = [slurm_index EXCEPT ![s] = IF @ = None THEN j ELSE @]
    /\ clients' = [b \in AdhocIds |->
                      IF b = a /\ clients[b] = None THEN j ELSE clients[b]]
    /\ UNCHANGED adhocs

UpdateJob(j, n) ==
    /\ j \in DOMAIN jobs
    /\ jobs' = [jobs EXCEPT ![j].nodes = n]
    /\ UNCHANGED <<created, slurm_index, adhocs, clients>>

RemoveJob(j) ==
    /\ j \in DOMAIN jobs
    /\ jobs' = [k \in DOMAIN jobs \ {j} |-> jobs[k]]
    /\ slurm_index' = [slurm_index EXCEPT ![jobs[j].slurm_id] = None]
    /\ clients' = [b \in AdhocIds |->
                      IF b = jobs[j].adhoc_id /\ b \in adhocs THEN None
                      ELSE clients[b]]
    /\ UNCHANGED <<created, adhocs>>

RegisterAdhoc(a) ==
    /\ a \notin adhocs
    /\ clients[a] = None
    /\ adhocs' = adhocs \cup {a}
    /\ UNCHANGED <<jobs, created, slurm_index, clients>>

RemoveAdhoc(a) ==
    /\ a \in adhocs
    /\ adhocs' = adhocs \ {a}
    /\ UNCHANGED <<jobs, created, slurm_index, clients>>

Next ==
    \/ \E j \in JobIds, s \in SlurmIds, a \in AdhocIds \cup {None},
          n \in NodeCounts : RegisterJob(j, s, a, n)
    \/ \E j \in JobIds, n \in NodeCounts : UpdateJob(j, n)
    \/ \E j \in JobIds : RemoveJob(j)
    \/ \E a \in AdhocIds : RegisterAdhoc(a) \/ RemoveAdhoc(a)

Spec == Init /\ [][Next]_vars
============================================================================
