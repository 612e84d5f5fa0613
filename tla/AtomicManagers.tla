-------------------------- MODULE AtomicManagers --------------------------
(***************************************************************************)
(* What the managers of jobs and PFS storages promise their callers: every *)
(* operation takes effect, and has its answer, in one step.                *)
(***************************************************************************)
CONSTANTS Handlers, Requests, Ids, None

VARIABLES
    jobs,       \* id -> [slurm_id, value]
    index,      \* Slurm id -> id
    pfs,        \* id -> value
    asked,      \* what each handler was asked
    answers     \* and answered

vars == <<jobs, index, pfs, asked, answers>>

Init ==
    /\ jobs = [i \in {} |-> None]
    /\ index = [s \in {} |-> None]
    /\ pfs = [i \in {} |-> None]
    /\ asked = [h \in Handlers |-> None]
    /\ answers = [h \in Handlers |-> None]

\* The daemon ends: what it knew was in its memory.
Forget == jobs' = [i \in {} |-> None] /\ index' = [s \in {} |-> None]
          /\ pfs' = [i \in {} |-> None] /\ asked' = [h \in Handlers |-> None]
          /\ answers' = [h \in Handlers |-> None]

Ask(h, r) ==
    /\ asked[h] = None
    /\ asked' = [asked EXCEPT ![h] = r]
    /\ UNCHANGED <<jobs, index, pfs, answers>>

\* A handler that was asked for op answers, once.
Answer(h, op, ec, i) ==
    /\ asked[h] # None /\ asked[h].op = op
    /\ answers[h] = None
    /\ answers' = [answers EXCEPT ![h] = [ec |-> ec, id |-> i]]
    /\ UNCHANGED asked

With(f, k, v) == [i \in DOMAIN f \cup {k} |-> IF i \in DOMAIN f THEN f[i] ELSE v]
Without(f, k) == [i \in DOMAIN f \ {k} |-> f[i]]

\* Under an id of its own; the first of two jobs with one Slurm id is the one
\* the index has.
RegisterJob(h, i) ==
    /\ Answer(h, "register_job", "success", i)
    /\ i \notin DOMAIN jobs
    /\ jobs' = With(jobs, i, [slurm_id |-> asked[h].slurm_id,
                              value |-> asked[h].value])
    /\ index' = With(index, asked[h].slurm_id, i)
    /\ UNCHANGED pfs

RemoveJob(h) ==
    /\ Answer(h, "remove_job", "success", None)
    /\ asked[h].of \in DOMAIN jobs
    /\ jobs' = Without(jobs, asked[h].of)
    /\ index' = Without(index, jobs[asked[h].of].slurm_id)
    /\ UNCHANGED pfs

UpdateJob(h) ==
    /\ Answer(h, "update_job", "success", None)
    /\ asked[h].of \in DOMAIN jobs
    /\ jobs' = [jobs EXCEPT ![asked[h].of].value = asked[h].value]
    /\ UNCHANGED <<index, pfs>>

RegisterPfs(h, i) ==
    /\ Answer(h, "register_pfs", "success", i)
    /\ i \notin DOMAIN pfs
    /\ pfs' = With(pfs, i, asked[h].value)
    /\ UNCHANGED <<jobs, index>>

UpdatePfs(h) ==
    /\ Answer(h, "update_pfs", "success", None)
    /\ asked[h].of \in DOMAIN pfs
    /\ pfs' = [pfs EXCEPT ![asked[h].of] = asked[h].value]
    /\ UNCHANGED <<jobs, index>>

RemovePfs(h) ==
    /\ Answer(h, "remove_pfs", "success", None)
    /\ asked[h].of \in DOMAIN pfs
    /\ pfs' = Without(pfs, asked[h].of)
    /\ UNCHANGED <<jobs, index>>

\* A job is found by its id, or by the Slurm id the index has for it.
FindJob(h) ==
    /\ Answer(h, "find_job", "success", asked[h].of) /\ asked[h].of \in DOMAIN jobs
    /\ UNCHANGED <<jobs, index, pfs>>

Query(h) ==
    /\ asked[h] # None /\ asked[h].slurm_id \in DOMAIN index
    /\ Answer(h, "query", "success", index[asked[h].slurm_id])
    /\ UNCHANGED <<jobs, index, pfs>>

\* Only what is not there is answered with no_such_entity.
Missing(h) ==
    /\ \/ \E op \in {"find_job", "update_job", "remove_job"} :
              /\ Answer(h, op, "no_such_entity", None)
              /\ asked[h].of \notin DOMAIN jobs
       \/ \E op \in {"update_pfs", "remove_pfs"} :
              /\ Answer(h, op, "no_such_entity", None)
              /\ asked[h].of \notin DOMAIN pfs
       \/ /\ Answer(h, "query", "no_such_entity", None)
          /\ asked[h].slurm_id \notin DOMAIN index
    /\ UNCHANGED <<jobs, index, pfs>>

Next ==
    \/ Forget
    \/ \E h \in Handlers :
        \/ \E r \in Requests : Ask(h, r)
        \/ \E i \in Ids : RegisterJob(h, i) \/ RegisterPfs(h, i)
        \/ RemoveJob(h) \/ UpdateJob(h) \/ UpdatePfs(h) \/ RemovePfs(h)
        \/ FindJob(h) \/ Query(h) \/ Missing(h)

Spec == Init /\ [][Next]_vars
============================================================================
