----------------------------- MODULE Managers -----------------------------
(***************************************************************************)
(* The job manager and the PFS storage manager at the grain of their locks *)
(* and of the steps inside their critical sections.  ScordRegistry takes a *)
(* critical section for one step: this module is what justifies it.  Each  *)
(* handler ULT serves one request; ids and handlers bound the requests.    *)
(***************************************************************************)
EXTENDS ManagersConstants

VARIABLES
    m_jobs,           \* id -> [slurm_id, value]
    m_slurm_to_scord, \* Slurm id -> id
    m_pfs_storages,   \* id -> value
    current_id,       \* the next id of each manager
    readers,          \* times each handler holds each mutex as a reader
    writer,           \* the handler that holds each mutex as a writer
    pc, req, id, resp,
    nh                \* the Slurm id of the job remove() has extracted

tables == <<m_jobs, m_slurm_to_scord, m_pfs_storages, current_id>>
locks == <<readers, writer>>
locals == <<pc, req, id, resp, nh>>
vars == <<tables, locks, locals>>

Mutexes == {"m_jobs_mutex", "m_pfs_storages_mutex"}
JobOps == {"register_job", "update_job", "find_job", "query", "remove_job"}
PfsOps == {"register_pfs", "update_pfs", "remove_pfs"}
Registrations == {"register_job", "register_pfs"}

\* Mutants of Readers: remove(), or create(), takes the lock find() takes.
ReadersRemoving == {"find_job", "query", "remove_job"}
ReadersCreating == {"find_job", "query", "register_job"}

Readers == {"find_job", "query"}
Job == [slurm_id : SlurmIds, value : Values]
Responses == [ec : {"success", "no_such_entity", "entity_exists"},
              id : Nat \cup {None}]
Steps == {"idle", "draw", "lock", "body", "index", "nested", "find",
          "release", "unlock", "done"}

MutexOf(op) == IF op \in JobOps THEN "m_jobs_mutex" ELSE "m_pfs_storages_mutex"

\* A function with one more, or one less, element in its domain.
Emplace(f, k, v) == [i \in DOMAIN f \cup {k} |->
                        IF i \in DOMAIN f THEN f[i] ELSE v]
Erase(f, k) == [i \in DOMAIN f \ {k} |-> f[i]]

\* Every variable has its type.
TypeOK ==
    /\ DOMAIN m_jobs \subseteq Nat
    /\ m_jobs \in [DOMAIN m_jobs -> Job]
    /\ DOMAIN m_slurm_to_scord \subseteq SlurmIds
    /\ m_slurm_to_scord \in [DOMAIN m_slurm_to_scord -> Nat]
    /\ DOMAIN m_pfs_storages \subseteq Nat
    /\ m_pfs_storages \in [DOMAIN m_pfs_storages -> Values]
    /\ current_id \in [Mutexes -> Nat]
    /\ readers \in [Mutexes -> [Handlers -> 0 .. 2]]
    /\ writer \in [Mutexes -> Handlers \cup {None}]
    /\ pc \in [Handlers -> Steps]
    /\ req \in [Handlers -> Requests \cup {None}]
    /\ id \in [Handlers -> Nat \cup {None}]
    /\ resp \in [Handlers -> Responses \cup {None}]
    /\ nh \in [Handlers -> SlurmIds \cup {None}]

Init ==
    /\ m_jobs = [i \in {} |-> None]
    /\ m_slurm_to_scord = [s \in {} |-> None]
    /\ m_pfs_storages = [i \in {} |-> None]
    /\ current_id = [m \in Mutexes |-> 0]
    /\ readers = [m \in Mutexes |-> [h \in Handlers |-> 0]]
    /\ writer = [m \in Mutexes |-> None]
    /\ pc = [h \in Handlers |-> "idle"]
    /\ req = [h \in Handlers |-> None]
    /\ id = [h \in Handlers |-> None]
    /\ resp = [h \in Handlers |-> None]
    /\ nh = [h \in Handlers |-> None]

----------------------------------------------------------------------------
(* abt::shared_mutex: Argobots' reader-writer lock.                        *)

\* Mutant of MayRead: a reader waits for the writers that are queued.
MayReadAfterWriters(m) ==
    /\ writer[m] = None
    /\ \A g \in Handlers : ~ /\ pc[g] = "lock" /\ MutexOf(req[g].op) = m
                             /\ req[g].op \notin Readers

\* A reader waits while there is a writer, but not for a writer that waits.
MayRead(m)  == writer[m] = None
MayWrite(m) == writer[m] = None /\ \A g \in Handlers : readers[m][g] = 0

rdlock(h, m) ==
    /\ MayRead(m)
    /\ readers' = [readers EXCEPT ![m][h] = @ + 1]
    /\ UNCHANGED writer

wrlock(h, m) ==
    /\ MayWrite(m)
    /\ writer' = [writer EXCEPT ![m] = h]
    /\ UNCHANGED readers

unlock(h, m) ==
    IF writer[m] = h
    THEN writer' = [writer EXCEPT ![m] = None] /\ UNCHANGED readers
    ELSE readers' = [readers EXCEPT ![m][h] = @ - 1] /\ UNCHANGED writer

----------------------------------------------------------------------------
(* The handlers.                                                           *)

Op(h) == req[h].op
At(h, step) == pc[h] = step
Goto(h, step) == pc' = [pc EXCEPT ![h] = step]
Result(h, ec, i) == resp' = [resp EXCEPT ![h] = [ec |-> ec, id |-> i]]

\* Handlers that were asked for an operation, up to now.
Asked(op) == {h \in Handlers : req[h] # None /\ Op(h) = op}

\* A request of a client reaches a handler.
Start(h, r) ==
    /\ At(h, "idle")
    /\ r \in Requests /\ r.op \in Serves[h]
    /\ r.op \in Registrations => Cardinality(Asked(r.op)) < MaxId
    /\ req' = [req EXCEPT ![h] = r]
    /\ Goto(h, IF r.op \in Registrations THEN "draw" ELSE "lock")
    /\ id' = [id EXCEPT ![h] = r.of]
    /\ UNCHANGED <<tables, locks, resp, nh>>

\* create(): the id is drawn before the mutex is locked.
Draw(h) ==
    /\ At(h, "draw")
    /\ LET m == MutexOf(Op(h)) IN
         /\ id' = [id EXCEPT ![h] = current_id[m]]
         /\ current_id' = [current_id EXCEPT ![m] = @ + 1]
    /\ Goto(h, "lock")
    /\ UNCHANGED <<m_jobs, m_slurm_to_scord, m_pfs_storages, locks, req, resp, nh>>

\* find() and find_by_slurm_id() take the mutex shared, the others alone.
Lock(h) ==
    /\ At(h, "lock")
    /\ IF Op(h) \in Readers THEN rdlock(h, MutexOf(Op(h)))
                            ELSE wrlock(h, MutexOf(Op(h)))
    /\ Goto(h, "body")
    /\ UNCHANGED <<tables, req, id, resp, nh>>

\* job_manager::create(): the job first, its Slurm id next.
CreateJob(h) ==
    /\ At(h, "body") /\ Op(h) = "register_job"
    /\ IF id[h] \in DOMAIN m_jobs
       THEN /\ Result(h, "entity_exists", None) /\ Goto(h, "unlock")
            /\ UNCHANGED m_jobs
       ELSE /\ m_jobs' = Emplace(m_jobs, id[h], [slurm_id |-> req[h].slurm_id,
                                                 value |-> req[h].value])
            /\ Result(h, "success", id[h]) /\ Goto(h, "index")
    /\ UNCHANGED <<m_slurm_to_scord, m_pfs_storages, current_id, locks, req, id, nh>>

IndexJob(h) ==
    /\ At(h, "index") /\ Op(h) = "register_job"
    /\ m_slurm_to_scord' = Emplace(m_slurm_to_scord, req[h].slurm_id, id[h])
    /\ Goto(h, "unlock")
    /\ UNCHANGED <<m_jobs, m_pfs_storages, current_id, locks, req, id, resp, nh>>

\* job_manager::remove(): the job is extracted, then its Slurm id erased.
RemoveJob(h) ==
    /\ At(h, "body") /\ Op(h) = "remove_job"
    /\ IF id[h] \in DOMAIN m_jobs
       THEN /\ m_jobs' = Erase(m_jobs, id[h])
            /\ nh' = [nh EXCEPT ![h] = m_jobs[id[h]].slurm_id]
            /\ Result(h, "success", None) /\ Goto(h, "index")
       ELSE /\ Result(h, "no_such_entity", None) /\ Goto(h, "unlock")
            /\ UNCHANGED <<m_jobs, nh>>
    /\ UNCHANGED <<m_slurm_to_scord, m_pfs_storages, current_id, locks, req, id>>

UnindexJob(h) ==
    /\ At(h, "index") /\ Op(h) = "remove_job"
    /\ m_slurm_to_scord' = Erase(m_slurm_to_scord, nh[h])
    /\ Goto(h, "unlock")
    /\ UNCHANGED <<m_jobs, m_pfs_storages, current_id, locks, req, id, resp, nh>>

UpdateJob(h) ==
    /\ At(h, "body") /\ Op(h) = "update_job"
    /\ IF id[h] \in DOMAIN m_jobs
       THEN /\ m_jobs' = [m_jobs EXCEPT ![id[h]].value = req[h].value]
            /\ Result(h, "success", None)
       ELSE Result(h, "no_such_entity", None) /\ UNCHANGED m_jobs
    /\ Goto(h, "unlock")
    /\ UNCHANGED <<m_slurm_to_scord, m_pfs_storages, current_id, locks, req, id, nh>>

\* find(), with the mutex held.
Find(h) == IF id[h] \in DOMAIN m_jobs THEN Result(h, "success", id[h])
                                     ELSE Result(h, "no_such_entity", None)

FindJob(h) ==
    /\ At(h, "body") /\ Op(h) = "find_job"
    /\ Find(h)
    /\ Goto(h, "unlock")
    /\ UNCHANGED <<tables, locks, req, id, nh>>

\* Mutant of LookupSlurm: the lock is given back before find() takes it.
LookupSlurmUnlocked(h) ==
    /\ At(h, "body") /\ Op(h) = "query"
    /\ IF req[h].slurm_id \in DOMAIN m_slurm_to_scord
       THEN /\ id' = [id EXCEPT ![h] = m_slurm_to_scord[req[h].slurm_id]]
            /\ Goto(h, "nested")
            /\ UNCHANGED resp
       ELSE /\ Result(h, "no_such_entity", None) /\ Goto(h, "release")
            /\ UNCHANGED id
    /\ unlock(h, "m_jobs_mutex")
    /\ UNCHANGED <<tables, req, nh>>

\* find_by_slurm_id() with the mutex held: an entry of the index is handed to
\* find(), which locks the same mutex once more.
LookupSlurm(h) ==
    /\ At(h, "body") /\ Op(h) = "query"
    /\ IF req[h].slurm_id \in DOMAIN m_slurm_to_scord
       THEN /\ id' = [id EXCEPT ![h] = m_slurm_to_scord[req[h].slurm_id]]
            /\ Goto(h, "nested")
            /\ UNCHANGED resp
       ELSE /\ Result(h, "no_such_entity", None) /\ Goto(h, "unlock")
            /\ UNCHANGED id
    /\ UNCHANGED <<tables, locks, req, nh>>

NestedLock(h) ==
    /\ At(h, "nested")
    /\ rdlock(h, "m_jobs_mutex")
    /\ Goto(h, "find")
    /\ UNCHANGED <<tables, req, id, resp, nh>>

NestedFind(h) ==
    /\ At(h, "find")
    /\ Find(h)
    /\ Goto(h, "release")
    /\ UNCHANGED <<tables, locks, req, id, nh>>

NestedUnlock(h) ==
    /\ At(h, "release")
    /\ unlock(h, "m_jobs_mutex")
    /\ Goto(h, "unlock")
    /\ UNCHANGED <<tables, req, id, resp, nh>>

\* pfs_storage_manager::create(), update() and remove().
CreatePfs(h) ==
    /\ At(h, "body") /\ Op(h) = "register_pfs"
    /\ IF id[h] \in DOMAIN m_pfs_storages
       THEN Result(h, "entity_exists", None) /\ UNCHANGED m_pfs_storages
       ELSE /\ m_pfs_storages' = Emplace(m_pfs_storages, id[h], req[h].value)
            /\ Result(h, "success", id[h])
    /\ Goto(h, "unlock")
    /\ UNCHANGED <<m_jobs, m_slurm_to_scord, current_id, locks, req, id, nh>>

UpdatePfs(h) ==
    /\ At(h, "body") /\ Op(h) = "update_pfs"
    /\ IF id[h] \in DOMAIN m_pfs_storages
       THEN /\ m_pfs_storages' = [m_pfs_storages EXCEPT ![id[h]] = req[h].value]
            /\ Result(h, "success", None)
       ELSE Result(h, "no_such_entity", None) /\ UNCHANGED m_pfs_storages
    /\ Goto(h, "unlock")
    /\ UNCHANGED <<m_jobs, m_slurm_to_scord, current_id, locks, req, id, nh>>

RemovePfs(h) ==
    /\ At(h, "body") /\ Op(h) = "remove_pfs"
    /\ IF id[h] \in DOMAIN m_pfs_storages
       THEN /\ m_pfs_storages' = Erase(m_pfs_storages, id[h])
            /\ Result(h, "success", None)
       ELSE Result(h, "no_such_entity", None) /\ UNCHANGED m_pfs_storages
    /\ Goto(h, "unlock")
    /\ UNCHANGED <<m_jobs, m_slurm_to_scord, current_id, locks, req, id, nh>>

\* The lock object goes out of scope and the handler responds.
Unlock(h) ==
    /\ At(h, "unlock")
    /\ unlock(h, MutexOf(Op(h)))
    /\ Goto(h, "done")
    /\ UNCHANGED <<tables, req, id, resp, nh>>

Work(h) ==
    \/ Draw(h) \/ Lock(h) \/ Unlock(h)
    \/ CreateJob(h) \/ IndexJob(h) \/ RemoveJob(h) \/ UnindexJob(h)
    \/ UpdateJob(h) \/ FindJob(h)
    \/ LookupSlurm(h) \/ NestedLock(h) \/ NestedFind(h) \/ NestedUnlock(h)
    \/ CreatePfs(h) \/ UpdatePfs(h) \/ RemovePfs(h)

Next == \E h \in Handlers : Work(h) \/ \E r \in Requests : Start(h, r)

Spec == Init /\ [][Next]_vars

----------------------------------------------------------------------------
(* Properties.                                                             *)

\* No handler is in the middle of its request.
Quiet == \A h \in Handlers : pc[h] \in {"idle", "done"}

\* An entry that find_by_slurm_id found in the index leads to a job, however
\* many handlers create and remove jobs meanwhile: the nested find() does not
\* fail, and query never answers with a job that is gone.
NestedFindSucceeds ==
    \A h \in Handlers :
        pc[h] \in {"nested", "find"} => id[h] \in DOMAIN m_jobs

\* A handler that is at a mutex and cannot have it, and the handlers that do.
Blocked(h) ==
    \/ pc[h] = "nested" /\ ~MayRead("m_jobs_mutex")
    \/ /\ pc[h] = "lock"
       /\ IF Op(h) \in Readers THEN ~MayRead(MutexOf(Op(h))) ELSE ~MayWrite(MutexOf(Op(h)))
Holders(m) == {g \in Handlers : writer[m] = g \/ readers[m][g] > 0}

\* A handler that waits for a mutex waits for handlers that go on: nobody who
\* has a mutex waits for one, not even find_by_slurm_id(), which takes the one
\* it has a second time, with a writer waiting in between (job_manager.hpp:112).
NoDeadlock ==
    \A h \in Handlers : Blocked(h) =>
        LET holders == Holders(MutexOf(Op(h)))
        IN  holders # {} /\ \A g \in holders : ~Blocked(g)

\* The managers implement maps on which every operation is one step, with the
\* answers that go with it.  Between the two halves of create() and remove()
\* the index is the one the half that is left will make.
Halfway(op) == {h \in Handlers : pc[h] = "index" /\ req[h].op = op}
AbstractIndex ==
    [s \in (DOMAIN m_slurm_to_scord
               \cup {req[h].slurm_id : h \in Halfway("register_job")})
             \ {nh[h] : h \in Halfway("remove_job")} |->
        IF s \in DOMAIN m_slurm_to_scord THEN m_slurm_to_scord[s]
        ELSE id[CHOOSE h \in Halfway("register_job") : req[h].slurm_id = s]]

Atomic == INSTANCE AtomicManagers
              WITH jobs <- m_jobs, index <- AbstractIndex,
                   pfs <- m_pfs_storages, asked <- req, answers <- resp
ImplementsAtomic == Atomic!Spec
============================================================================
