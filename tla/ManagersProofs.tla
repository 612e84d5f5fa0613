-------------------------- MODULE ManagersProofs ---------------------------
(***************************************************************************)
(* Proofs about Managers, for every number of handlers and of requests: a   *)
(* mutex has one writer or readers, and what the Slurm index names is there *)
(* when a reader looks for it. The second rests on the first: an entry can   *)
(* only dangle while a writer is between the two halves of remove().         *)
(***************************************************************************)
EXTENDS Managers, TLAPS

\* Where a handler holds the mutex of its operation, and how.
Holding  == {"body", "index", "nested", "find", "release", "unlock"}
Reads(h, m)  == pc[h] \in Holding /\ MutexOf(Op(h)) = m /\ Op(h) \in Readers
Writes(h, m) == pc[h] \in Holding /\ MutexOf(Op(h)) = m /\ Op(h) \notin Readers

\* The operation fits the step it is at, and a registration has its id.
StepsFit ==
    \A h \in Handlers :
        /\ pc[h] # "idle" => req[h] \in Requests
        /\ pc[h] = "draw" => Op(h) \in Registrations
        /\ pc[h] \in {"nested", "find", "release"} => Op(h) = "query"
        /\ pc[h] = "index" => Op(h) \in {"register_job", "remove_job"}
        /\ pc[h] \in Holding \cup {"lock"} /\ Op(h) \in Registrations => id[h] \in Nat

\* A handler has a mutex as a reader once, or twice around the nested find(),
\* or as its writer, and only where it holds it.
LocksFit ==
    \A h \in Handlers, m \in Mutexes :
        /\ Reads(h, m) =>
              readers[m][h] = IF pc[h] \in {"find", "release"} THEN 2 ELSE 1
        /\ ~Reads(h, m) => readers[m][h] = 0
        /\ Writes(h, m) <=> writer[m] = h

\* A mutex has no reader while it has a writer.
Exclusion ==
    \A m \in Mutexes : writer[m] # None => \A h \in Handlers : readers[m][h] = 0

\* Half of create(): the job is there and will be named.
HalfCreated ==
    \A h \in Handlers :
        pc[h] = "index" /\ Op(h) = "register_job" =>
            id[h] \in DOMAIN m_jobs /\ m_jobs[id[h]].slurm_id = req[h].slurm_id

\* An entry of the index names a job with its Slurm id, or is the one that a
\* handler halfway through remove() is going to erase.
EntrySound(s) ==
    \/ /\ m_slurm_to_scord[s] \in DOMAIN m_jobs
       /\ m_jobs[m_slurm_to_scord[s]].slurm_id = s
    \/ \E h \in Handlers : pc[h] = "index" /\ Op(h) = "remove_job" /\ nh[h] = s
IndexSound == \A s \in DOMAIN m_slurm_to_scord : EntrySound(s)

LockInv == TypeOK /\ StepsFit /\ LocksFit /\ Exclusion
IInv    == LockInv /\ HalfCreated /\ IndexSound /\ NestedFindSucceeds

----------------------------------------------------------------------------
(* Requests and mutexes. *)

\* The fields of a request have their types.
LEMMA RequestTypes ==
    ASSUME NEW r \in Requests
    PROVE  /\ r.op \in JobOps \cup PfsOps
           /\ r.slurm_id \in SlurmIds \cup {None}
           /\ r.of \in Nat \cup {None}
           /\ r.value \in Values \cup {None}
           /\ r.op \in {"register_job", "query"} => r.slurm_id \in SlurmIds
           /\ r.op \in {"register_job", "update_job", "register_pfs", "update_pfs"} =>
                  r.value \in Values
    BY ManagersAssumption
    DEF Requests, Request, JobOps, PfsOps, Ids

\* Every operation is one on a mutex of the managers.
LEMMA MutexTypes == \A op : MutexOf(op) \in Mutexes
    BY DEF MutexOf, Mutexes

----------------------------------------------------------------------------
(* The initial state. *)

\* The initial state satisfies the invariant.
LEMMA InitIInv == Init => IInv
    BY ManagersAssumption
    DEF Init, IInv, LockInv, TypeOK, StepsFit, LocksFit, Exclusion, HalfCreated,
        IndexSound, EntrySound, NestedFindSucceeds, Reads, Writes, Holding, Steps, Mutexes

----------------------------------------------------------------------------
(* Locks. *)

\* Of the handlers that have a mutex, a writer is the only one.
LEMMA WriterIsAlone ==
    ASSUME LockInv, NEW h \in Handlers, NEW g \in Handlers, NEW m \in Mutexes,
           Writes(h, m)
    PROVE  ~Reads(g, m) /\ (Writes(g, m) => g = h)
<1>1. writer[m] = h /\ h # None
  BY ManagersAssumption DEF LockInv, LocksFit
<1>2. readers[m][g] = 0
  BY <1>1 DEF LockInv, Exclusion
<1>3. ~Reads(g, m)
  BY <1>2 DEF LockInv, LocksFit
<1>4. Writes(g, m) => writer[m] = g
  BY DEF LockInv, LocksFit
<1>. QED BY <1>1, <1>3, <1>4

\* A handler that goes from step to step without a lock, or with the locks it
\* has, leaves the locks fitting.
LEMMA StepWithLocks ==
    ASSUME LockInv, NEW h \in Handlers, NEW s \in Steps,
           pc' = [pc EXCEPT ![h] = s], UNCHANGED <<locks, req>>,
           pc[h] \in Holding <=> s \in Holding,
           pc[h] \in {"find", "release"} <=> s \in {"find", "release"}
    PROVE  LocksFit' /\ Exclusion'
<1>1. Exclusion'
  BY DEF LockInv, Exclusion, locks
<1>2. ASSUME NEW g \in Handlers, NEW m \in Mutexes
      PROVE  /\ Reads(g, m)' <=> Reads(g, m)
             /\ Writes(g, m)' <=> Writes(g, m)
             /\ pc'[g] \in {"find", "release"} <=> pc[g] \in {"find", "release"}
  BY DEF LockInv, TypeOK, Reads, Writes, Op
<1>3. LocksFit'
  BY <1>2 DEF LockInv, LocksFit, locks
<1>. QED BY <1>1, <1>3

\* The same for a request that arrives: it has no lock yet.
LEMMA StartLock ==
    ASSUME LockInv, NEW h \in Handlers, NEW r \in Requests, Start(h, r)
    PROVE  LockInv'
<1>. USE DEF LockInv
<1>1. TypeOK'
  BY RequestTypes DEF TypeOK, Start, At, Goto, Steps, tables, locks
<1>2. StepsFit'
  BY DEF TypeOK, StepsFit, Start, At, Goto, Op, Holding, Registrations
<1>3. LocksFit' /\ Exclusion'
  BY DEF TypeOK, LocksFit, Exclusion, Start, At, Goto, Op, Reads, Writes, Holding, locks
<1>. QED BY <1>1, <1>2, <1>3

\* Drawing an id preserves the invariant of the locks.
LEMMA DrawLock ==
    ASSUME LockInv, NEW h \in Handlers, Draw(h)
    PROVE  LockInv'
<1>. USE DEF LockInv, Draw, At, Goto
<1>1. TypeOK'
  BY MutexTypes DEF TypeOK, Steps, locks
<1>2. StepsFit'
  BY MutexTypes DEF TypeOK, StepsFit, Op, Holding, Registrations
<1>3. LocksFit' /\ Exclusion'
  BY StepWithLocks DEF Holding, Steps, locks
<1>. QED BY <1>1, <1>2, <1>3

\* The lock is taken: by a reader when there is no writer, by a writer when
\* there is nobody.
LEMMA LockLock ==
    ASSUME LockInv, NEW h \in Handlers, Lock(h)
    PROVE  LockInv'
<1>. USE DEF LockInv
<1>. DEFINE m == MutexOf(Op(h))
<1>1. m \in Mutexes /\ writer[m] = None /\ h # None
  BY MutexTypes, ManagersAssumption DEF Lock, rdlock, wrlock, MayRead, MayWrite
<1>2. readers[m][h] = 0
  BY <1>1 DEF LocksFit, Reads, Lock, At, Holding
<1>3. pc' = [pc EXCEPT ![h] = "body"] /\ pc[h] = "lock" /\ UNCHANGED <<tables, req, id, resp, nh>>
  BY DEF Lock, At, Goto
<1>4. StepsFit'
  BY <1>3 DEF TypeOK, StepsFit, Op, Holding
<1>5. CASE Op(h) \in Readers
  <2>1. readers' = [readers EXCEPT ![m][h] = 1] /\ UNCHANGED writer
    BY <1>1, <1>2, <1>5 DEF Lock, rdlock, MayRead, TypeOK
  <2>2. TypeOK'
    BY <1>1, <1>3, <2>1 DEF TypeOK, Steps, tables
  <2>3. LocksFit'
    BY <1>1, <1>3, <1>5, <2>1 DEF TypeOK, LocksFit, Op, Reads, Writes, Holding
  <2>4. Exclusion'
    BY <1>1, <2>1 DEF TypeOK, Exclusion
  <2>. QED BY <1>4, <2>2, <2>3, <2>4
<1>6. CASE Op(h) \notin Readers
  <2>1. /\ \A g \in Handlers : readers[m][g] = 0
        /\ writer' = [writer EXCEPT ![m] = h] /\ UNCHANGED readers
    BY <1>6 DEF Lock, wrlock, MayRead, MayWrite
  <2>2. TypeOK'
    BY <1>1, <1>3, <2>1 DEF TypeOK, Steps, tables
  <2>3. LocksFit'
    BY <1>1, <1>3, <1>6, <2>1, ManagersAssumption
    DEF TypeOK, LocksFit, Op, Reads, Writes, Holding
  <2>4. Exclusion'
    BY <1>1, <2>1 DEF TypeOK, Exclusion
  <2>. QED BY <1>4, <2>2, <2>3, <2>4
<1>. QED BY <1>5, <1>6

\* The nested lock: a second time, by a reader.
LEMMA NestedLockLock ==
    ASSUME LockInv, NEW h \in Handlers, NestedLock(h)
    PROVE  LockInv'
<1>. USE DEF LockInv
<1>. DEFINE m == "m_jobs_mutex"
<1>1. pc[h] = "nested" /\ pc' = [pc EXCEPT ![h] = "find"] /\ UNCHANGED <<tables, req, id, resp, nh>>
  BY DEF NestedLock, At, Goto
<1>2. Op(h) = "query" /\ m \in Mutexes /\ Reads(h, m)
  BY <1>1 DEF StepsFit, Reads, Holding, MutexOf, JobOps, Readers, Mutexes
<1>3. readers[m][h] = 1 /\ writer[m] = None
  BY <1>1, <1>2 DEF LocksFit, NestedLock, rdlock, MayRead
<1>4. readers' = [readers EXCEPT ![m][h] = 2] /\ UNCHANGED writer
  BY <1>2, <1>3 DEF NestedLock, rdlock, MayRead, TypeOK
<1>5. TypeOK'
  BY <1>1, <1>2, <1>4 DEF TypeOK, Steps, tables
<1>6. StepsFit'
  BY <1>1, <1>2 DEF TypeOK, StepsFit, Op, Holding
<1>7. LocksFit'
  BY <1>1, <1>2, <1>4 DEF TypeOK, LocksFit, Op, Reads, Writes, Holding
<1>8. Exclusion'
  BY <1>3, <1>4 DEF TypeOK, Exclusion
<1>. QED BY <1>5, <1>6, <1>7, <1>8

\* Giving the nested lock back preserves the invariant of the locks,
LEMMA NestedUnlockLock ==
    ASSUME LockInv, NEW h \in Handlers, NestedUnlock(h)
    PROVE  LockInv'
<1>. USE DEF LockInv
<1>. DEFINE m == "m_jobs_mutex"
<1>1. pc[h] = "release" /\ pc' = [pc EXCEPT ![h] = "unlock"] /\ UNCHANGED <<tables, req, id, resp, nh>>
  BY DEF NestedUnlock, At, Goto
<1>2. Op(h) = "query" /\ m \in Mutexes /\ Reads(h, m)
  BY <1>1 DEF StepsFit, Reads, Holding, MutexOf, JobOps, Readers, Mutexes
<1>3. readers[m][h] = 2 /\ writer[m] # h
  BY <1>1, <1>2, ManagersAssumption DEF LocksFit, Exclusion, Reads, Writes
<1>4. readers' = [readers EXCEPT ![m][h] = 1] /\ UNCHANGED writer
  BY <1>2, <1>3 DEF NestedUnlock, unlock, TypeOK
<1>5. TypeOK'
  BY <1>1, <1>2, <1>4 DEF TypeOK, Steps, tables
<1>6. StepsFit'
  BY <1>1, <1>2 DEF TypeOK, StepsFit, Op, Holding
<1>7. LocksFit'
  BY <1>1, <1>2, <1>4 DEF TypeOK, LocksFit, Op, Reads, Writes, Holding
<1>8. Exclusion'
  BY <1>2, <1>3, <1>4 DEF TypeOK, Exclusion
<1>. QED BY <1>5, <1>6, <1>7, <1>8

\* and so does giving the lock back.
LEMMA UnlockLock ==
    ASSUME LockInv, NEW h \in Handlers, Unlock(h)
    PROVE  LockInv'
<1>. USE DEF LockInv
<1>. DEFINE m == MutexOf(Op(h))
<1>1. pc[h] = "unlock" /\ pc' = [pc EXCEPT ![h] = "done"] /\ UNCHANGED <<tables, req, id, resp, nh>>
  BY DEF Unlock, At, Goto
<1>2. m \in Mutexes /\ h # None
  BY MutexTypes, ManagersAssumption
<1>3. StepsFit'
  BY <1>1 DEF TypeOK, StepsFit, Op, Holding
<1>4. CASE Op(h) \in Readers
  <2>1. Reads(h, m) /\ ~Writes(h, m)
    BY <1>1, <1>4 DEF Reads, Writes, Holding
  <2>2. readers[m][h] = 1 /\ writer[m] # h
    BY <1>1, <1>2, <2>1 DEF LocksFit
  <2>3. readers' = [readers EXCEPT ![m][h] = 0] /\ UNCHANGED writer
    BY <1>2, <2>2 DEF Unlock, unlock, TypeOK
  <2>4. TypeOK'
    BY <1>1, <1>2, <2>3 DEF TypeOK, Steps, tables
  <2>5. LocksFit'
    BY <1>1, <1>2, <1>4, <2>3 DEF TypeOK, LocksFit, Op, Reads, Writes, Holding
  <2>6. Exclusion'
    BY <1>2, <2>3 DEF TypeOK, Exclusion
  <2>. QED BY <1>3, <2>4, <2>5, <2>6
<1>5. CASE Op(h) \notin Readers
  <2>1. Writes(h, m)
    BY <1>1, <1>5 DEF Writes, Holding
  <2>2. writer[m] = h
    BY <1>2, <2>1 DEF LocksFit
  <2>3. writer' = [writer EXCEPT ![m] = None] /\ UNCHANGED readers
    BY <2>2 DEF Unlock, unlock
  <2>4. TypeOK'
    BY <1>1, <1>2, <2>3 DEF TypeOK, Steps, tables
  <2>5. LocksFit'
    BY <1>1, <1>2, <1>5, <2>2, <2>3, ManagersAssumption
    DEF TypeOK, LocksFit, Op, Reads, Writes, Holding
  <2>6. Exclusion'
    BY <1>2, <2>3 DEF TypeOK, Exclusion
  <2>. QED BY <1>3, <2>4, <2>5, <2>6
<1>. QED BY <1>4, <1>5

----------------------------------------------------------------------------
(* The steps with the mutex held, one lemma for each. *)

\* A step that keeps its locks and goes on with a well-typed state leaves
\* LockInv, if what it turns to fits its operation.
LEMMA StepLock ==
    ASSUME LockInv, NEW h \in Handlers, NEW s \in Steps, TypeOK',
           pc' = [pc EXCEPT ![h] = s], UNCHANGED <<locks, req>>,
           pc[h] \in Holding, s \in Holding,
           pc[h] \in {"find", "release"} <=> s \in {"find", "release"},
           s \in {"nested", "find", "release"} => Op(h) = "query",
           s = "index" => Op(h) \in {"register_job", "remove_job"},
           \A g \in Handlers : g # h => id'[g] = id[g],
           Op(h) \in Registrations => id'[h] = id[h]
    PROVE  LockInv'
<1>1. LocksFit' /\ Exclusion'
  BY StepWithLocks
<1>2. StepsFit'
  BY DEF LockInv, TypeOK, StepsFit, Op, Holding
<1>. QED BY <1>1, <1>2 DEF LockInv

\* What the steps do to the tables and to the answers keeps their types.
LEMMA EmplaceType ==
    ASSUME NEW K, NEW V, NEW f, f \in [DOMAIN f -> V], DOMAIN f \subseteq K,
           NEW k \in K, NEW v \in V
    PROVE  /\ DOMAIN Emplace(f, k, v) = DOMAIN f \cup {k}
           /\ DOMAIN Emplace(f, k, v) \subseteq K
           /\ Emplace(f, k, v) \in [DOMAIN Emplace(f, k, v) -> V]
           /\ \A i \in DOMAIN f : Emplace(f, k, v)[i] = f[i]
           /\ k \notin DOMAIN f => Emplace(f, k, v)[k] = v
  BY DEF Emplace

\* What an operation answers has its type.
LEMMA ResultType ==
    ASSUME TypeOK, NEW h \in Handlers, NEW i \in Nat \cup {None},
           NEW ec \in {"success", "no_such_entity", "entity_exists"},
           Result(h, ec, i)
    PROVE  resp' \in [Handlers -> Responses \cup {None}]
<1>1. [ec |-> ec, id |-> i] \in Responses
  BY DEF Responses
<1>. QED BY <1>1 DEF TypeOK, Result

\* A job is created under an id no job has.
LEMMA CreateJobLock ==
    ASSUME LockInv, NEW h \in Handlers, CreateJob(h)
    PROVE  LockInv'
<1>. USE DEF LockInv, CreateJob, At, Goto
<1>1. /\ req[h] \in Requests /\ req[h].op = "register_job" /\ id[h] \in Nat
      /\ req[h].slurm_id \in SlurmIds /\ req[h].value \in Values
  BY RequestTypes DEF StepsFit, Op, Holding, Registrations
<1>2. resp' \in [Handlers -> Responses \cup {None}]
  <2>1. CASE id[h] \in DOMAIN m_jobs
    BY <2>1, ResultType
  <2>2. CASE id[h] \notin DOMAIN m_jobs
    BY <1>1, <2>2, ResultType
  <2>. QED BY <2>1, <2>2
<1>3. DOMAIN m_jobs' \subseteq Nat /\ m_jobs' \in [DOMAIN m_jobs' -> Job]
  <2>1. CASE id[h] \in DOMAIN m_jobs
    BY <2>1 DEF TypeOK
  <2>2. CASE id[h] \notin DOMAIN m_jobs
    <3>1. [slurm_id |-> req[h].slurm_id, value |-> req[h].value] \in Job
      BY <1>1 DEF Job
    <3>2. DOMAIN m_jobs \subseteq Nat /\ m_jobs \in [DOMAIN m_jobs -> Job]
      BY DEF TypeOK
    <3>. DEFINE j == [slurm_id |-> req[h].slurm_id, value |-> req[h].value]
    <3>3. m_jobs' = Emplace(m_jobs, id[h], j)
      BY <2>2
    <3>4. id[h] \in Nat
      BY <1>1
    <3>. HIDE DEF j
    <3>5. j \in Job
      BY <3>1 DEF j
    <3>. HIDE DEF CreateJob, LockInv
    <3>. QED BY <3>2, <3>3, <3>4, <3>5, EmplaceType
  <2>. QED BY <2>1, <2>2
<1>4. pc' \in [Handlers -> Steps]
  <2>1. pc \in [Handlers -> Steps] /\ {"unlock", "index"} \subseteq Steps
    BY DEF TypeOK, Steps
  <2>2. pc' = [pc EXCEPT ![h] = "unlock"] \/ pc' = [pc EXCEPT ![h] = "index"]
    OBVIOUS
  <2>. QED BY <2>1, <2>2
<1>5. TypeOK'
  BY <1>2, <1>3, <1>4 DEF TypeOK, locks
<1>. QED
  BY <1>1, <1>5, StepLock DEF Holding, Steps, Op

\* The second half of create() preserves the invariant of the locks,
LEMMA IndexJobLock ==
    ASSUME LockInv, NEW h \in Handlers, IndexJob(h)
    PROVE  LockInv'
<1>. USE DEF LockInv, IndexJob, At, Goto
<1>1. req[h].slurm_id \in SlurmIds /\ id[h] \in Nat
  BY RequestTypes DEF StepsFit, Op, Holding, Registrations
<1>2. TypeOK'
  BY <1>1 DEF TypeOK, Emplace, Steps, locks
<1>. QED BY <1>2, StepLock DEF Holding, Steps

\* and so do the first half of remove(),
LEMMA RemoveJobLock ==
    ASSUME LockInv, NEW h \in Handlers, RemoveJob(h)
    PROVE  LockInv'
<1>. USE DEF LockInv, RemoveJob, At, Goto
<1>1. /\ m_jobs \in [DOMAIN m_jobs -> Job] /\ DOMAIN m_jobs \subseteq Nat
      /\ nh \in [Handlers -> SlurmIds \cup {None}] /\ pc \in [Handlers -> Steps]
  BY DEF TypeOK
<1>2. resp' \in [Handlers -> Responses \cup {None}]
  BY ResultType
<1>3. /\ DOMAIN m_jobs' \subseteq Nat /\ m_jobs' \in [DOMAIN m_jobs' -> Job]
      /\ nh' \in [Handlers -> SlurmIds \cup {None}]
  BY <1>1 DEF Erase, Job
<1>4. pc' \in [Handlers -> Steps]
  BY <1>1 DEF Steps
<1>5. TypeOK'
  BY <1>2, <1>3, <1>4 DEF TypeOK, locks
<1>. QED BY <1>5, StepLock DEF Holding, Steps

\* its second half,
LEMMA UnindexJobLock ==
    ASSUME LockInv, NEW h \in Handlers, UnindexJob(h)
    PROVE  LockInv'
<1>. USE DEF LockInv, UnindexJob, At, Goto
<1>1. TypeOK'
  BY DEF TypeOK, Erase, Steps, locks
<1>. QED BY <1>1, StepLock DEF Holding, Steps

\* update(),
LEMMA UpdateJobLock ==
    ASSUME LockInv, NEW h \in Handlers, UpdateJob(h)
    PROVE  LockInv'
<1>. USE DEF LockInv, UpdateJob, At, Goto
<1>1. req[h].value \in Values
  BY RequestTypes DEF StepsFit, Op, Holding
<1>2. resp' \in [Handlers -> Responses \cup {None}]
  BY ResultType
<1>3. DOMAIN m_jobs' = DOMAIN m_jobs /\ m_jobs' \in [DOMAIN m_jobs' -> Job]
  <2>1. m_jobs \in [DOMAIN m_jobs -> Job]
    BY DEF TypeOK
  <2>2. \A j \in Job : [j EXCEPT !.value = req[h].value] \in Job
    BY <1>1 DEF Job
  <2>. QED BY <2>1, <2>2
<1>4. pc' \in [Handlers -> Steps]
  BY DEF TypeOK, Steps
<1>5. TypeOK'
  BY <1>2, <1>3, <1>4 DEF TypeOK, locks
<1>. QED BY <1>5, StepLock DEF Holding, Steps

\* find(),
LEMMA FindJobLock ==
    ASSUME LockInv, NEW h \in Handlers, FindJob(h)
    PROVE  LockInv'
<1>. USE DEF LockInv, FindJob, At, Goto
<1>1. TypeOK'
  BY DEF TypeOK, Find, Result, Responses, Steps, tables, locks
<1>. QED BY <1>1, StepLock DEF Holding, Steps

\* the reading of the index by find_by_slurm_id(),
LEMMA LookupSlurmLock ==
    ASSUME LockInv, NEW h \in Handlers, LookupSlurm(h)
    PROVE  LockInv'
<1>. USE DEF LockInv, LookupSlurm, At, Goto
<1>0. /\ resp' \in [Handlers -> Responses \cup {None}]
      /\ id' \in [Handlers -> Nat \cup {None}]
      /\ pc' \in [Handlers -> Steps]
  <2>1. CASE req[h].slurm_id \in DOMAIN m_slurm_to_scord
    <3>1. m_slurm_to_scord[req[h].slurm_id] \in Nat
      BY <2>1 DEF TypeOK
    <3>. QED BY <2>1, <3>1 DEF TypeOK, Steps
  <2>2. CASE req[h].slurm_id \notin DOMAIN m_slurm_to_scord
    BY <2>2, ResultType DEF TypeOK, Steps
  <2>. QED BY <2>1, <2>2
<1>1. TypeOK'
  BY <1>0 DEF TypeOK, tables, locks
<1>2. \A g \in Handlers : g # h => id'[g] = id[g]
  BY DEF TypeOK
<1>3. CASE req[h].slurm_id \in DOMAIN m_slurm_to_scord
  BY <1>1, <1>2, <1>3, StepLock DEF Holding, Steps, Registrations
<1>4. CASE req[h].slurm_id \notin DOMAIN m_slurm_to_scord
  BY <1>1, <1>4, StepLock DEF Holding, Steps
<1>. QED BY <1>3, <1>4

\* and its nested find().
LEMMA NestedFindLock ==
    ASSUME LockInv, NEW h \in Handlers, NestedFind(h)
    PROVE  LockInv'
<1>. USE DEF LockInv, NestedFind, At, Goto
<1>1. TypeOK'
  BY DEF TypeOK, Find, Result, Responses, Steps, tables, locks
<1>2. Op(h) = "query"
  BY DEF StepsFit
<1>. QED BY <1>1, <1>2, StepLock DEF Holding, Steps

\* The three steps of the PFS storage manager.
LEMMA PfsLock ==
    ASSUME LockInv, NEW h \in Handlers, CreatePfs(h) \/ UpdatePfs(h) \/ RemovePfs(h)
    PROVE  LockInv'
<1>. USE DEF LockInv, At, Goto
<1>1. Op(h) \in {"register_pfs", "update_pfs"} =>
         /\ req[h].value \in Values
         /\ Op(h) = "register_pfs" => id[h] \in Nat
  BY RequestTypes DEF CreatePfs, UpdatePfs, RemovePfs, StepsFit, Op, Holding, Registrations
<1>2. CASE CreatePfs(h)
  <2>a. /\ id[h] \in Nat /\ req[h].value \in Values
        /\ m_pfs_storages \in [DOMAIN m_pfs_storages -> Values]
        /\ DOMAIN m_pfs_storages \subseteq Nat
    BY <1>1, <1>2 DEF CreatePfs, TypeOK
  <2>b. resp' \in [Handlers -> Responses \cup {None}]
    BY <1>2, <2>a, ResultType DEF CreatePfs
  <2>c. /\ DOMAIN m_pfs_storages' \subseteq Nat
        /\ m_pfs_storages' \in [DOMAIN m_pfs_storages' -> Values]
    <3>1. \/ UNCHANGED m_pfs_storages
          \/ m_pfs_storages' = Emplace(m_pfs_storages, id[h], req[h].value)
      BY <1>2 DEF CreatePfs
    <3>2. CASE UNCHANGED m_pfs_storages
      BY <2>a, <3>2
    <3>3. CASE m_pfs_storages' = Emplace(m_pfs_storages, id[h], req[h].value)
      <4>. HIDE DEF LockInv
      <4>. DEFINE v == req[h].value
      <4>. HIDE DEF v
      <4>1. v \in Values /\ m_pfs_storages' = Emplace(m_pfs_storages, id[h], v)
        BY <2>a, <3>3 DEF v
      <4>2. DOMAIN m_pfs_storages' = DOMAIN m_pfs_storages \cup {id[h]}
        BY <4>1 DEF Emplace
      <4>3. /\ m_pfs_storages' = [i \in DOMAIN m_pfs_storages' |-> m_pfs_storages'[i]]
            /\ \A i \in DOMAIN m_pfs_storages' : m_pfs_storages'[i] \in Values
        BY <2>a, <4>1 DEF Emplace
      <4>. QED BY <2>a, <4>2, <4>3
    <3>. QED BY <3>1, <3>2, <3>3
  <2>1. TypeOK'
    BY <1>2, <2>b, <2>c DEF CreatePfs, TypeOK, Steps, locks
  <2>. QED BY <1>2, <2>1, StepLock DEF CreatePfs, Holding, Steps
<1>3. CASE UpdatePfs(h)
  <2>1. TypeOK'
    BY <1>1, <1>3 DEF UpdatePfs, TypeOK, Result, Responses, Steps, locks
  <2>. QED BY <1>3, <2>1, StepLock DEF UpdatePfs, Holding, Steps
<1>4. CASE RemovePfs(h)
  <2>1. TypeOK'
    BY <1>4 DEF RemovePfs, TypeOK, Result, Responses, Erase, Steps, locks
  <2>. QED BY <1>4, <2>1, StepLock DEF RemovePfs, Holding, Steps
<1>. QED BY <1>2, <1>3, <1>4

----------------------------------------------------------------------------
(* The tables and the index. *)

IndexInv == HalfCreated /\ IndexSound /\ NestedFindSucceeds

\* Who is halfway through create() or remove() has the mutex of the jobs as
\* its writer, who is inside find_by_slurm_id() as a reader.
LEMMA WhoHasTheJobs ==
    ASSUME LockInv, NEW g \in Handlers
    PROVE  /\ "m_jobs_mutex" \in Mutexes
           /\ pc[g] = "index" => Writes(g, "m_jobs_mutex")
           /\ pc[g] \in {"nested", "find"} => Reads(g, "m_jobs_mutex")
  BY DEF LockInv, StepsFit, Reads, Writes, Holding, MutexOf, JobOps, Readers, Mutexes

\* A step that changes no table, and takes nobody to "index" or "nested".
LEMMA StepAside ==
    ASSUME IndexInv, UNCHANGED <<m_jobs, m_slurm_to_scord, nh>>,
           \A g \in Handlers : pc'[g] = "index" <=> pc[g] = "index",
           \A g \in Handlers :
               pc[g] = "index" => id'[g] = id[g] /\ req'[g] = req[g],
           \A g \in Handlers :
               pc'[g] \in {"nested", "find"} =>
                   pc[g] \in {"nested", "find"} /\ id'[g] = id[g]
    PROVE  IndexInv'
<1>1. HalfCreated'
  BY DEF IndexInv, HalfCreated, Op
<1>2. IndexSound'
  BY DEF IndexInv, IndexSound, EntrySound, Op
<1>3. NestedFindSucceeds'
  BY DEF IndexInv, NestedFindSucceeds
<1>. QED BY <1>1, <1>2, <1>3 DEF IndexInv

\* The first half of create() preserves the invariant of the index: its job
\* is the one about to get an entry.
LEMMA CreateJobIndex ==
    ASSUME LockInv, IndexInv, NEW h \in Handlers, CreateJob(h)
    PROVE  IndexInv'
<1>1. /\ pc[h] = "body" /\ Op(h) = "register_job"
      /\ UNCHANGED <<m_slurm_to_scord, req, id, nh>>
      /\ pc \in [Handlers -> Steps]
  BY DEF CreateJob, At, LockInv, TypeOK
<1>2. CASE id[h] \in DOMAIN m_jobs
  <2>1. UNCHANGED m_jobs /\ pc' = [pc EXCEPT ![h] = "unlock"]
    BY <1>2 DEF CreateJob, Goto
  <2>. QED BY <1>1, <2>1, StepAside
<1>3. CASE id[h] \notin DOMAIN m_jobs
  <2>. DEFINE j == [slurm_id |-> req[h].slurm_id, value |-> req[h].value]
  <2>1. m_jobs' = Emplace(m_jobs, id[h], j) /\ pc' = [pc EXCEPT ![h] = "index"]
    BY <1>3 DEF CreateJob, Goto
  <2>2. /\ DOMAIN m_jobs' = DOMAIN m_jobs \cup {id[h]}
        /\ \A i \in DOMAIN m_jobs : m_jobs'[i] = m_jobs[i]
        /\ m_jobs'[id[h]].slurm_id = req[h].slurm_id
    BY <1>3, <2>1 DEF Emplace
  <2>3. HalfCreated'
    BY <1>1, <2>1, <2>2 DEF IndexInv, HalfCreated, Op
  <2>4. IndexSound'
    BY <1>1, <2>1, <2>2 DEF IndexInv, IndexSound, EntrySound, Op
  <2>5. NestedFindSucceeds'
    BY <1>1, <2>1, <2>2 DEF IndexInv, NestedFindSucceeds
  <2>. QED BY <2>3, <2>4, <2>5 DEF IndexInv
<1>. QED BY <1>2, <1>3

\* Its second half preserves it: the entry is that of a registered job.
LEMMA IndexJobIndex ==
    ASSUME LockInv, IndexInv, NEW h \in Handlers, IndexJob(h)
    PROVE  IndexInv'
<1>1. /\ pc[h] = "index" /\ Op(h) = "register_job"
      /\ UNCHANGED <<m_jobs, req, id, nh>>
      /\ pc' = [pc EXCEPT ![h] = "unlock"] /\ pc \in [Handlers -> Steps]
      /\ m_slurm_to_scord' = Emplace(m_slurm_to_scord, req[h].slurm_id, id[h])
  BY DEF IndexJob, At, Goto, LockInv, TypeOK
<1>2. HalfCreated'
  BY <1>1 DEF IndexInv, HalfCreated, Op
<1>3. ASSUME NEW s \in DOMAIN m_slurm_to_scord'
      PROVE  EntrySound(s)'
  <2>1. CASE s \in DOMAIN m_slurm_to_scord
    BY <1>1, <2>1 DEF IndexInv, IndexSound, EntrySound, Emplace, Op
  <2>2. CASE s \notin DOMAIN m_slurm_to_scord
    <3>1. s = req[h].slurm_id /\ m_slurm_to_scord'[s] = id[h]
      BY <1>1, <2>2 DEF Emplace
    <3>. QED BY <1>1, <3>1 DEF IndexInv, HalfCreated, EntrySound
  <2>. QED BY <2>1, <2>2
<1>4. NestedFindSucceeds'
  BY <1>1 DEF IndexInv, NestedFindSucceeds
<1>. QED BY <1>2, <1>3, <1>4 DEF IndexInv, IndexSound

\* The job goes, and its entry of the index is now the one h will erase; no
\* reader is there to follow it.
LEMMA RemoveJobIndex ==
    ASSUME LockInv, IndexInv, NEW h \in Handlers, RemoveJob(h)
    PROVE  IndexInv'
<1>1. /\ pc[h] = "body" /\ Op(h) = "remove_job"
      /\ UNCHANGED <<m_slurm_to_scord, req, id>>
      /\ pc \in [Handlers -> Steps] /\ nh \in [Handlers -> SlurmIds \cup {None}]
  BY DEF RemoveJob, At, LockInv, TypeOK
<1>2. CASE id[h] \notin DOMAIN m_jobs
  <2>1. UNCHANGED <<m_jobs, nh>> /\ pc' = [pc EXCEPT ![h] = "unlock"]
    BY <1>2 DEF RemoveJob, Goto
  <2>. QED BY <1>1, <2>1, StepAside
<1>3. CASE id[h] \in DOMAIN m_jobs
  <2>1. /\ m_jobs' = Erase(m_jobs, id[h])
        /\ nh' = [nh EXCEPT ![h] = m_jobs[id[h]].slurm_id]
        /\ pc' = [pc EXCEPT ![h] = "index"]
    BY <1>3 DEF RemoveJob, Goto
  <2>2. /\ DOMAIN m_jobs' = DOMAIN m_jobs \ {id[h]}
        /\ \A i \in DOMAIN m_jobs' : m_jobs'[i] = m_jobs[i]
    BY <2>1 DEF Erase
  <2>3. Writes(h, "m_jobs_mutex")
    BY <1>1 DEF Writes, Holding, MutexOf, JobOps, Readers
  <2>4. \A g \in Handlers : g # h => pc[g] \notin {"index", "nested", "find"}
    BY <2>3, WriterIsAlone, WhoHasTheJobs
  <2>5. \A g \in Handlers : g # h => pc'[g] \notin {"index", "nested", "find"}
    BY <1>1, <2>1, <2>4
  <2>6. HalfCreated'
    BY <1>1, <2>5 DEF HalfCreated, Op
  <2>7. ASSUME NEW s \in DOMAIN m_slurm_to_scord
        PROVE  EntrySound(s)'
    <3>1. m_slurm_to_scord[s] \in DOMAIN m_jobs /\ m_jobs[m_slurm_to_scord[s]].slurm_id = s
      BY <1>1, <2>4 DEF IndexInv, IndexSound, EntrySound
    <3>2. CASE m_slurm_to_scord[s] = id[h]
      <4>1. pc'[h] = "index" /\ Op(h)' = "remove_job" /\ nh'[h] = s
        BY <1>1, <2>1, <3>1, <3>2 DEF Op
      <4>. QED BY <4>1 DEF EntrySound, Op
    <3>3. CASE m_slurm_to_scord[s] # id[h]
      BY <1>1, <2>2, <3>1, <3>3 DEF EntrySound
    <3>. QED BY <3>2, <3>3
  <2>8. NestedFindSucceeds'
    BY <1>1, <2>1, <2>5 DEF NestedFindSucceeds
  <2>. QED BY <1>1, <2>6, <2>7, <2>8 DEF IndexInv, IndexSound
<1>. QED BY <1>2, <1>3

\* The second half of remove() preserves it: the dangling entry is gone,
LEMMA UnindexJobIndex ==
    ASSUME LockInv, IndexInv, NEW h \in Handlers, UnindexJob(h)
    PROVE  IndexInv'
<1>1. /\ pc[h] = "index" /\ UNCHANGED <<m_jobs, req, id, nh>>
      /\ pc' = [pc EXCEPT ![h] = "unlock"] /\ pc \in [Handlers -> Steps]
      /\ m_slurm_to_scord' = Erase(m_slurm_to_scord, nh[h])
  BY DEF UnindexJob, At, Goto, LockInv, TypeOK
<1>2. HalfCreated'
  BY <1>1 DEF IndexInv, HalfCreated, Op
<1>3. IndexSound'
  BY <1>1 DEF IndexInv, IndexSound, EntrySound, Erase, Op
<1>4. NestedFindSucceeds'
  BY <1>1 DEF IndexInv, NestedFindSucceeds
<1>. QED BY <1>2, <1>3, <1>4 DEF IndexInv

\* and update() preserves it, which keeps the job's Slurm id.
LEMMA UpdateJobIndex ==
    ASSUME LockInv, IndexInv, NEW h \in Handlers, UpdateJob(h)
    PROVE  IndexInv'
<1>1. /\ pc[h] = "body" /\ UNCHANGED <<m_slurm_to_scord, req, id, nh>>
      /\ pc' = [pc EXCEPT ![h] = "unlock"] /\ pc \in [Handlers -> Steps]
      /\ m_jobs \in [DOMAIN m_jobs -> Job]
  BY DEF UpdateJob, At, Goto, LockInv, TypeOK
<1>2. /\ DOMAIN m_jobs' = DOMAIN m_jobs
      /\ \A i \in DOMAIN m_jobs : m_jobs'[i].slurm_id = m_jobs[i].slurm_id
  BY <1>1 DEF UpdateJob, Job
<1>3. HalfCreated'
  BY <1>1, <1>2 DEF IndexInv, HalfCreated, Op
<1>4. IndexSound'
  <2>1. DOMAIN m_slurm_to_scord' = DOMAIN m_slurm_to_scord
    BY <1>1
  <2>2. ASSUME NEW s \in DOMAIN m_slurm_to_scord'
        PROVE  EntrySound(s)'
    BY <1>1, <1>2, <2>1 DEF IndexInv, IndexSound, EntrySound, Op
  <2>. QED BY <2>2 DEF IndexSound
<1>5. NestedFindSucceeds'
  BY <1>1, <1>2 DEF IndexInv, NestedFindSucceeds
<1>. QED BY <1>3, <1>4, <1>5 DEF IndexInv

\* A reader sees a sound entry: nobody is halfway through remove().
LEMMA LookupSlurmIndex ==
    ASSUME LockInv, IndexInv, NEW h \in Handlers, LookupSlurm(h)
    PROVE  IndexInv'
<1>1. /\ pc[h] = "body" /\ Op(h) = "query"
      /\ UNCHANGED <<m_jobs, m_slurm_to_scord, req, nh>>
      /\ pc \in [Handlers -> Steps] /\ id \in [Handlers -> Nat \cup {None}]
  BY DEF LookupSlurm, At, LockInv, TypeOK, tables
<1>. DEFINE s == req[h].slurm_id
<1>2. CASE s \notin DOMAIN m_slurm_to_scord
  <2>1. UNCHANGED id /\ pc' = [pc EXCEPT ![h] = "unlock"]
    BY <1>2 DEF LookupSlurm, Goto
  <2>. QED BY <1>1, <2>1, StepAside
<1>3. CASE s \in DOMAIN m_slurm_to_scord
  <2>1. /\ id' = [id EXCEPT ![h] = m_slurm_to_scord[s]]
        /\ pc' = [pc EXCEPT ![h] = "nested"]
    BY <1>3 DEF LookupSlurm, Goto
  <2>2. Reads(h, "m_jobs_mutex")
    BY <1>1 DEF Reads, Holding, MutexOf, JobOps, Readers
  <2>3. \A g \in Handlers : pc[g] # "index"
    BY <2>2, WriterIsAlone, WhoHasTheJobs
  <2>4. m_slurm_to_scord[s] \in DOMAIN m_jobs
    BY <1>3, <2>3 DEF IndexInv, IndexSound, EntrySound
  <2>5. HalfCreated'
    BY <1>1, <2>1, <2>3 DEF HalfCreated, Op
  <2>6. IndexSound'
    BY <1>1, <2>3 DEF IndexInv, IndexSound, EntrySound
  <2>7. NestedFindSucceeds'
    BY <1>1, <2>1, <2>4 DEF IndexInv, NestedFindSucceeds
  <2>. QED BY <2>5, <2>6, <2>7 DEF IndexInv
<1>. QED BY <1>2, <1>3

\* Every other step is aside of the tables of the jobs.
LEMMA OtherIndex ==
    ASSUME LockInv, IndexInv, NEW h \in Handlers,
           \/ Draw(h) \/ Lock(h) \/ Unlock(h) \/ FindJob(h)
           \/ NestedLock(h) \/ NestedFind(h) \/ NestedUnlock(h)
           \/ CreatePfs(h) \/ UpdatePfs(h) \/ RemovePfs(h)
           \/ \E r \in Requests : Start(h, r)
    PROVE  IndexInv'
<1>1. UNCHANGED <<m_jobs, m_slurm_to_scord, nh>>
  BY DEF Draw, Lock, Unlock, FindJob, NestedLock, NestedFind, NestedUnlock,
         CreatePfs, UpdatePfs, RemovePfs, Start, tables
<1>2. PICK from \in Steps, to \in Steps :
         /\ pc[h] = from /\ pc' = [pc EXCEPT ![h] = to]
         /\ from # "index" /\ to # "index"
         /\ to \in {"nested", "find"} => from \in {"nested", "find"} /\ UNCHANGED id
  BY DEF LockInv, TypeOK, At, Goto, Steps, Draw, Lock, Unlock, FindJob, NestedLock,
         NestedFind, NestedUnlock, CreatePfs, UpdatePfs, RemovePfs, Start
<1>3. \A g \in Handlers \ {h} : id'[g] = id[g] /\ req'[g] = req[g]
  BY DEF LockInv, TypeOK, Draw, Lock, Unlock, FindJob, NestedLock, NestedFind,
         NestedUnlock, CreatePfs, UpdatePfs, RemovePfs, Start
<1>. QED BY <1>1, <1>2, <1>3, StepAside DEF LockInv, TypeOK

----------------------------------------------------------------------------
(* The invariant. *)

\* Every step preserves the invariant of the locks,
LEMMA NextLock ==
    ASSUME LockInv, [Next]_vars
    PROVE  LockInv'
<1>1. CASE UNCHANGED vars
  BY <1>1 DEF LockInv, TypeOK, StepsFit, LocksFit, Exclusion, Reads, Writes, Op,
              vars, tables, locks, locals
<1>2. ASSUME NEW h \in Handlers, NEW r \in Requests, Start(h, r)
      PROVE  LockInv'
  BY <1>2, StartLock
<1>3. ASSUME NEW h \in Handlers, Work(h)
      PROVE  LockInv'
  BY <1>3, DrawLock, LockLock, UnlockLock, CreateJobLock, IndexJobLock, RemoveJobLock,
     UnindexJobLock, UpdateJobLock, FindJobLock, LookupSlurmLock, NestedLockLock,
     NestedFindLock, NestedUnlockLock, PfsLock
  DEF Work
<1>. QED BY <1>1, <1>2, <1>3 DEF Next

\* that of the index,
LEMMA NextIndex ==
    ASSUME LockInv, IndexInv, [Next]_vars
    PROVE  IndexInv'
<1>1. CASE UNCHANGED vars
  BY <1>1, StepAside DEF vars, tables, locals
<1>2. ASSUME NEW h \in Handlers, NEW r \in Requests, Start(h, r)
      PROVE  IndexInv'
  BY <1>2, OtherIndex
<1>3. ASSUME NEW h \in Handlers, Work(h)
      PROVE  IndexInv'
  BY <1>3, OtherIndex, CreateJobIndex, IndexJobIndex, RemoveJobIndex,
     UnindexJobIndex, UpdateJobIndex, LookupSlurmIndex
  DEF Work
<1>. QED BY <1>1, <1>2, <1>3 DEF Next

\* and both.
LEMMA NextIInv == IInv /\ [Next]_vars => IInv'
<1>. SUFFICES ASSUME IInv, [Next]_vars PROVE IInv'
  OBVIOUS
<1>1. LockInv'
  BY NextLock DEF IInv
<1>2. IndexInv'
  BY NextIndex DEF IInv, IndexInv
<1>. QED BY <1>1, <1>2 DEF IInv, IndexInv

\* The locks and the index of the managers are sound in every reachable state,
\* for any number of handlers (job_manager.hpp:48-160).
THEOREM ManagersIInv == Spec => []IInv
  BY InitIInv, NextIInv, PTL DEF Spec

\* The types, whatever the number of handlers and the ids they draw.
THEOREM ManagersTypes == Spec => []TypeOK
<1>1. IInv => TypeOK
  BY DEF IInv, LockInv
<1>. QED BY <1>1, ManagersIInv, PTL

\* Readers and a writer never hold a mutex together: what abt::shared_mutex is
\* for, with the nested lock of find_by_slurm_id() counted.
THEOREM MutualExclusion == Spec => []Exclusion
<1>1. IInv => Exclusion
  BY DEF IInv, LockInv
<1>. QED BY <1>1, ManagersIInv, PTL

\* The job that find_by_slurm_id() reads out of the index is there until its
\* find() returns, whatever the other handlers create and remove.
THEOREM NestedFindSafe == Spec => []NestedFindSucceeds
<1>1. IInv => NestedFindSucceeds
  BY DEF IInv
<1>. QED BY <1>1, ManagersIInv, PTL

\* Whoever has a mutex is past the step that waits for it; when it takes it a
\* second time there is no writer, since it is a reader itself.
LEMMA HoldersGoOn ==
    ASSUME LockInv, NEW m \in Mutexes, NEW g \in Holders(m)
    PROVE  ~Blocked(g)
<1>1. g \in Handlers
  BY DEF Holders
<1>2. Reads(g, m) \/ Writes(g, m)
  <2>1. readers[m][g] > 0 => readers[m][g] # 0
    BY <1>1 DEF LockInv, TypeOK
  <2> QED
    BY <1>1, <2>1 DEF Holders, LockInv, LocksFit
<1>3. pc[g] # "lock"
  BY <1>2 DEF Reads, Writes, Holding
<1>4. pc[g] = "nested" => MayRead("m_jobs_mutex")
  <2> SUFFICES ASSUME pc[g] = "nested" PROVE MayRead("m_jobs_mutex")
    OBVIOUS
  <2>1. Reads(g, "m_jobs_mutex")
    BY <1>1 DEF LockInv, StepsFit, Reads, Holding, MutexOf, JobOps, Readers, Op
  <2>2. readers["m_jobs_mutex"][g] = 1
    BY <1>1, <2>1 DEF LockInv, LocksFit, Mutexes
  <2> QED
    BY <1>1, <2>2 DEF LockInv, Exclusion, MayRead, Mutexes
<1> QED
  BY <1>3, <1>4 DEF Blocked

\* A handler that waits does so for somebody.
LEMMA SomebodyHolds ==
    ASSUME LockInv, NEW h \in Handlers, Blocked(h)
    PROVE  MutexOf(Op(h)) \in Mutexes /\ Holders(MutexOf(Op(h))) # {}
<1> DEFINE m == MutexOf(Op(h))
<1>1. m \in Mutexes
  BY DEF MutexOf, Mutexes
<1>2. writer[m] # None \/ \E g \in Handlers : readers[m][g] # 0
  <2>1. CASE pc[h] = "nested"
    BY <2>1 DEF Blocked, MayRead, LockInv, StepsFit, MutexOf, JobOps
  <2>2. CASE pc[h] # "nested"
    BY <2>2 DEF Blocked, MayRead, MayWrite
  <2> QED
    BY <2>1, <2>2
<1>3. CASE writer[m] # None
  BY <1>1, <1>3 DEF Holders, LockInv, TypeOK
<1>4. CASE \E g \in Handlers : readers[m][g] # 0
  <2>1. PICK g \in Handlers : readers[m][g] # 0
    BY <1>4
  <2>2. readers[m][g] \in 0 .. 2
    BY <1>1 DEF LockInv, TypeOK
  <2>3. readers[m][g] > 0
    BY <2>1, <2>2
  <2> QED
    BY <1>1, <2>3 DEF Holders
<1> QED
  BY <1>1, <1>2, <1>3, <1>4

\* The two together.
LEMMA IInvNoDeadlock ==
    ASSUME IInv
    PROVE  NoDeadlock
BY HoldersGoOn, SomebodyHolds DEF IInv, NoDeadlock

\* A chain of handlers that wait for each other has one link: those that have
\* the mutex go on, also inside find_by_slurm_id() and with a writer waiting.
THEOREM ManagersNeverDeadlock == Spec => []NoDeadlock
BY IInvNoDeadlock, ManagersIInv, PTL
=============================================================================
