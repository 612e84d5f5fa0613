--------------------------- MODULE ScordRegistry ---------------------------
(***************************************************************************)
(* The registry the scord daemon keeps of jobs and adhoc storage           *)
(* instances: scord::job_manager, scord::adhoc_storage_manager, the        *)
(* metadata objects both hold, and the RPC handlers that work on them.     *)
(*                                                                         *)
(* A handler is an Argobots ULT.  Each of its steps below is one critical  *)
(* section of a manager (or one step outside any lock), so that a handler  *)
(* that makes several manager calls takes several steps.  SingleStream     *)
(* says who runs between them.  TRUE is the daemon as it is built: the     *)
(* network engine is created with no RPC execution streams of its own      *)
(* (net/server.cpp:94), so all handlers share one stream and a ULT keeps   *)
(* it until it blocks.  FALSE is the daemon with several streams, which    *)
(* the managers' locks are written for.                                    *)
(***************************************************************************)
EXTENDS Integers, FiniteSets

CONSTANTS
    Handlers,       \* handler ULTs that can be in flight together
    SlurmIds,       \* the SLURM_JOB_IDs clients use
    NodeCounts,     \* sizes of the resources of a job
    MaxJobs,        \* bound: job ids the daemon hands out
    MaxAdhocs,      \* bound: adhoc storage ids the daemon hands out
    SingleStream,   \* TRUE iff all handlers share one execution stream
    HasRedis,       \* TRUE iff the daemon was configured with a Redis server
    None            \* std::nullopt, nullptr, "no entry in the map"

JobIds   == 0 .. (MaxJobs - 1)
AdhocIds == 0 .. (MaxAdhocs - 1)

ASSUME RegistryAssumption ==
    /\ MaxJobs \in Nat
    /\ MaxAdhocs \in Nat
    /\ NodeCounts \subseteq Nat
    /\ SingleStream \in BOOLEAN
    /\ HasRedis \in BOOLEAN
    /\ None \notin Handlers
    /\ None \notin SlurmIds
    /\ None \notin Nat

VARIABLES
    job_current_id,    \* static atomic current_id of job_manager::create
    m_jobs,            \* keys of job_manager::m_jobs
    job_metadata,      \* the job_metadata object with each id, None before
    m_slurm_to_scord,  \* job_manager::m_slurm_to_scord
    adhoc_current_id,  \* static atomic current_id of adhoc_storage_manager
    m_adhoc_storages,  \* keys of adhoc_storage_manager::m_adhoc_storages
    m_client_info,     \* adhoc_storage_metadata::m_client_info, by adhoc id
    pc,                \* next step of each handler, "idle" between requests
    loc,               \* arguments and local variables of each handler
    resp,              \* answer to the last request of each handler
    running,           \* with a single stream, the ULT that keeps it
    alive              \* FALSE once the daemon has crashed

registry == <<job_current_id, m_jobs, job_metadata, m_slurm_to_scord,
              adhoc_current_id, m_adhoc_storages, m_client_info>>
jobVars   == <<job_current_id, m_jobs, job_metadata, m_slurm_to_scord>>
adhocVars == <<adhoc_current_id, m_adhoc_storages, m_client_info>>
vars == <<registry, pc, loc, resp, running, alive>>

----------------------------------------------------------------------------
(* Types.                                                                  *)

JobMetadata == [slurm_id : SlurmIds,
                adhoc_id : AdhocIds \cup {None},
                nodes    : NodeCounts]

Locals == [slurm_id : SlurmIds \cup {None},
           job_id   : JobIds \cup {None},
           adhoc_id : AdhocIds \cup {None},
           nodes    : NodeCounts \cup {None}]

ASSUME NoneIsNoMetadata == None \notin JobMetadata

Args(s, j, a, n) ==
    [slurm_id |-> s, job_id |-> j, adhoc_id |-> a, nodes |-> n]

NoLocals == Args(None, None, None, None)

Rpcs == {"register_job", "update_job", "remove_job", "query",
         "register_adhoc_storage", "remove_adhoc_storage"}

ErrorCodes == {"success", "no_such_entity", "entity_exists"}

Responses == [rpc : Rpcs, ec : ErrorCodes, id : Nat \cup {None}]

RegisterJobSteps == {"rj_find", "rj_id", "rj_emplace", "rj_client"}
RegisterAdhocSteps == {"ra_id", "ra_emplace"}
Steps == RegisterJobSteps \cup RegisterAdhocSteps \cup
         {"idle", "uj_update", "rm_remove", "rm_find", "rm_client",
          "q_find", "q_read", "rma_remove"}

\* Every variable has its type.
TypeOK ==
    /\ job_current_id \in 0 .. MaxJobs
    /\ m_jobs \subseteq JobIds
    /\ job_metadata \in [JobIds -> JobMetadata \cup {None}]
    /\ m_slurm_to_scord \in [SlurmIds -> JobIds \cup {None}]
    /\ adhoc_current_id \in 0 .. MaxAdhocs
    /\ m_adhoc_storages \subseteq AdhocIds
    /\ m_client_info \in [AdhocIds -> JobIds \cup {None}]
    /\ pc \in [Handlers -> Steps]
    /\ loc \in [Handlers -> Locals]
    /\ resp \in [Handlers -> Responses \cup {None}]
    /\ running \in Handlers \cup {None}
    /\ alive \in BOOLEAN

Init ==
    /\ job_current_id = 0
    /\ m_jobs = {}
    /\ job_metadata = [j \in JobIds |-> None]
    /\ m_slurm_to_scord = [s \in SlurmIds |-> None]
    /\ adhoc_current_id = 0
    /\ m_adhoc_storages = {}
    /\ m_client_info = [a \in AdhocIds |-> None]
    /\ pc = [h \in Handlers |-> "idle"]
    /\ loc = [h \in Handlers |-> NoLocals]
    /\ resp = [h \in Handlers |-> None]
    /\ running = None
    /\ alive = TRUE

----------------------------------------------------------------------------
(* Scheduling, requests and responses.                                     *)

\* Handler h is at step s and may take it: with a single stream, no other
\* handler is between two of its own steps.
At(h, s) ==
    /\ alive
    /\ pc[h] = s
    /\ SingleStream => running \in {None, h}

\* h goes on to step s without blocking, so it keeps its stream.
Goto(h, s) ==
    /\ pc' = [pc EXCEPT ![h] = s]
    /\ running' = IF SingleStream THEN h ELSE None
    /\ UNCHANGED <<resp, alive>>

\* req.respond(): the handler answers its client and ends.
Respond(h, rpc, ec, id) ==
    /\ pc' = [pc EXCEPT ![h] = "idle"]
    /\ loc' = [loc EXCEPT ![h] = NoLocals]
    /\ resp' = [resp EXCEPT ![h] = [rpc |-> rpc, ec |-> ec, id |-> id]]
    /\ running' = None
    /\ UNCHANGED alive

\* The daemon crashes under h, which is never answered.
Crash(h) ==
    /\ pc' = [pc EXCEPT ![h] = "idle"]
    /\ loc' = [loc EXCEPT ![h] = NoLocals]
    /\ resp' = [resp EXCEPT ![h] = None]
    /\ running' = None
    /\ alive' = FALSE

\* Assignments to a local variable of h.
SetJob(h, j) ==
    loc' = [loc EXCEPT ![h] = Args(@.slurm_id, j, @.adhoc_id, @.nodes)]
SetAdhoc(h, a) ==
    loc' = [loc EXCEPT ![h] = Args(@.slurm_id, @.job_id, a, @.nodes)]

\* A request arrives and a ULT is created for it, with its arguments.
Receive(h, s, args) ==
    /\ alive
    /\ pc[h] = "idle"
    /\ pc' = [pc EXCEPT ![h] = s]
    /\ loc' = [loc EXCEPT ![h] = args]
    /\ resp' = [resp EXCEPT ![h] = None]
    /\ UNCHANGED <<registry, running, alive>>

\* Registrations received whose id has not been drawn yet: the bounds count
\* them, so that no handler waits for an id.
Pending(steps) == {h \in Handlers : pc[h] \in steps}

ReceiveRegisterJob(h) ==
    \E s \in SlurmIds, a \in AdhocIds \cup {None}, n \in NodeCounts :
        /\ job_current_id + Cardinality(Pending({"rj_find", "rj_id"})) < MaxJobs
        /\ Receive(h, "rj_find", Args(s, None, a, n))

ReceiveUpdateJob(h) ==
    \E j \in JobIds, n \in NodeCounts :
        Receive(h, "uj_update", Args(None, j, None, n))

ReceiveRemoveJob(h) ==
    \E j \in JobIds :
        Receive(h, "rm_remove", Args(None, j, None, None))

ReceiveQuery(h) ==
    \E s \in SlurmIds :
        Receive(h, "q_find", Args(s, None, None, None))

ReceiveRegisterAdhoc(h) ==
    /\ adhoc_current_id + Cardinality(Pending({"ra_id"})) < MaxAdhocs
    /\ Receive(h, "ra_id", NoLocals)

ReceiveRemoveAdhoc(h) ==
    \E a \in AdhocIds :
        Receive(h, "rma_remove", Args(None, None, a, None))

----------------------------------------------------------------------------
(* The maps of the managers and of the metadata objects.                   *)

\* m_slurm_to_scord.emplace(): keeps an entry that is already there.
slurm_emplace(s, id) ==
    [m_slurm_to_scord EXCEPT ![s] = IF @ = None THEN id ELSE @]

\* Mutant of slurm_erase: the entry of a removed job stays.
slurm_erase_forgotten(s) == m_slurm_to_scord

\* m_slurm_to_scord.erase()
slurm_erase(s) == [m_slurm_to_scord EXCEPT ![s] = None]

\* Mutant of add_client_info: the check for a busy instance is dropped.
add_client_info_unchecked(a, j) == [m_client_info EXCEPT ![a] = j]

\* adhoc_storage_metadata::add_client_info(): a busy instance keeps its
\* client.
add_client_info(a, j) ==
    [m_client_info EXCEPT ![a] = IF @ = None THEN j ELSE @]

\* Mutant of remove_client_info: the client is not reset.
remove_client_info_forgotten(a) == m_client_info

\* adhoc_storage_metadata::remove_client_info()
remove_client_info(a) == [m_client_info EXCEPT ![a] = None]

----------------------------------------------------------------------------
(* ADM_register_job.                                                       *)

\* Mutant of RegisterJobFind: the error path does not reach `respond`.
RegisterJobFindStuck(h) ==
    LET a == loc[h].adhoc_id IN
    /\ At(h, "rj_find")
    /\ a # None => a \in m_adhoc_storages
    /\ Goto(h, "rj_id")
    /\ UNCHANGED <<registry, loc>>

\* Mutant of RegisterJobFind: the storage of the job is not looked for.
RegisterJobFindUnchecked(h) ==
    /\ At(h, "rj_find")
    /\ Goto(h, "rj_id")
    /\ UNCHANGED <<registry, loc>>

\* Find the adhoc storage the job requires, if it requires one.
RegisterJobFind(h) ==
    LET a == loc[h].adhoc_id IN
    /\ At(h, "rj_find")
    /\ IF a # None /\ a \notin m_adhoc_storages
       THEN Respond(h, "register_job", "no_such_entity", None)
       ELSE Goto(h, "rj_id") /\ UNCHANGED loc
    /\ UNCHANGED registry

\* Mutant of RegisterJobId: the size of the map is taken for the next id.
RegisterJobIdFromSize(h) ==
    /\ At(h, "rj_id")
    /\ job_current_id < MaxJobs
    /\ job_current_id' = job_current_id + 1
    /\ SetJob(h, Cardinality(m_jobs))
    /\ Goto(h, "rj_emplace")
    /\ UNCHANGED <<m_jobs, job_metadata, m_slurm_to_scord, adhocVars>>

\* job_manager::create() draws the id from an atomic, outside its lock.
RegisterJobId(h) ==
    /\ At(h, "rj_id")
    /\ job_current_id < MaxJobs
    /\ job_current_id' = job_current_id + 1
    /\ SetJob(h, job_current_id)
    /\ Goto(h, "rj_emplace")
    /\ UNCHANGED <<m_jobs, job_metadata, m_slurm_to_scord, adhocVars>>

\* The job's record for Redis is filled in before the answer is sent, from
\* the adhoc storage looked up again by its id.  A job that requires none, or
\* one whose adhoc storage left the map meanwhile, makes the handler use an
\* empty std::optional or the value of a failed lookup: undefined behaviour,
\* which crashes the daemon or goes by unnoticed.
RegisterJobAnswer(h, j, a) ==
    \/ Respond(h, "register_job", "success", j)
    \/ HasRedis /\ a \notin m_adhoc_storages /\ Crash(h)

\* job_manager::create() under m_jobs_mutex.
RegisterJobEmplace(h) ==
    LET j == loc[h].job_id IN
    /\ At(h, "rj_emplace")
    /\ IF j \notin m_jobs
       THEN /\ m_jobs' = m_jobs \cup {j}
            /\ job_metadata' = [job_metadata EXCEPT ![j] =
                   [slurm_id |-> loc[h].slurm_id,
                    adhoc_id |-> loc[h].adhoc_id, nodes |-> loc[h].nodes]]
            /\ m_slurm_to_scord' = slurm_emplace(loc[h].slurm_id, j)
            /\ IF loc[h].adhoc_id = None
               THEN RegisterJobAnswer(h, j, None)
               ELSE Goto(h, "rj_client") /\ UNCHANGED loc
       ELSE /\ Respond(h, "register_job", "entity_exists", None)
            /\ UNCHANGED <<m_jobs, job_metadata, m_slurm_to_scord>>
    /\ UNCHANGED <<job_current_id, adhocVars>>

\* Tell the adhoc storage of its client; the result is not looked at.
RegisterJobClient(h) ==
    /\ At(h, "rj_client")
    /\ m_client_info' = add_client_info(loc[h].adhoc_id, loc[h].job_id)
    /\ RegisterJobAnswer(h, loc[h].job_id, loc[h].adhoc_id)
    /\ UNCHANGED <<jobVars, adhoc_current_id, m_adhoc_storages>>

----------------------------------------------------------------------------
(* ADM_update_job, ADM_remove_job and ADM_query.                           *)

UpdateJob(h) ==
    LET j == loc[h].job_id IN
    /\ At(h, "uj_update")
    /\ \/ /\ j \in m_jobs
          /\ job_metadata' = [job_metadata EXCEPT ![j] =
                 [slurm_id |-> @.slurm_id, adhoc_id |-> @.adhoc_id,
                  nodes |-> loc[h].nodes]]
          /\ Respond(h, "update_job", "success", None)
       \/ /\ j \notin m_jobs
          /\ Respond(h, "update_job", "no_such_entity", None)
          /\ UNCHANGED job_metadata
    /\ UNCHANGED <<job_current_id, m_jobs, m_slurm_to_scord, adhocVars>>

\* job_manager::remove(): the job and the entry of its Slurm id go.
RemoveJobRemove(h) ==
    LET j == loc[h].job_id
        a == job_metadata[j].adhoc_id
    IN
    /\ At(h, "rm_remove")
    /\ \/ /\ j \in m_jobs
          /\ m_jobs' = m_jobs \ {j}
          /\ m_slurm_to_scord' = slurm_erase(job_metadata[j].slurm_id)
          /\ IF a = None
             THEN Respond(h, "remove_job", "success", None)
             ELSE /\ SetAdhoc(h, a)
                  /\ Goto(h, "rm_find")
       \/ /\ j \notin m_jobs
          /\ Respond(h, "remove_job", "no_such_entity", None)
          /\ UNCHANGED <<m_jobs, m_slurm_to_scord>>
    /\ UNCHANGED <<job_current_id, job_metadata, adhocVars>>

\* adhoc_storage_manager::remove_client_info() looks the instance up ...
RemoveJobFind(h) ==
    /\ At(h, "rm_find")
    /\ IF loc[h].adhoc_id \in m_adhoc_storages
       THEN Goto(h, "rm_client") /\ UNCHANGED loc
       ELSE Respond(h, "remove_job", "no_such_entity", None)
    /\ UNCHANGED registry

\* ... and resets its client, whoever that is.
RemoveJobClient(h) ==
    /\ At(h, "rm_client")
    /\ m_client_info' = remove_client_info(loc[h].adhoc_id)
    /\ Respond(h, "remove_job", "success", None)
    /\ UNCHANGED <<jobVars, adhoc_current_id, m_adhoc_storages>>

\* job_manager::find_by_slurm_id(), which calls find() under its own lock.
QueryFind(h) ==
    LET j == m_slurm_to_scord[loc[h].slurm_id] IN
    /\ At(h, "q_find")
    /\ IF j # None /\ j \in m_jobs
       THEN /\ SetJob(h, j)
            /\ Goto(h, "q_read")
       ELSE Respond(h, "query", "no_such_entity", None)
    /\ UNCHANGED registry

\* The job_info of the answer is read through the adhoc storage pointer of
\* the job, which is null for a job that requires none.
QueryRead(h) ==
    LET a == job_metadata[loc[h].job_id].adhoc_id IN
    /\ At(h, "q_read")
    /\ IF a = None
       THEN Crash(h)
       ELSE Respond(h, "query", "success", a)
    /\ UNCHANGED registry

----------------------------------------------------------------------------
(* ADM_register_adhoc_storage and ADM_remove_adhoc_storage.                *)

RegisterAdhocId(h) ==
    /\ At(h, "ra_id")
    /\ adhoc_current_id < MaxAdhocs
    /\ adhoc_current_id' = adhoc_current_id + 1
    /\ SetAdhoc(h, adhoc_current_id)
    /\ Goto(h, "ra_emplace")
    /\ UNCHANGED <<jobVars, m_adhoc_storages, m_client_info>>

RegisterAdhocEmplace(h) ==
    LET a == loc[h].adhoc_id IN
    /\ At(h, "ra_emplace")
    /\ IF a \notin m_adhoc_storages
       THEN /\ m_adhoc_storages' = m_adhoc_storages \cup {a}
            /\ Respond(h, "register_adhoc_storage", "success", a)
       ELSE /\ Respond(h, "register_adhoc_storage", "entity_exists", None)
            /\ UNCHANGED m_adhoc_storages
    /\ UNCHANGED <<jobVars, adhoc_current_id, m_client_info>>

\* The instance leaves the map; jobs that point to it keep it alive.
RemoveAdhoc(h) ==
    LET a == loc[h].adhoc_id IN
    /\ At(h, "rma_remove")
    /\ m_adhoc_storages' = m_adhoc_storages \ {a}
    /\ Respond(h, "remove_adhoc_storage",
               IF a \in m_adhoc_storages THEN "success" ELSE "no_such_entity",
               None)
    /\ UNCHANGED <<jobVars, adhoc_current_id, m_client_info>>

----------------------------------------------------------------------------

Arrive(h) ==
    \/ ReceiveRegisterJob(h)
    \/ ReceiveUpdateJob(h)
    \/ ReceiveRemoveJob(h)
    \/ ReceiveQuery(h)
    \/ ReceiveRegisterAdhoc(h)
    \/ ReceiveRemoveAdhoc(h)

Step(h) ==
    \/ RegisterJobFind(h)
    \/ RegisterJobId(h)
    \/ RegisterJobEmplace(h)
    \/ RegisterJobClient(h)
    \/ UpdateJob(h)
    \/ RemoveJobRemove(h)
    \/ RemoveJobFind(h)
    \/ RemoveJobClient(h)
    \/ QueryFind(h)
    \/ QueryRead(h)
    \/ RegisterAdhocId(h)
    \/ RegisterAdhocEmplace(h)
    \/ RemoveAdhoc(h)

\* A crashed daemon stays down.
Down == ~alive /\ UNCHANGED vars

Next == (\E h \in Handlers : Arrive(h) \/ Step(h)) \/ Down

Spec == Init /\ [][Next]_vars

\* Argobots runs the ULTs of a pool in FIFO order, so a handler that is
\* ready again and again gets its turn; clients need not send anything.
FairSpec == Spec /\ \A h \in Handlers : SF_vars(Step(h))

----------------------------------------------------------------------------
(* Properties of every schedule, with one stream or with several.          *)

\* An entry of m_slurm_to_scord leads to a job that is registered and whose
\* Slurm id is the entry's key: find_by_slurm_id() never returns another
\* job, nor fails inside find() (job_manager.hpp:104-135).
SlurmIndexSound ==
    \A s \in SlurmIds :
        LET j == m_slurm_to_scord[s] IN
        j # None => j \in m_jobs /\ job_metadata[j].slurm_id = s

\* The client recorded in an adhoc storage is a job that was created for
\* this very adhoc storage: the two shared pointers always match
\* (internal_types.hpp:67 and :102).
ClientPointsBack ==
    \A a \in AdhocIds :
        LET j == m_client_info[a] IN
        j # None => job_metadata[j] # None /\ job_metadata[j].adhoc_id = a

\* Ids drawn outside the locks never collide, whatever the interleaving: no
\* registration is answered with entity_exists (job_manager.hpp:48-72,
\* adhoc_storage_manager.hpp:83-106).
NoIdCollision ==
    \A h \in Handlers : resp[h] # None => resp[h].ec # "entity_exists"

\* The Slurm id and the adhoc storage of a job metadata object never change,
\* so a handler that holds the pointer across other handlers' steps keeps
\* talking about the same job (job_manager.hpp:54-59).
JobIdentityStable ==
    [][\A j \in JobIds : job_metadata[j] # None =>
         /\ job_metadata'[j] # None
         /\ job_metadata'[j].slurm_id = job_metadata[j].slurm_id
         /\ job_metadata'[j].adhoc_id = job_metadata[j].adhoc_id]_vars

\* The daemon crashes only over a job that requires no adhoc storage, or
\* over one whose storage was removed between its lookup and the job's
\* record, which takes Redis and several streams: the pointers of query and
\* the second lookup of register_job are safe in every other state
\* (rpc_server.cpp:174 and :247).
CrashIsKnown ==
    ~alive => \E j \in JobIds :
        LET a == job_metadata[j].adhoc_id IN
        /\ job_metadata[j] # None
        /\ \/ a = None
           \/ /\ HasRedis
              /\ ~SingleStream
              /\ a < adhoc_current_id
              /\ a \notin m_adhoc_storages

\* Every request that reaches the daemon is answered, unless the daemon
\* crashes first: no handler of the registry can get stuck.
RequestsAnswered ==
    \A h \in Handlers : pc[h] # "idle" ~> (pc[h] = "idle" \/ ~alive)

----------------------------------------------------------------------------
(* The inductive invariant behind the properties above.                    *)

\* The locals a step reads have been set.
LocalsSet ==
    \A h \in Handlers :
        /\ pc[h] \in RegisterJobSteps \cup {"q_find"}
              => loc[h].slurm_id \in SlurmIds
        /\ pc[h] \in RegisterJobSteps \cup {"uj_update"}
              => loc[h].nodes \in NodeCounts
        /\ pc[h] \in {"rj_emplace", "rj_client", "uj_update", "rm_remove",
                      "q_read"} => loc[h].job_id \in JobIds
        /\ pc[h] \in {"rj_client", "rm_find", "rm_client", "ra_emplace",
                      "rma_remove"} => loc[h].adhoc_id \in AdhocIds

\* Ids in use were drawn from the counters.
IdsDrawn ==
    /\ \A j \in JobIds : job_metadata[j] # None => j < job_current_id
    /\ \A j \in m_jobs : job_metadata[j] # None
    /\ \A a \in m_adhoc_storages : a < adhoc_current_id

\* An id drawn and not yet emplaced belongs to one handler and to nothing
\* else.
DrawnIdsFresh ==
    \A h \in Handlers :
        /\ pc[h] = "rj_emplace" =>
              /\ loc[h].job_id < job_current_id
              /\ job_metadata[loc[h].job_id] = None
              /\ \A g \in Handlers \ {h} :
                    pc[g] = "rj_emplace" => loc[g].job_id # loc[h].job_id
        /\ pc[h] = "ra_emplace" =>
              /\ loc[h].adhoc_id < adhoc_current_id
              /\ loc[h].adhoc_id \notin m_adhoc_storages
              /\ \A g \in Handlers \ {h} :
                    pc[g] = "ra_emplace" => loc[g].adhoc_id # loc[h].adhoc_id

\* A handler about to record its job as a client, or to read through its
\* job, holds the metadata that was created for it.
HeldJobs ==
    \A h \in Handlers :
        /\ pc[h] \in {"rj_client", "q_read"} =>
              job_metadata[loc[h].job_id] # None
        /\ pc[h] = "rj_client" =>
              job_metadata[loc[h].job_id].adhoc_id = loc[h].adhoc_id

\* The inductive invariant: with it, the conjuncts that are properties of
\* the registry (SlurmIndexSound, ClientPointsBack, NoIdCollision) hold of
\* every step of every handler (job_manager.hpp, adhoc_storage_manager.hpp).
RegistryInv ==
    /\ TypeOK
    /\ LocalsSet
    /\ IdsDrawn
    /\ DrawnIdsFresh
    /\ HeldJobs
    /\ SlurmIndexSound
    /\ ClientPointsBack
    /\ NoIdCollision

----------------------------------------------------------------------------
(* Properties of the daemon as built, with a single stream.                *)

\* Between two handlers, the client of a registered adhoc storage is a
\* registered job: remove_job leaves no dangling client behind
\* (rpc_server.cpp:327-336).
ClientIsRegistered ==
    running = None =>
        \A a \in m_adhoc_storages :
            m_client_info[a] # None => m_client_info[a] \in m_jobs

\* With the pending step of the handler that keeps the stream taken at once,
\* the registry is one in which every RPC is a single atomic step.
ClientsSettled ==
    [a \in AdhocIds |->
        IF running = None \/ loc[running].adhoc_id # a THEN m_client_info[a]
        ELSE IF pc[running] = "rj_client"
             THEN add_client_info(a, loc[running].job_id)[a]
        ELSE IF \/ pc[running] = "rm_client"
                \/ pc[running] = "rm_find" /\ a \in m_adhoc_storages
             THEN None
        ELSE m_client_info[a]]

Atomic == INSTANCE AtomicRegistry WITH
    jobs <- [j \in m_jobs |-> job_metadata[j]],
    created <- {j \in JobIds : job_metadata[j] # None},
    slurm_index <- m_slurm_to_scord,
    adhocs <- m_adhoc_storages,
    clients <- ClientsSettled

\* Implementation: handlers that share one stream make every RPC atomic.
ImplementsAtomic == Atomic!Spec

----------------------------------------------------------------------------
(* What the repository says of the program and the code does not do.       *)

\* "Slurm job '{}' was not registered or was already deleted"
\* (job_manager.hpp:115): a job that is registered is found by its Slurm id.
RegisteredJobIsFound ==
    \A j \in m_jobs : m_slurm_to_scord[job_metadata[j].slurm_id] # None
============================================================================
