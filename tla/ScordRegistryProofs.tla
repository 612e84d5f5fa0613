------------------------ MODULE ScordRegistryProofs ------------------------
(***************************************************************************)
(* Proofs about ScordRegistry, for any number of handlers, Slurm ids, jobs *)
(* and adhoc storage instances, and for one stream or several.  The        *)
(* argument is one inductive invariant, RegistryInv; each action has its   *)
(* lemma, with one step per conjunct the action can disturb.  For the      *)
(* daemon as it is built, whose handlers share one execution stream,       *)
(* StreamInv is added to it, and every request is one step of              *)
(* AtomicRegistry.                                                         *)
(***************************************************************************)
EXTENDS ScordRegistry, TLAPS

----------------------------------------------------------------------------
(* Requests and answers leave the registry alone.                          *)

\* The initial state satisfies the invariant.
LEMMA InitInv == Init => RegistryInv
<1> SUFFICES ASSUME Init PROVE RegistryInv
  OBVIOUS
<1>1. TypeOK
  BY RegistryAssumption DEF Init, TypeOK, JobIds, AdhocIds, Locals, NoLocals, Args, Steps
<1>2. LocalsSet
  BY DEF Init, LocalsSet, RegisterJobSteps
<1>3. IdsDrawn /\ DrawnIdsFresh /\ HeldJobs
  BY DEF Init, IdsDrawn, DrawnIdsFresh, HeldJobs
<1>4. SlurmIndexSound /\ ClientPointsBack /\ NoIdCollision
  BY DEF Init, SlurmIndexSound, ClientPointsBack, NoIdCollision
<1> QED
  BY <1>1, <1>2, <1>3, <1>4 DEF RegistryInv

\* A request that arrives preserves the invariant, given well-typed
\* arguments that set what its first step reads.
LEMMA ReceiveInv ==
    ASSUME RegistryInv, NEW h \in Handlers, NEW s \in Steps, NEW args \in Locals,
           Receive(h, s, args),
           s \notin {"rj_emplace", "rj_client", "q_read", "ra_emplace"},
           s \in RegisterJobSteps \cup {"q_find"} => args.slurm_id \in SlurmIds,
           s \in RegisterJobSteps \cup {"uj_update"} => args.nodes \in NodeCounts,
           s \in {"uj_update", "rm_remove"} => args.job_id \in JobIds,
           s \in {"rm_find", "rm_client", "rma_remove"}
              => args.adhoc_id \in AdhocIds
    PROVE  RegistryInv'
<1> USE DEF RegistryInv, Receive, registry
<1>1. TypeOK'
  BY DEF TypeOK
<1>2. LocalsSet'
  BY DEF TypeOK, LocalsSet
<1>3. IdsDrawn'
  BY DEF IdsDrawn
<1>4. DrawnIdsFresh'
  BY DEF TypeOK, DrawnIdsFresh
<1>5. HeldJobs'
  BY DEF TypeOK, HeldJobs
<1>6. SlurmIndexSound' /\ ClientPointsBack'
  BY DEF SlurmIndexSound, ClientPointsBack
<1>7. NoIdCollision'
  BY DEF TypeOK, NoIdCollision
<1> QED
  BY <1>1, <1>2, <1>3, <1>4, <1>5, <1>6, <1>7

\* Every request that can arrive preserves the invariant.
LEMMA ArriveInv ==
    ASSUME RegistryInv, NEW h \in Handlers, Arrive(h)
    PROVE  RegistryInv'
<1> USE DEF NoLocals, Args, Locals, Steps, RegisterJobSteps, RegisterAdhocSteps
<1>1. CASE ReceiveRegisterJob(h)
  BY <1>1, ReceiveInv DEF ReceiveRegisterJob
<1>2. CASE ReceiveUpdateJob(h)
  BY <1>2, ReceiveInv DEF ReceiveUpdateJob
<1>3. CASE ReceiveRemoveJob(h)
  BY <1>3, ReceiveInv DEF ReceiveRemoveJob
<1>4. CASE ReceiveQuery(h)
  BY <1>4, ReceiveInv DEF ReceiveQuery
<1>5. CASE ReceiveRegisterAdhoc(h)
  BY <1>5, ReceiveInv DEF ReceiveRegisterAdhoc
<1>6. CASE ReceiveRemoveAdhoc(h)
  BY <1>6, ReceiveInv DEF ReceiveRemoveAdhoc
<1> QED
  BY <1>1, <1>2, <1>3, <1>4, <1>5, <1>6 DEF Arrive

\* A handler that answers (with anything but entity_exists) keeps the parts
\* of the invariant that are about handlers, when the registry stays.
LEMMA RespondInv ==
    ASSUME RegistryInv, NEW h \in Handlers, NEW rpc \in Rpcs,
           NEW ec \in {"success", "no_such_entity"}, NEW id \in Nat \cup {None},
           Respond(h, rpc, ec, id), UNCHANGED registry
    PROVE  RegistryInv'
<1> USE DEF RegistryInv, Respond, registry
<1>1. TypeOK'
  BY DEF TypeOK, Responses, ErrorCodes, Steps, NoLocals, Args, Locals
<1>2. LocalsSet'
  BY DEF TypeOK, LocalsSet, RegisterJobSteps
<1>3. IdsDrawn'
  BY DEF IdsDrawn
<1>4. DrawnIdsFresh'
  BY DEF TypeOK, DrawnIdsFresh
<1>5. HeldJobs'
  BY DEF TypeOK, HeldJobs
<1>6. SlurmIndexSound' /\ ClientPointsBack'
  BY DEF SlurmIndexSound, ClientPointsBack
<1>7. NoIdCollision'
  BY DEF TypeOK, NoIdCollision
<1> QED
  BY <1>1, <1>2, <1>3, <1>4, <1>5, <1>6, <1>7

\* So does a handler that crashes the daemon.
LEMMA CrashInv ==
    ASSUME RegistryInv, NEW h \in Handlers, Crash(h), UNCHANGED registry
    PROVE  RegistryInv'
<1> USE DEF RegistryInv, Crash, registry
<1>1. TypeOK'
  BY DEF TypeOK, Steps, NoLocals, Args, Locals
<1>2. LocalsSet'
  BY DEF TypeOK, LocalsSet, RegisterJobSteps
<1>3. DrawnIdsFresh' /\ HeldJobs'
  BY DEF TypeOK, DrawnIdsFresh, HeldJobs
<1>4. IdsDrawn' /\ SlurmIndexSound' /\ ClientPointsBack'
  BY DEF IdsDrawn, SlurmIndexSound, ClientPointsBack
<1>5. NoIdCollision'
  BY DEF TypeOK, NoIdCollision
<1> QED
  BY <1>1, <1>2, <1>3, <1>4, <1>5

----------------------------------------------------------------------------
(* ADM_register_job.                                                       *)

\* Finding the adhoc storage of a new job preserves the invariant.
LEMMA RegisterJobFindInv ==
    ASSUME RegistryInv, NEW h \in Handlers, RegisterJobFind(h)
    PROVE  RegistryInv'
<1>1. CASE Respond(h, "register_job", "no_such_entity", None)
  BY <1>1, RespondInv DEF RegisterJobFind, Rpcs
<1>2. CASE Goto(h, "rj_id") /\ UNCHANGED loc
  <2> USE <1>2 DEF RegistryInv, RegisterJobFind, Goto, At, registry
  <2>1. TypeOK'
    BY DEF TypeOK, Steps, RegisterJobSteps
  <2>2. LocalsSet'
    BY DEF TypeOK, LocalsSet, RegisterJobSteps
  <2>3. IdsDrawn' /\ SlurmIndexSound' /\ ClientPointsBack' /\ NoIdCollision'
    BY DEF IdsDrawn, SlurmIndexSound, ClientPointsBack, NoIdCollision
  <2>4. DrawnIdsFresh' /\ HeldJobs'
    BY DEF TypeOK, DrawnIdsFresh, HeldJobs
  <2> QED
    BY <2>1, <2>2, <2>3, <2>4
<1> QED
  BY <1>1, <1>2 DEF RegisterJobFind

\* Drawing a job id preserves the invariant: the id is at the counter,
\* above every id in use.
LEMMA RegisterJobIdInv ==
    ASSUME RegistryInv, NEW h \in Handlers, RegisterJobId(h)
    PROVE  RegistryInv'
<1> USE RegistryAssumption DEF RegistryInv, RegisterJobId, SetJob, Args, Goto, At,
        adhocVars
<1>1. TypeOK'
  BY DEF TypeOK, Steps, RegisterJobSteps, Locals, JobIds
<1>2. LocalsSet'
  BY DEF TypeOK, LocalsSet, RegisterJobSteps, Locals, JobIds
<1>3. IdsDrawn'
  BY DEF TypeOK, IdsDrawn, JobIds
<1>4. DrawnIdsFresh'
  BY DEF TypeOK, DrawnIdsFresh, IdsDrawn, LocalsSet, Locals, JobIds
<1>5. HeldJobs'
  BY DEF TypeOK, HeldJobs
<1>6. SlurmIndexSound' /\ ClientPointsBack' /\ NoIdCollision'
  BY DEF SlurmIndexSound, ClientPointsBack, NoIdCollision
<1> QED
  BY <1>1, <1>2, <1>3, <1>4, <1>5, <1>6

\* Handler h ends, with answer r or none.
Ends(h, r) ==
    /\ pc' = [pc EXCEPT ![h] = "idle"]
    /\ loc' = [loc EXCEPT ![h] = NoLocals]
    /\ resp' = [resp EXCEPT ![h] = r]
    /\ running' = None
    /\ alive' \in BOOLEAN

\* A registration ends with the new id, or with the daemon.
LEMMA RegisterJobEnds ==
    ASSUME RegistryInv, NEW h \in Handlers, NEW j \in JobIds, NEW a,
           RegisterJobAnswer(h, j, a)
    PROVE  \E r \in Responses \cup {None} :
               (r # None => r.ec # "entity_exists") /\ Ends(h, r)
<1> DEFINE ok == [rpc |-> "register_job", ec |-> "success", id |-> j]
<1>1. CASE Respond(h, "register_job", "success", j)
  <2>1. ok \in Responses /\ ok.ec # "entity_exists"
    BY DEF Responses, Rpcs, ErrorCodes, JobIds
  <2>2. Ends(h, ok)
    BY <1>1 DEF Respond, Ends, RegistryInv, TypeOK
  <2> QED
    BY <2>1, <2>2
<1>2. CASE Crash(h)
  <2>1. Ends(h, None)
    BY <1>2 DEF Crash, Ends
  <2> QED
    BY <2>1
<1> QED
  BY <1>1, <1>2 DEF RegisterJobAnswer

\* Emplacing a new job preserves the invariant: its id is fresh.
LEMMA RegisterJobEmplaceInv ==
    ASSUME RegistryInv, NEW h \in Handlers, RegisterJobEmplace(h)
    PROVE  RegistryInv'
<1> DEFINE j == loc[h].job_id
           s == loc[h].slurm_id
           m == [slurm_id |-> s, adhoc_id |-> loc[h].adhoc_id,
                 nodes |-> loc[h].nodes]
<1>1. /\ pc[h] = "rj_emplace"
      /\ j \in JobIds
      /\ s \in SlurmIds
      /\ m \in JobMetadata
      /\ job_metadata[j] = None
      /\ j < job_current_id
      /\ j \notin m_jobs
  BY DEF RegistryInv, RegisterJobEmplace, At, TypeOK, LocalsSet, DrawnIdsFresh,
         IdsDrawn, RegisterJobSteps, JobMetadata, Locals
<1>2. /\ m_jobs' = m_jobs \cup {j}
      /\ job_metadata' = [job_metadata EXCEPT ![j] = m]
      /\ m_slurm_to_scord' = slurm_emplace(s, j)
      /\ UNCHANGED <<job_current_id, adhocVars>>
      /\ \/ RegisterJobAnswer(h, j, None)
         \/ /\ loc[h].adhoc_id # None
            /\ Goto(h, "rj_client")
            /\ UNCHANGED loc
  BY <1>1 DEF RegisterJobEmplace
<1>3. m # None /\ m.slurm_id = s /\ m.adhoc_id = loc[h].adhoc_id
  BY <1>1, NoneIsNoMetadata
<1>0. \/ \E r \in Responses \cup {None} :
             (r # None => r.ec # "entity_exists") /\ Ends(h, r)
      \/ loc[h].adhoc_id # None /\ Goto(h, "rj_client") /\ UNCHANGED loc
  BY <1>1, <1>2, RegisterJobEnds
<1> USE RegistryAssumption, <1>0, <1>1, <1>2, <1>3 DEF RegistryInv, adhocVars
<1> HIDE DEF m
<1>4. TypeOK'
  <2>1. /\ m_jobs' \subseteq JobIds
        /\ job_metadata' \in [JobIds -> JobMetadata \cup {None}]
        /\ m_slurm_to_scord' \in [SlurmIds -> JobIds \cup {None}]
    BY DEF TypeOK, slurm_emplace
  <2>2. /\ pc' \in [Handlers -> Steps]
        /\ loc' \in [Handlers -> Locals]
        /\ running' \in Handlers \cup {None}
        /\ alive' \in BOOLEAN
    <3>1. CASE \E r \in Responses \cup {None} : Ends(h, r)
      BY <3>1 DEF TypeOK, Ends, Steps, NoLocals, Args, Locals
    <3>2. CASE Goto(h, "rj_client") /\ UNCHANGED loc
      BY <3>2 DEF TypeOK, Goto, Steps, RegisterJobSteps
    <3> QED
      BY <3>1, <3>2
  <2>3. resp' \in [Handlers -> Responses \cup {None}]
    BY DEF TypeOK, Ends, Goto
  <2> QED
    BY <2>1, <2>2, <2>3 DEF TypeOK
<1>5. LocalsSet'
  BY DEF TypeOK, LocalsSet, Ends, Goto, RegisterJobSteps, Locals
<1>6. IdsDrawn'
  BY DEF TypeOK, IdsDrawn
<1>7. DrawnIdsFresh'
  BY DEF TypeOK, DrawnIdsFresh, LocalsSet, Ends, Goto, NoLocals, Args
<1>8. HeldJobs'
  BY DEF TypeOK, HeldJobs, LocalsSet, Ends, Goto
<1>9. SlurmIndexSound'
  BY DEF TypeOK, SlurmIndexSound, slurm_emplace
<1>10. ClientPointsBack'
  BY DEF TypeOK, ClientPointsBack
<1>11. NoIdCollision'
  BY DEF TypeOK, NoIdCollision, Ends, Goto
<1> QED
  BY <1>4, <1>5, <1>6, <1>7, <1>8, <1>9, <1>10, <1>11

\* Recording the client of an adhoc storage preserves the invariant: the
\* job was created for it.
LEMMA RegisterJobClientInv ==
    ASSUME RegistryInv, NEW h \in Handlers, RegisterJobClient(h)
    PROVE  RegistryInv'
<1> USE DEF RegistryInv, RegisterJobClient, At, Ends, jobVars
<1>1. /\ loc[h].job_id \in JobIds
      /\ loc[h].adhoc_id \in AdhocIds
      /\ job_metadata[loc[h].job_id] # None
      /\ job_metadata[loc[h].job_id].adhoc_id = loc[h].adhoc_id
  BY DEF LocalsSet, HeldJobs
<1>0. PICK r \in Responses \cup {None} :
          (r # None => r.ec # "entity_exists") /\ Ends(h, r)
  BY <1>1, RegisterJobEnds
<1> USE <1>0
<1>2. TypeOK'
  BY <1>1 DEF TypeOK, add_client_info, Steps, NoLocals, Args, Locals
<1>3. LocalsSet'
  BY DEF TypeOK, LocalsSet, RegisterJobSteps
<1>4. IdsDrawn' /\ SlurmIndexSound'
  BY DEF IdsDrawn, SlurmIndexSound
<1>5. DrawnIdsFresh' /\ HeldJobs'
  BY DEF TypeOK, DrawnIdsFresh, HeldJobs
<1>6. ClientPointsBack'
  BY <1>1 DEF TypeOK, ClientPointsBack, add_client_info
<1>7. NoIdCollision'
  BY DEF TypeOK, NoIdCollision
<1> QED
  BY <1>2, <1>3, <1>4, <1>5, <1>6, <1>7

----------------------------------------------------------------------------
(* ADM_update_job, ADM_remove_job and ADM_query.                           *)

\* Updating a job preserves the invariant: only its resources change.
LEMMA UpdateJobInv ==
    ASSUME RegistryInv, NEW h \in Handlers, UpdateJob(h)
    PROVE  RegistryInv'
<1> DEFINE j == loc[h].job_id
           m == [slurm_id |-> job_metadata[j].slurm_id,
                 adhoc_id |-> job_metadata[j].adhoc_id, nodes |-> loc[h].nodes]
<1>1. CASE j \notin m_jobs
  BY <1>1, RespondInv DEF UpdateJob, Rpcs, registry, adhocVars
<1>2. CASE j \in m_jobs
  <2>1. /\ job_metadata[j] \in JobMetadata
        /\ job_metadata[j] # None
        /\ j \in JobIds
        /\ loc[h].nodes \in NodeCounts
    BY <1>2 DEF RegistryInv, TypeOK, LocalsSet, IdsDrawn, UpdateJob, At
  <2>2. /\ m \in JobMetadata
        /\ m # None
        /\ m.slurm_id = job_metadata[j].slurm_id
        /\ m.adhoc_id = job_metadata[j].adhoc_id
    BY <2>1, NoneIsNoMetadata DEF JobMetadata
  <2>3. /\ job_metadata' = [job_metadata EXCEPT ![j] = m]
        /\ Respond(h, "update_job", "success", None)
        /\ UNCHANGED <<job_current_id, m_jobs, m_slurm_to_scord, adhocVars>>
    BY <1>2 DEF UpdateJob
  <2> USE <1>2, <2>1, <2>2, <2>3 DEF RegistryInv, Respond, adhocVars
  <2> HIDE DEF m
  <2>4. TypeOK'
    BY DEF TypeOK, Responses, Rpcs, ErrorCodes, Steps, NoLocals, Args, Locals
  <2>5. LocalsSet'
    BY DEF TypeOK, LocalsSet, RegisterJobSteps
  <2>6. IdsDrawn'
    BY DEF TypeOK, IdsDrawn
  <2>7. DrawnIdsFresh'
    BY DEF TypeOK, DrawnIdsFresh, IdsDrawn, LocalsSet
  <2>8. HeldJobs'
    BY DEF TypeOK, HeldJobs, LocalsSet
  <2>9. SlurmIndexSound' /\ ClientPointsBack'
    BY DEF TypeOK, SlurmIndexSound, ClientPointsBack
  <2>10. NoIdCollision'
    BY DEF TypeOK, NoIdCollision
  <2> QED
    BY <2>4, <2>5, <2>6, <2>7, <2>8, <2>9, <2>10
<1> QED
  BY <1>1, <1>2

\* Removing a job preserves the invariant: its index entry goes with it.
LEMMA RemoveJobRemoveInv ==
    ASSUME RegistryInv, NEW h \in Handlers, RemoveJobRemove(h)
    PROVE  RegistryInv'
<1> DEFINE j == loc[h].job_id
           a == job_metadata[j].adhoc_id
           s == job_metadata[j].slurm_id
<1>1. CASE j \notin m_jobs
  BY <1>1, RespondInv DEF RemoveJobRemove, Rpcs, registry, adhocVars
<1>2. CASE j \in m_jobs
  <2>1. /\ job_metadata[j] \in JobMetadata
        /\ s \in SlurmIds
        /\ a \in AdhocIds \cup {None}
    BY <1>2 DEF RegistryInv, TypeOK, LocalsSet, IdsDrawn, RemoveJobRemove, At,
                JobMetadata
  <2>2. /\ m_jobs' = m_jobs \ {j}
        /\ m_slurm_to_scord' = slurm_erase(s)
        /\ UNCHANGED <<job_current_id, job_metadata, adhocVars>>
        /\ \/ Respond(h, "remove_job", "success", None)
           \/ /\ a # None
              /\ SetAdhoc(h, a)
              /\ Goto(h, "rm_find")
    BY <1>2 DEF RemoveJobRemove
  <2> USE <1>2, <2>1, <2>2 DEF RegistryInv, adhocVars
  <2> HIDE DEF a, s
  <2>3. TypeOK'
    <3>1. m_jobs' \subseteq JobIds
          /\ m_slurm_to_scord' \in [SlurmIds -> JobIds \cup {None}]
      BY DEF TypeOK, slurm_erase
    <3>2. /\ pc' \in [Handlers -> Steps]
          /\ running' \in Handlers \cup {None}
          /\ alive' \in BOOLEAN
      BY DEF TypeOK, Respond, Goto, Steps
    <3>4. loc' \in [Handlers -> Locals]
      <4>1. NoLocals \in Locals
        BY DEF NoLocals, Args, Locals
      <4>2. Args(loc[h].slurm_id, loc[h].job_id, a, loc[h].nodes) \in Locals
        BY DEF TypeOK, Args, Locals
      <4> QED
        BY <4>1, <4>2 DEF TypeOK, Respond, SetAdhoc
    <3>3. resp' \in [Handlers -> Responses \cup {None}]
      BY DEF TypeOK, Respond, Goto, Responses, Rpcs, ErrorCodes
    <3> QED
      BY <3>1, <3>2, <3>3, <3>4 DEF TypeOK
  <2>4. LocalsSet'
    BY DEF TypeOK, LocalsSet, Respond, SetAdhoc, Goto, Args, RegisterJobSteps,
           Locals
  <2>5. IdsDrawn' /\ ClientPointsBack'
    BY DEF IdsDrawn, ClientPointsBack
  <2>6. DrawnIdsFresh' /\ HeldJobs'
    BY DEF TypeOK, DrawnIdsFresh, HeldJobs, Respond, SetAdhoc, Goto
  <2>7. SlurmIndexSound'
    BY DEF TypeOK, SlurmIndexSound, slurm_erase, s
  <2>8. NoIdCollision'
    BY DEF TypeOK, NoIdCollision, Respond, Goto
  <2> QED
    BY <2>3, <2>4, <2>5, <2>6, <2>7, <2>8
<1> QED
  BY <1>1, <1>2

\* Looking up the adhoc storage of a removed job preserves the invariant.
LEMMA RemoveJobFindInv ==
    ASSUME RegistryInv, NEW h \in Handlers, RemoveJobFind(h)
    PROVE  RegistryInv'
<1>1. CASE Respond(h, "remove_job", "no_such_entity", None)
  BY <1>1, RespondInv DEF RemoveJobFind, Rpcs
<1>2. CASE Goto(h, "rm_client") /\ UNCHANGED loc
  <2> USE <1>2 DEF RegistryInv, RemoveJobFind, Goto, At, registry
  <2>1. TypeOK'
    BY DEF TypeOK, Steps
  <2>2. LocalsSet'
    BY DEF TypeOK, LocalsSet, RegisterJobSteps
  <2>3. IdsDrawn' /\ SlurmIndexSound' /\ ClientPointsBack' /\ NoIdCollision'
    BY DEF IdsDrawn, SlurmIndexSound, ClientPointsBack, NoIdCollision
  <2>4. DrawnIdsFresh' /\ HeldJobs'
    BY DEF TypeOK, DrawnIdsFresh, HeldJobs
  <2> QED
    BY <2>1, <2>2, <2>3, <2>4
<1> QED
  BY <1>1, <1>2 DEF RemoveJobFind

\* Resetting a client preserves the invariant.
LEMMA RemoveJobClientInv ==
    ASSUME RegistryInv, NEW h \in Handlers, RemoveJobClient(h)
    PROVE  RegistryInv'
<1> USE DEF RegistryInv, RemoveJobClient, At, Respond, jobVars
<1>1. loc[h].adhoc_id \in AdhocIds
  BY DEF LocalsSet
<1>2. TypeOK'
  BY <1>1 DEF TypeOK, remove_client_info, Responses, Rpcs, ErrorCodes, Steps,
              NoLocals, Args, Locals
<1>3. LocalsSet'
  BY DEF TypeOK, LocalsSet, RegisterJobSteps
<1>4. IdsDrawn' /\ SlurmIndexSound'
  BY DEF IdsDrawn, SlurmIndexSound
<1>5. DrawnIdsFresh' /\ HeldJobs'
  BY DEF TypeOK, DrawnIdsFresh, HeldJobs
<1>6. ClientPointsBack'
  BY <1>1 DEF TypeOK, ClientPointsBack, remove_client_info
<1>7. NoIdCollision'
  BY DEF TypeOK, NoIdCollision
<1> QED
  BY <1>2, <1>3, <1>4, <1>5, <1>6, <1>7

\* Looking a job up by its Slurm id preserves the invariant.
LEMMA QueryFindInv ==
    ASSUME RegistryInv, NEW h \in Handlers, QueryFind(h)
    PROVE  RegistryInv'
<1> DEFINE j == m_slurm_to_scord[loc[h].slurm_id]
<1>1. CASE Respond(h, "query", "no_such_entity", None)
  BY <1>1, RespondInv DEF QueryFind, Rpcs
<1>2. CASE j # None /\ j \in m_jobs /\ SetJob(h, j) /\ Goto(h, "q_read")
  <2> USE <1>2 DEF RegistryInv, QueryFind, SetJob, Args, Goto, At, registry
  <2>1. TypeOK'
    BY DEF TypeOK, Steps, Locals
  <2>2. LocalsSet'
    BY DEF TypeOK, LocalsSet, RegisterJobSteps, Locals
  <2>3. IdsDrawn' /\ SlurmIndexSound' /\ ClientPointsBack' /\ NoIdCollision'
    BY DEF IdsDrawn, SlurmIndexSound, ClientPointsBack, NoIdCollision
  <2>4. DrawnIdsFresh' /\ HeldJobs'
    BY DEF TypeOK, DrawnIdsFresh, HeldJobs, IdsDrawn
  <2> QED
    BY <2>1, <2>2, <2>3, <2>4
<1> QED
  BY <1>1, <1>2 DEF QueryFind

\* Reading the job of a query preserves the invariant, crash included.
LEMMA QueryReadInv ==
    ASSUME RegistryInv, NEW h \in Handlers, QueryRead(h)
    PROVE  RegistryInv'
<1> DEFINE a == job_metadata[loc[h].job_id].adhoc_id
<1>1. CASE a = None
  BY <1>1, CrashInv DEF QueryRead
<1>2. CASE a # None
  <2>1. a \in Nat
    BY <1>2, RegistryAssumption
    DEF QueryRead, At, RegistryInv, TypeOK, LocalsSet, HeldJobs, JobMetadata,
        AdhocIds
  <2>2. Respond(h, "query", "success", a) /\ UNCHANGED registry
    BY <1>2 DEF QueryRead
  <2> QED
    BY <2>1, <2>2, RespondInv DEF Rpcs
<1> QED
  BY <1>1, <1>2

----------------------------------------------------------------------------
(* ADM_register_adhoc_storage and ADM_remove_adhoc_storage.                *)

\* Drawing an adhoc storage id preserves the invariant.
LEMMA RegisterAdhocIdInv ==
    ASSUME RegistryInv, NEW h \in Handlers, RegisterAdhocId(h)
    PROVE  RegistryInv'
<1> USE RegistryAssumption DEF RegistryInv, RegisterAdhocId, SetAdhoc, Args,
        Goto, At, jobVars
<1>1. TypeOK'
  BY DEF TypeOK, Steps, RegisterAdhocSteps, Locals, AdhocIds
<1>2. LocalsSet'
  BY DEF TypeOK, LocalsSet, RegisterJobSteps, Locals, AdhocIds
<1>3. IdsDrawn'
  BY DEF TypeOK, IdsDrawn, AdhocIds
<1>4. DrawnIdsFresh'
  BY DEF TypeOK, DrawnIdsFresh, IdsDrawn, LocalsSet, Locals, AdhocIds
<1>5. HeldJobs'
  BY DEF TypeOK, HeldJobs
<1>6. SlurmIndexSound' /\ ClientPointsBack' /\ NoIdCollision'
  BY DEF SlurmIndexSound, ClientPointsBack, NoIdCollision
<1> QED
  BY <1>1, <1>2, <1>3, <1>4, <1>5, <1>6

\* Emplacing an adhoc storage preserves the invariant: its id is fresh.
LEMMA RegisterAdhocEmplaceInv ==
    ASSUME RegistryInv, NEW h \in Handlers, RegisterAdhocEmplace(h)
    PROVE  RegistryInv'
<1> DEFINE a == loc[h].adhoc_id
<1>1. /\ a \in AdhocIds
      /\ a < adhoc_current_id
      /\ m_adhoc_storages' = m_adhoc_storages \cup {a}
      /\ Respond(h, "register_adhoc_storage", "success", a)
      /\ UNCHANGED <<jobVars, adhoc_current_id, m_client_info>>
  BY DEF RegisterAdhocEmplace, At, RegistryInv, LocalsSet, DrawnIdsFresh
<1> USE <1>1 DEF RegistryInv, Respond, jobVars
<1>2. TypeOK'
  <2>1. resp' \in [Handlers -> Responses \cup {None}]
    BY RegistryAssumption DEF TypeOK, Responses, Rpcs, ErrorCodes, AdhocIds
  <2> QED
    BY <2>1 DEF TypeOK, Steps, NoLocals, Args, Locals
<1>3. LocalsSet'
  BY DEF TypeOK, LocalsSet, RegisterJobSteps
<1>4. IdsDrawn' /\ SlurmIndexSound' /\ ClientPointsBack'
  BY DEF IdsDrawn, SlurmIndexSound, ClientPointsBack
<1>5. DrawnIdsFresh' /\ HeldJobs'
  BY DEF TypeOK, DrawnIdsFresh, HeldJobs, RegisterAdhocEmplace, At
<1>6. NoIdCollision'
  BY DEF TypeOK, NoIdCollision
<1> QED
  BY <1>2, <1>3, <1>4, <1>5, <1>6

\* Removing an adhoc storage preserves the invariant.
LEMMA RemoveAdhocInv ==
    ASSUME RegistryInv, NEW h \in Handlers, RemoveAdhoc(h)
    PROVE  RegistryInv'
<1> USE DEF RegistryInv, RemoveAdhoc, At, Respond, jobVars
<1>1. TypeOK'
  BY DEF TypeOK, Responses, Rpcs, ErrorCodes, Steps, NoLocals, Args, Locals
<1>2. LocalsSet'
  BY DEF TypeOK, LocalsSet, RegisterJobSteps
<1>3. IdsDrawn' /\ SlurmIndexSound' /\ ClientPointsBack'
  BY DEF IdsDrawn, SlurmIndexSound, ClientPointsBack
<1>4. DrawnIdsFresh' /\ HeldJobs'
  BY DEF TypeOK, DrawnIdsFresh, HeldJobs
<1>5. NoIdCollision'
  BY DEF TypeOK, NoIdCollision
<1> QED
  BY <1>1, <1>2, <1>3, <1>4, <1>5

----------------------------------------------------------------------------
(* The theorems.                                                           *)

\* A step of a handler preserves the invariant.
LEMMA StepInv ==
    ASSUME RegistryInv, NEW h \in Handlers, Step(h)
    PROVE  RegistryInv'
BY RegisterJobFindInv, RegisterJobIdInv, RegisterJobEmplaceInv,
   RegisterJobClientInv, UpdateJobInv, RemoveJobRemoveInv, RemoveJobFindInv,
   RemoveJobClientInv, QueryFindInv, QueryReadInv, RegisterAdhocIdInv,
   RegisterAdhocEmplaceInv, RemoveAdhocInv
DEF Step

\* So does a step in which nothing changes.
LEMMA StutterInv ==
    ASSUME RegistryInv, UNCHANGED vars
    PROVE  RegistryInv'
BY DEF RegistryInv, vars, registry, TypeOK, LocalsSet, IdsDrawn, DrawnIdsFresh,
       HeldJobs, SlurmIndexSound, ClientPointsBack, NoIdCollision

\* The inductive invariant holds in every reachable state of the registry,
\* for any number of handlers and ids, with one stream or several.
THEOREM RegistryInvariant == Spec => []RegistryInv
<1>1. Init => RegistryInv
  BY InitInv
<1>2. RegistryInv /\ [Next]_vars => RegistryInv'
  BY ArriveInv, StepInv, StutterInv DEF Next, Down
<1> QED
  BY <1>1, <1>2, PTL DEF Spec

\* The registry's variables have their types in every reachable state.
THEOREM RegistryTypes == Spec => []TypeOK
<1>1. RegistryInv => TypeOK
  BY DEF RegistryInv
<1> QED
  BY <1>1, RegistryInvariant, PTL

\* find_by_slurm_id() finds a registered job with the Slurm id asked for
\* whenever the index has an entry for it (job_manager.hpp:104-135).
THEOREM RegistrySlurmIndex == Spec => []SlurmIndexSound
<1>1. RegistryInv => SlurmIndexSound
  BY DEF RegistryInv
<1> QED
  BY <1>1, RegistryInvariant, PTL

\* The client of an adhoc storage is a job created for this adhoc storage
\* (internal_types.cpp:92-113).
THEOREM RegistryClients == Spec => []ClientPointsBack
<1>1. RegistryInv => ClientPointsBack
  BY DEF RegistryInv
<1> QED
  BY <1>1, RegistryInvariant, PTL

\* No registration is refused because of an id that is already in use, even
\* though ids are drawn outside the locks (job_manager.hpp:48-72).
THEOREM RegistryIds == Spec => []NoIdCollision
<1>1. RegistryInv => NoIdCollision
  BY DEF RegistryInv
<1> QED
  BY <1>1, RegistryInvariant, PTL

\* The Slurm id and the adhoc storage of a job never change: an id is never
\* emplaced over existing metadata, and update_job replaces resources only
\* (job_manager.hpp:54-88).
THEOREM RegistryIdentity == Spec => JobIdentityStable
<1> DEFINE Stable ==
        \A j \in JobIds : job_metadata[j] # None =>
            /\ job_metadata'[j] # None
            /\ job_metadata'[j].slurm_id = job_metadata[j].slurm_id
            /\ job_metadata'[j].adhoc_id = job_metadata[j].adhoc_id
<1>1. ASSUME RegistryInv, NEW h \in Handlers, RegisterJobEmplace(h)
      PROVE  Stable
  <2>1. pc[h] = "rj_emplace" /\ job_metadata[loc[h].job_id] = None
    BY <1>1 DEF RegisterJobEmplace, At, RegistryInv, DrawnIdsFresh
  <2> QED
    BY <1>1, <2>1 DEF RegisterJobEmplace, RegistryInv, TypeOK
<1>2. ASSUME RegistryInv, NEW h \in Handlers, UpdateJob(h)
      PROVE  Stable
  <2> DEFINE j == loc[h].job_id
             m == [slurm_id |-> job_metadata[j].slurm_id,
                   adhoc_id |-> job_metadata[j].adhoc_id,
                   nodes |-> loc[h].nodes]
  <2>1. CASE j \notin m_jobs
    BY <1>2, <2>1 DEF UpdateJob
  <2>2. CASE j \in m_jobs
    <3>1. job_metadata[j] \in JobMetadata /\ loc[h].nodes \in NodeCounts
      BY <1>2, <2>2 DEF RegistryInv, TypeOK, LocalsSet, IdsDrawn, UpdateJob, At
    <3>2. m # None
      BY <3>1, NoneIsNoMetadata DEF JobMetadata
    <3>3. job_metadata' = [job_metadata EXCEPT ![j] = m]
      BY <1>2, <2>2 DEF UpdateJob
    <3> QED
      BY <1>2, <3>2, <3>3 DEF RegistryInv, TypeOK
  <2> QED
    BY <2>1, <2>2
<1>3. ASSUME NEW h \in Handlers, Step(h), ~ RegisterJobEmplace(h), ~ UpdateJob(h)
      PROVE  UNCHANGED job_metadata
  BY <1>3
  DEF Step, RegisterJobFind, RegisterJobId, RegisterJobClient, RemoveJobRemove,
      RemoveJobFind, RemoveJobClient, QueryFind, QueryRead, RegisterAdhocId,
      RegisterAdhocEmplace, RemoveAdhoc, registry, jobVars
<1>4. ASSUME NEW h \in Handlers, Arrive(h)
      PROVE  UNCHANGED job_metadata
  BY <1>4
  DEF Arrive, ReceiveRegisterJob, ReceiveUpdateJob, ReceiveRemoveJob,
      ReceiveQuery, ReceiveRegisterAdhoc, ReceiveRemoveAdhoc, Receive, registry
<1>5. UNCHANGED job_metadata => Stable
  OBVIOUS
<1>6. RegistryInv /\ [Next]_vars => [Stable]_vars
  BY <1>1, <1>2, <1>3, <1>4, <1>5 DEF Next, Down, vars, registry
<1> QED
  BY <1>6, RegistryInvariant, PTL DEF Spec, JobIdentityStable

----------------------------------------------------------------------------
(* One stream: the steps of a request follow one another, every request is  *)
(* one step of AtomicRegistry, and a client is a registered job.            *)


\* Where a handler is that has begun and not yet answered.
Midway == {"rj_id", "rj_emplace", "rj_client", "rm_find", "rm_client",
           "q_read", "ra_emplace"}

\* The handler that keeps the stream is the one that is midway.
OneAtATime ==
    /\ \A h \in Handlers : pc[h] \in Midway => running = h
    /\ running # None => pc[running] \in Midway

\* What register_job has looked up or created is still there when it goes on.
FoundIsThere ==
    \A h \in Handlers :
        /\ pc[h] \in {"rj_id", "rj_emplace", "rj_client"} =>
              loc[h].adhoc_id = None \/ loc[h].adhoc_id \in m_adhoc_storages
        /\ pc[h] = "rj_client" => loc[h].job_id \in m_jobs

\* An adhoc storage that is not yet registered has no client.
NewHasNoClient ==
    \A a \in AdhocIds : m_client_info[a] # None =>
        /\ a < adhoc_current_id
        /\ \A h \in Handlers : pc[h] = "ra_emplace" => loc[h].adhoc_id # a

\* The client of a registered adhoc storage is a registered job, once the
\* step of the handler that keeps the stream is taken into account.
SettledAreRegistered ==
    \A a \in m_adhoc_storages :
        ClientsSettled[a] # None => ClientsSettled[a] \in m_jobs

StreamInv ==
    /\ OneAtATime
    /\ FoundIsThere
    /\ NewHasNoClient
    /\ SettledAreRegistered

----------------------------------------------------------------------------
(* Who keeps the stream.                                                   *)

\* A handler that may take a step has the stream to itself.
LEMMA StreamIsTaken ==
    ASSUME SingleStream, StreamInv, NEW h \in Handlers, NEW s, At(h, s)
    PROVE  /\ running = IF s \in Midway THEN h ELSE None
           /\ pc[h] = s
           /\ \A g \in Handlers \ {h} : pc[g] \notin Midway
BY RegistryAssumption DEF StreamInv, OneAtATime, At

\* A handler that goes on keeps the stream.
LEMMA GoesOn ==
    ASSUME SingleStream, TypeOK, NEW h \in Handlers, NEW s \in Midway, Goto(h, s),
           \A g \in Handlers \ {h} : pc[g] \notin Midway
    PROVE  /\ running' = h /\ pc'[h] = s /\ OneAtATime'
           /\ \A g \in Handlers \ {h} : pc'[g] \notin Midway
<1>1. running' = h /\ pc'[h] = s /\ \A g \in Handlers \ {h} : pc'[g] = pc[g]
  BY DEF Goto, TypeOK
<1> QED
  BY <1>1 DEF OneAtATime

\* A handler that answers, or crashes the daemon, leaves no one midway.
LEMMA StreamIsFree ==
    ASSUME TypeOK, NEW h \in Handlers, pc' = [pc EXCEPT ![h] = "idle"], running' = None,
           \A g \in Handlers \ {h} : pc[g] \notin Midway
    PROVE  OneAtATime' /\ \A g \in Handlers : pc'[g] \notin Midway
<1>1. pc'[h] = "idle" /\ \A g \in Handlers \ {h} : pc'[g] = pc[g]
  BY DEF TypeOK
<1> QED
  BY <1>1 DEF OneAtATime, Midway

\* Nothing is pending in a free stream.
LEMMA FreeIsSettled ==
    ASSUME TypeOK, running = None
    PROVE  ClientsSettled = m_client_info
BY DEF TypeOK, ClientsSettled

\* When the stream will be free, the clients will be as they are recorded,
LEMMA FreeIsSettledNext ==
    ASSUME TypeOK', running' = None
    PROVE  ClientsSettled' = m_client_info'
BY DEF TypeOK, ClientsSettled

\* Nor is anything at a step that does not work on the clients.
LEMMA OtherIsSettled ==
    ASSUME TypeOK, running # None, pc[running] \notin {"rj_client", "rm_find", "rm_client"}
    PROVE  ClientsSettled = m_client_info
BY DEF TypeOK, ClientsSettled

\* and when the handler that keeps it is not about to change one.
LEMMA OtherIsSettledNext ==
    ASSUME TypeOK', running' # None,
           pc'[running'] \notin {"rj_client", "rm_find", "rm_client"}
    PROVE  ClientsSettled' = m_client_info'
BY DEF TypeOK, ClientsSettled

\* What AtomicRegistry shows of the registry.
LEMMA NothingShows ==
    ASSUME UNCHANGED <<job_metadata, m_jobs, m_slurm_to_scord, m_adhoc_storages>>,
           ClientsSettled' = ClientsSettled
    PROVE  UNCHANGED Atomic!vars
BY DEF Atomic!vars

\* A step of the registry, as AtomicRegistry sees it.
AtomicStep == Atomic!Next \/ UNCHANGED Atomic!vars

\* The operations of AtomicRegistry are its steps.
LEMMA RequestsOfAtomic ==
    /\ \A j \in JobIds, s \in SlurmIds, a \in AdhocIds \cup {None}, n \in NodeCounts :
          Atomic!RegisterJob(j, s, a, n) => AtomicStep
    /\ \A j \in JobIds, n \in NodeCounts : Atomic!UpdateJob(j, n) => AtomicStep
    /\ \A j \in JobIds : Atomic!RemoveJob(j) => AtomicStep
    /\ \A a \in AdhocIds : Atomic!RegisterAdhoc(a) => AtomicStep
    /\ \A a \in AdhocIds : Atomic!RemoveAdhoc(a) => AtomicStep
BY DEF AtomicStep, Atomic!Next

----------------------------------------------------------------------------
(* Requests arrive, and handlers that leave the registry alone.            *)

\* A request that arrives waits for its turn.
LEMMA ReceiveAtomic ==
    ASSUME RegistryInv, StreamInv, NEW h \in Handlers, NEW s, s \notin Midway,
           NEW args, Receive(h, s, args)
    PROVE  StreamInv' /\ AtomicStep
<1> USE DEF StreamInv
<1>1. /\ UNCHANGED <<registry, running>>
      /\ pc[h] = "idle" /\ pc'[h] = s
      /\ \A g \in Handlers \ {h} : pc'[g] = pc[g] /\ loc'[g] = loc[g]
  BY DEF Receive, RegistryInv, TypeOK
<1>2. running # h /\ (running # None => running \in Handlers)
  BY <1>1, RegistryAssumption DEF OneAtATime, Midway, RegistryInv, TypeOK
<1>3. ClientsSettled' = ClientsSettled
  BY <1>1, <1>2 DEF ClientsSettled, add_client_info, registry
<1>4. OneAtATime'
  BY <1>1, <1>2 DEF OneAtATime
<1>5. FoundIsThere'
  BY <1>1 DEF FoundIsThere, registry, Midway
<1>6. NewHasNoClient'
  BY <1>1 DEF NewHasNoClient, registry, Midway
<1>7. SettledAreRegistered'
  BY <1>1, <1>3 DEF SettledAreRegistered, registry
<1> QED
  BY <1>1, <1>3, <1>4, <1>5, <1>6, <1>7, NothingShows DEF AtomicStep, registry

\* The arrival of a request changes nothing that AtomicRegistry sees.
LEMMA ArriveAtomic ==
    ASSUME RegistryInv, StreamInv, NEW h \in Handlers, Arrive(h)
    PROVE  StreamInv' /\ AtomicStep
BY ReceiveAtomic
DEF Arrive, ReceiveRegisterJob, ReceiveUpdateJob, ReceiveRemoveJob, ReceiveQuery,
    ReceiveRegisterAdhoc, ReceiveRemoveAdhoc, Midway

\* A handler that ends, or goes on, with the registry as it is and nothing
\* pending before or after.
LEMMA AsideAtomic ==
    ASSUME RegistryInv', StreamInv, UNCHANGED registry, OneAtATime', FoundIsThere',
           \A g \in Handlers : pc'[g] = "ra_emplace" => pc[g] = "ra_emplace" /\ loc'[g] = loc[g],
           ClientsSettled' = ClientsSettled
    PROVE  StreamInv' /\ AtomicStep
<1>1. NewHasNoClient'
  BY DEF StreamInv, NewHasNoClient, registry
<1>2. SettledAreRegistered'
  BY DEF StreamInv, SettledAreRegistered, registry
<1> QED
  BY <1>1, <1>2, NothingShows DEF AtomicStep, StreamInv, registry

\* register_job looks its adhoc storage up: AtomicRegistry sees nothing.
LEMMA RegisterJobFindAtomic ==
    ASSUME SingleStream, RegistryInv, RegistryInv', StreamInv, NEW h \in Handlers,
           RegisterJobFind(h)
    PROVE  StreamInv' /\ AtomicStep
<1> USE DEF RegistryInv
<1>1. /\ running = None /\ \A g \in Handlers \ {h} : pc[g] \notin Midway
      /\ UNCHANGED registry
  BY StreamIsTaken DEF RegisterJobFind, Midway
<1>2. ClientsSettled = m_client_info
  BY <1>1, FreeIsSettled
<1>3. CASE loc[h].adhoc_id # None /\ loc[h].adhoc_id \notin m_adhoc_storages
  <2>1. OneAtATime' /\ \A g \in Handlers : pc'[g] \notin Midway
    BY <1>1, <1>3, StreamIsFree DEF RegisterJobFind, Respond
  <2>2. ClientsSettled' = m_client_info
    BY <1>1, <1>3, FreeIsSettledNext DEF RegisterJobFind, Respond, registry
  <2>3. FoundIsThere'
    BY <2>1 DEF FoundIsThere, Midway
  <2> QED
    BY <1>1, <1>2, <2>1, <2>2, <2>3, AsideAtomic DEF Midway
<1>4. CASE ~(loc[h].adhoc_id # None /\ loc[h].adhoc_id \notin m_adhoc_storages)
  <2>1. Goto(h, "rj_id") /\ UNCHANGED loc
    BY <1>4 DEF RegisterJobFind
  <2>2. /\ running' = h /\ pc'[h] = "rj_id" /\ OneAtATime'
        /\ \A g \in Handlers \ {h} : pc'[g] \notin Midway
    BY <1>1, <2>1, GoesOn DEF Midway
  <2>3. ClientsSettled' = m_client_info
    BY <1>1, <2>2, OtherIsSettledNext, RegistryAssumption DEF registry
  <2>4. FoundIsThere'
    BY <1>1, <1>4, <2>1, <2>2 DEF FoundIsThere, Midway, registry
  <2> QED
    BY <1>1, <1>2, <2>2, <2>3, <2>4, AsideAtomic DEF Midway
<1> QED
  BY <1>3, <1>4

\* The id is drawn from a counter that AtomicRegistry does not have.
LEMMA RegisterJobIdAtomic ==
    ASSUME SingleStream, RegistryInv, RegistryInv', StreamInv, NEW h \in Handlers,
           RegisterJobId(h)
    PROVE  StreamInv' /\ AtomicStep
<1> USE DEF RegistryInv, StreamInv
<1>1. /\ running = h /\ pc[h] = "rj_id"
      /\ \A g \in Handlers \ {h} : pc[g] \notin Midway
      /\ UNCHANGED <<job_metadata, m_jobs, m_slurm_to_scord, adhocVars>>
      /\ loc'[h].adhoc_id = loc[h].adhoc_id
  BY StreamIsTaken DEF RegisterJobId, Midway, SetJob, Args, TypeOK
<1>2. /\ running' = h /\ pc'[h] = "rj_emplace" /\ OneAtATime'
      /\ \A g \in Handlers \ {h} : pc'[g] \notin Midway
  BY <1>1, GoesOn DEF RegisterJobId, Midway
<1>3. ClientsSettled = m_client_info /\ ClientsSettled' = m_client_info
  BY <1>1, <1>2, OtherIsSettled, OtherIsSettledNext, RegistryAssumption DEF adhocVars
<1>4. FoundIsThere'
  BY <1>1, <1>2 DEF FoundIsThere, Midway, adhocVars
<1>5. NewHasNoClient'
  BY <1>1, <1>2 DEF NewHasNoClient, Midway, adhocVars
<1>6. SettledAreRegistered'
  BY <1>1, <1>3 DEF SettledAreRegistered, adhocVars
<1> QED
  BY <1>1, <1>2, <1>3, <1>4, <1>5, <1>6, NothingShows DEF AtomicStep, adhocVars

----------------------------------------------------------------------------
(* register_job takes effect where the job is emplaced.                    *)

\* register_job takes effect when the job is emplaced, its client included.
LEMMA RegisterJobEmplaceAtomic ==
    ASSUME SingleStream, RegistryInv, RegistryInv', StreamInv, NEW h \in Handlers,
           RegisterJobEmplace(h)
    PROVE  StreamInv' /\ AtomicStep
<1> USE DEF RegistryInv, StreamInv
<1> DEFINE j == loc[h].job_id
           a == loc[h].adhoc_id
           s == loc[h].slurm_id
           n == loc[h].nodes
           m == [slurm_id |-> s, adhoc_id |-> a, nodes |-> n]
<1>1. /\ running = h /\ pc[h] = "rj_emplace"
      /\ \A g \in Handlers \ {h} : pc[g] \notin Midway
  BY StreamIsTaken DEF RegisterJobEmplace, Midway
<1>2. /\ j \in JobIds /\ s \in SlurmIds /\ n \in NodeCounts
      /\ a \in AdhocIds \cup {None} /\ (a = None \/ a \in m_adhoc_storages)
      /\ job_metadata[j] = None /\ j \notin m_jobs /\ m # None
  BY <1>1, NoneIsNoMetadata
  DEF LocalsSet, RegisterJobSteps, TypeOK, Locals, FoundIsThere, DrawnIdsFresh,
      IdsDrawn, JobMetadata
<1>3. /\ m_jobs' = m_jobs \cup {j}
      /\ job_metadata' = [job_metadata EXCEPT ![j] = m]
      /\ m_slurm_to_scord' = slurm_emplace(s, j)
      /\ UNCHANGED <<job_current_id, adhocVars>>
      /\ IF a = None THEN RegisterJobAnswer(h, j, None)
         ELSE Goto(h, "rj_client") /\ UNCHANGED loc
  BY <1>2 DEF RegisterJobEmplace
<1>4. ClientsSettled = m_client_info
  BY <1>1, OtherIsSettled, RegistryAssumption
<1>5. /\ OneAtATime' /\ FoundIsThere' /\ NewHasNoClient'
      /\ ClientsSettled' = [b \in AdhocIds |-> IF b = a /\ m_client_info[b] = None
                                               THEN j ELSE m_client_info[b]]
  <2>1. CASE a = None
    <3>1. pc' = [pc EXCEPT ![h] = "idle"] /\ running' = None
      BY <1>3, <2>1 DEF RegisterJobAnswer, Respond, Crash
    <3>2. OneAtATime' /\ \A g \in Handlers : pc'[g] \notin Midway
      BY <1>1, <3>1, StreamIsFree
    <3>3. ClientsSettled' = m_client_info
      BY <1>3, <3>1, FreeIsSettledNext DEF adhocVars
    <3>4. None \notin AdhocIds /\ m_client_info \in [AdhocIds -> JobIds \cup {None}]
      BY RegistryAssumption DEF AdhocIds, TypeOK
    <3>5. FoundIsThere'
      BY <3>2 DEF FoundIsThere, Midway
    <3>6. NewHasNoClient'
      BY <1>3, <3>2 DEF NewHasNoClient, Midway, adhocVars
    <3> QED
      BY <2>1, <3>2, <3>3, <3>4, <3>5, <3>6
  <2>2. CASE a # None
    <3>1. Goto(h, "rj_client") /\ UNCHANGED loc
      BY <1>3, <2>2
    <3>2. /\ running' = h /\ pc'[h] = "rj_client" /\ OneAtATime'
          /\ \A g \in Handlers \ {h} : pc'[g] \notin Midway
      BY <1>1, <3>1, GoesOn DEF Midway
    <3>3. FoundIsThere'
      BY <1>2, <1>3, <3>1, <3>2 DEF FoundIsThere, Midway, adhocVars
    <3>4. NewHasNoClient'
      BY <1>3, <3>2 DEF NewHasNoClient, Midway, adhocVars
    <3>5. ClientsSettled' = [b \in AdhocIds |-> IF b = a /\ m_client_info[b] = None
                                                THEN j ELSE m_client_info[b]]
      BY <1>3, <3>1, <3>2, RegistryAssumption
      DEF ClientsSettled, add_client_info, adhocVars, TypeOK
    <3> QED
      BY <3>2, <3>3, <3>4, <3>5
  <2> QED
    BY <2>1, <2>2
<1>6. SettledAreRegistered'
  BY <1>2, <1>3, <1>4, <1>5 DEF SettledAreRegistered, adhocVars, TypeOK
<1>7. AtomicStep
  <2>1. j \notin {k \in JobIds : job_metadata[k] # None}
    BY <1>2
  <2>2. [k \in m_jobs' |-> job_metadata'[k]]
          = [k \in DOMAIN [i \in m_jobs |-> job_metadata[i]] \cup {j} |->
                IF k = j THEN m ELSE [i \in m_jobs |-> job_metadata[i]][k]]
    BY <1>2, <1>3 DEF TypeOK
  <2>3. {k \in JobIds : job_metadata'[k] # None}
          = {k \in JobIds : job_metadata[k] # None} \cup {j}
    BY <1>2, <1>3 DEF TypeOK
  <2>4. m_slurm_to_scord' = [m_slurm_to_scord EXCEPT ![s] = IF @ = None THEN j ELSE @]
    BY <1>3 DEF slurm_emplace
  <2>5. PICK k, t, b, o : k = j /\ t = s /\ b = a /\ o = n
    OBVIOUS
  <2>6. Atomic!RegisterJob(k, t, b, o)
    BY <1>2, <1>3, <1>4, <1>5, <2>1, <2>2, <2>3, <2>4, <2>5
    DEF Atomic!RegisterJob, adhocVars
  <2> QED
    BY <1>2, <2>5, <2>6, RequestsOfAtomic
<1> QED
  BY <1>5, <1>6, <1>7

\* The client that was settled is recorded.
LEMMA RegisterJobClientAtomic ==
    ASSUME SingleStream, RegistryInv, RegistryInv', StreamInv, NEW h \in Handlers,
           RegisterJobClient(h)
    PROVE  StreamInv' /\ AtomicStep
<1> USE DEF RegistryInv, StreamInv
<1> DEFINE j == loc[h].job_id
           a == loc[h].adhoc_id
<1>1. /\ running = h /\ pc[h] = "rj_client"
      /\ \A g \in Handlers \ {h} : pc[g] \notin Midway
  BY StreamIsTaken DEF RegisterJobClient, Midway
<1>2. a \in AdhocIds /\ a \in m_adhoc_storages
  BY <1>1, RegistryAssumption DEF LocalsSet, FoundIsThere, AdhocIds
<1>3. /\ m_client_info' = add_client_info(a, j)
      /\ pc' = [pc EXCEPT ![h] = "idle"] /\ running' = None
      /\ UNCHANGED <<jobVars, adhoc_current_id, m_adhoc_storages>>
  BY DEF RegisterJobClient, RegisterJobAnswer, Respond, Crash
<1>4. OneAtATime' /\ \A g \in Handlers : pc'[g] \notin Midway
  BY <1>1, <1>3, StreamIsFree
<1>5. ClientsSettled' = ClientsSettled /\ ClientsSettled' = m_client_info'
  <2>1. ClientsSettled' = m_client_info'
    BY <1>3, FreeIsSettledNext
  <2>2. ClientsSettled = add_client_info(a, j)
    BY <1>1, <1>2, RegistryAssumption DEF ClientsSettled, add_client_info, TypeOK
  <2> QED
    BY <1>3, <2>1, <2>2
<1>6. FoundIsThere'
  BY <1>4 DEF FoundIsThere, Midway
<1>7. NewHasNoClient'
  BY <1>2, <1>3, <1>4 DEF NewHasNoClient, Midway, add_client_info, IdsDrawn, TypeOK
<1>8. SettledAreRegistered'
  BY <1>3, <1>5 DEF SettledAreRegistered, jobVars
<1> QED
  BY <1>3, <1>4, <1>5, <1>6, <1>7, <1>8, NothingShows DEF AtomicStep, jobVars

----------------------------------------------------------------------------
(* update_job is one step; remove_job takes effect where the job goes.     *)

\* A handler that does one thing and ends: nothing is pending on either side.
LEMMA EndsAtOnce ==
    ASSUME SingleStream, RegistryInv, RegistryInv', StreamInv, NEW h \in Handlers,
           NEW s, s \notin {"rj_client", "rm_find", "rm_client"}, At(h, s),
           pc' = [pc EXCEPT ![h] = "idle"], running' = None
    PROVE  /\ OneAtATime' /\ FoundIsThere' /\ \A g \in Handlers : pc'[g] \notin Midway
           /\ ClientsSettled = m_client_info /\ ClientsSettled' = m_client_info'
<1>1. OneAtATime' /\ \A g \in Handlers : pc'[g] \notin Midway
  BY StreamIsTaken, StreamIsFree DEF RegistryInv
<1>2. FoundIsThere'
  BY <1>1 DEF FoundIsThere, Midway
<1>3. running = None \/ pc[running] \notin {"rj_client", "rm_find", "rm_client"}
  BY StreamIsTaken
<1>4. ClientsSettled = m_client_info /\ ClientsSettled' = m_client_info'
  BY <1>3, FreeIsSettled, OtherIsSettled, FreeIsSettledNext DEF RegistryInv
<1> QED
  BY <1>1, <1>2, <1>4

\* update_job takes effect in one step.
LEMMA UpdateJobAtomic ==
    ASSUME SingleStream, RegistryInv, RegistryInv', StreamInv, NEW h \in Handlers,
           UpdateJob(h)
    PROVE  StreamInv' /\ AtomicStep
<1> USE DEF RegistryInv, StreamInv
<1>1. /\ At(h, "uj_update") /\ pc' = [pc EXCEPT ![h] = "idle"] /\ running' = None
      /\ UNCHANGED <<job_current_id, m_jobs, m_slurm_to_scord, adhocVars>>
  BY DEF UpdateJob, Respond
<1>2. /\ OneAtATime' /\ FoundIsThere' /\ \A g \in Handlers : pc'[g] \notin Midway
      /\ ClientsSettled = m_client_info /\ ClientsSettled' = m_client_info'
  BY <1>1, EndsAtOnce
<1>3. NewHasNoClient'
  BY <1>1, <1>2 DEF NewHasNoClient, Midway, adhocVars
<1>4. SettledAreRegistered'
  BY <1>1, <1>2 DEF SettledAreRegistered, adhocVars
<1>5. PICK j, n : j = loc[h].job_id /\ n = loc[h].nodes
  OBVIOUS
<1>6. j \in JobIds /\ n \in NodeCounts
  BY <1>1, <1>5 DEF At, LocalsSet
<1>7. CASE j \notin m_jobs
  <2>1. UNCHANGED job_metadata
    BY <1>5, <1>7 DEF UpdateJob
  <2> QED
    BY <1>1, <1>2, <1>3, <1>4, <2>1, NothingShows DEF AtomicStep, adhocVars
<1>8. CASE j \in m_jobs
  <2> DEFINE m == [slurm_id |-> job_metadata[j].slurm_id,
                   adhoc_id |-> job_metadata[j].adhoc_id, nodes |-> n]
  <2>1. job_metadata' = [job_metadata EXCEPT ![j] = m]
    BY <1>5, <1>8 DEF UpdateJob
  <2>2. /\ job_metadata[j] \in JobMetadata /\ job_metadata[j] # None /\ m # None
        /\ [job_metadata[j] EXCEPT !.nodes = n] = m
    BY <1>6, <1>8, NoneIsNoMetadata DEF IdsDrawn, TypeOK, JobMetadata
  <2>3. [k \in m_jobs' |-> job_metadata'[k]]
          = [[k \in m_jobs |-> job_metadata[k]] EXCEPT ![j].nodes = n]
    BY <1>1, <1>6, <1>8, <2>1, <2>2 DEF TypeOK
  <2>4. {k \in JobIds : job_metadata'[k] # None} = {k \in JobIds : job_metadata[k] # None}
    BY <1>6, <2>1, <2>2 DEF TypeOK
  <2>5. Atomic!UpdateJob(j, n)
    BY <1>1, <1>2, <1>8, <2>3, <2>4 DEF Atomic!UpdateJob, adhocVars
  <2> QED
    BY <1>2, <1>3, <1>4, <1>6, <2>5, RequestsOfAtomic
<1> QED
  BY <1>7, <1>8

\* remove_job takes effect when the job is removed, its client included.
LEMMA RemoveJobRemoveAtomic ==
    ASSUME SingleStream, RegistryInv, RegistryInv', StreamInv, NEW h \in Handlers,
           RemoveJobRemove(h)
    PROVE  StreamInv' /\ AtomicStep
<1> USE DEF RegistryInv, StreamInv
<1>1. /\ At(h, "rm_remove") /\ running = None
      /\ \A g \in Handlers \ {h} : pc[g] \notin Midway
      /\ UNCHANGED <<job_current_id, job_metadata, adhocVars>>
  BY StreamIsTaken DEF RemoveJobRemove, Midway
<1>2. PICK j, a : j = loc[h].job_id /\ a = job_metadata[j].adhoc_id
  OBVIOUS
<1>3. j \in JobIds
  BY <1>1, <1>2 DEF At, LocalsSet
<1>4. CASE j \notin m_jobs
  <2>1. /\ pc' = [pc EXCEPT ![h] = "idle"] /\ running' = None
        /\ UNCHANGED <<m_jobs, m_slurm_to_scord>>
    BY <1>2, <1>4 DEF RemoveJobRemove, Respond
  <2>2. /\ OneAtATime' /\ FoundIsThere' /\ \A g \in Handlers : pc'[g] \notin Midway
        /\ ClientsSettled' = ClientsSettled
    BY <1>1, <2>1, EndsAtOnce DEF adhocVars
  <2> QED
    BY <1>1, <2>1, <2>2, AsideAtomic DEF Midway, registry, adhocVars
<1>5. CASE j \in m_jobs
  <2>1. /\ m_jobs' = m_jobs \ {j}
        /\ m_slurm_to_scord' = slurm_erase(job_metadata[j].slurm_id)
        /\ IF a = None THEN Respond(h, "remove_job", "success", None)
           ELSE SetAdhoc(h, a) /\ Goto(h, "rm_find")
    BY <1>2, <1>5 DEF RemoveJobRemove
  <2>2. /\ job_metadata[j] \in JobMetadata
        /\ a \in AdhocIds \cup {None} /\ None \notin AdhocIds
    BY <1>2, <1>3, <1>5, RegistryAssumption DEF IdsDrawn, TypeOK, JobMetadata, AdhocIds
  <2>3. ClientsSettled = m_client_info
    BY <1>1, FreeIsSettled
  <2>4. /\ OneAtATime' /\ FoundIsThere' /\ NewHasNoClient'
        /\ ClientsSettled' = [b \in AdhocIds |-> IF b = a /\ b \in m_adhoc_storages
                                                 THEN None ELSE m_client_info[b]]
    <3>1. CASE a = None
      <4>1. pc' = [pc EXCEPT ![h] = "idle"] /\ running' = None
        BY <2>1, <3>1 DEF Respond
      <4>2. /\ OneAtATime' /\ FoundIsThere' /\ \A g \in Handlers : pc'[g] \notin Midway
            /\ ClientsSettled' = m_client_info'
        BY <1>1, <4>1, EndsAtOnce
      <4>3. NewHasNoClient'
        BY <1>1, <4>2 DEF NewHasNoClient, Midway, adhocVars
      <4> QED
        BY <1>1, <2>2, <3>1, <4>2, <4>3 DEF adhocVars, TypeOK
    <3>2. CASE a # None
      <4>1. SetAdhoc(h, a) /\ Goto(h, "rm_find") /\ loc'[h].adhoc_id = a
        BY <2>1, <3>2 DEF SetAdhoc, Args, TypeOK
      <4>2. /\ running' = h /\ pc'[h] = "rm_find" /\ OneAtATime'
            /\ \A g \in Handlers \ {h} : pc'[g] \notin Midway
        BY <1>1, <4>1, GoesOn DEF Midway
      <4>3. FoundIsThere' /\ NewHasNoClient'
        BY <1>1, <4>2 DEF FoundIsThere, NewHasNoClient, Midway, adhocVars
      <4>4. ClientsSettled' = [b \in AdhocIds |-> IF b = a /\ b \in m_adhoc_storages
                                                  THEN None ELSE m_client_info[b]]
        BY <1>1, <4>1, <4>2, RegistryAssumption DEF ClientsSettled, adhocVars, TypeOK
      <4> QED
        BY <4>2, <4>3, <4>4
    <3> QED
      BY <3>1, <3>2
  <2>5. SettledAreRegistered'
    <3>1. \A b \in AdhocIds : m_client_info[b] = j => b = a
      BY <1>2, <1>3, RegistryAssumption DEF ClientPointsBack, JobIds
    <3> QED
      BY <1>1, <2>1, <2>3, <2>4, <3>1 DEF SettledAreRegistered, adhocVars, TypeOK
  <2>6. Atomic!RemoveJob(j)
    <3>1. [k \in m_jobs' |-> job_metadata'[k]]
            = [k \in DOMAIN [i \in m_jobs |-> job_metadata[i]] \ {j} |->
                  [i \in m_jobs |-> job_metadata[i]][k]]
      BY <1>1, <2>1
    <3>2. m_slurm_to_scord' = [m_slurm_to_scord EXCEPT
              ![[i \in m_jobs |-> job_metadata[i]][j].slurm_id] = None]
      BY <1>5, <2>1 DEF slurm_erase
    <3>3. a = [i \in m_jobs |-> job_metadata[i]][j].adhoc_id
      BY <1>2, <1>5
    <3> QED
      BY <1>1, <1>5, <2>3, <2>4, <3>1, <3>2, <3>3 DEF Atomic!RemoveJob, adhocVars
  <2> QED
    BY <1>3, <2>4, <2>5, <2>6, RequestsOfAtomic
<1> QED
  BY <1>4, <1>5

\* The lookup in remove_client_info() changes nothing that shows.
LEMMA RemoveJobFindAtomic ==
    ASSUME SingleStream, RegistryInv, RegistryInv', StreamInv, NEW h \in Handlers,
           RemoveJobFind(h)
    PROVE  StreamInv' /\ AtomicStep
<1> USE DEF RegistryInv
<1>1. /\ running = h /\ pc[h] = "rm_find" /\ UNCHANGED registry
      /\ \A g \in Handlers \ {h} : pc[g] \notin Midway
  BY StreamIsTaken DEF RemoveJobFind, Midway
<1>2. CASE loc[h].adhoc_id \in m_adhoc_storages
  <2>1. Goto(h, "rm_client") /\ UNCHANGED loc
    BY <1>2 DEF RemoveJobFind
  <2>2. /\ running' = h /\ pc'[h] = "rm_client" /\ OneAtATime'
        /\ \A g \in Handlers \ {h} : pc'[g] \notin Midway
    BY <1>1, <2>1, GoesOn DEF Midway
  <2>3. FoundIsThere'
    BY <2>2 DEF FoundIsThere, Midway
  <2>4. ClientsSettled' = ClientsSettled
    BY <1>1, <1>2, <2>1, <2>2 DEF ClientsSettled, registry, add_client_info
  <2> QED
    BY <1>1, <2>2, <2>3, <2>4, AsideAtomic DEF Midway
<1>3. CASE loc[h].adhoc_id \notin m_adhoc_storages
  <2>1. pc' = [pc EXCEPT ![h] = "idle"] /\ running' = None
    BY <1>3 DEF RemoveJobFind, Respond
  <2>2. OneAtATime' /\ \A g \in Handlers : pc'[g] \notin Midway
    BY <1>1, <2>1, StreamIsFree
  <2>3. ClientsSettled' = m_client_info
    BY <1>1, <2>1, FreeIsSettledNext DEF registry
  <2>4. ClientsSettled = m_client_info
    BY <1>1, <1>3 DEF ClientsSettled, TypeOK
  <2>5. FoundIsThere'
    BY <2>2 DEF FoundIsThere, Midway
  <2> QED
    BY <1>1, <2>2, <2>3, <2>4, <2>5, AsideAtomic DEF Midway
<1> QED
  BY <1>2, <1>3

\* The client that was settled is reset.
LEMMA RemoveJobClientAtomic ==
    ASSUME SingleStream, RegistryInv, RegistryInv', StreamInv, NEW h \in Handlers,
           RemoveJobClient(h)
    PROVE  StreamInv' /\ AtomicStep
<1> USE DEF RegistryInv, StreamInv
<1>1. /\ running = h /\ pc[h] = "rm_client"
      /\ \A g \in Handlers \ {h} : pc[g] \notin Midway
  BY StreamIsTaken DEF RemoveJobClient, Midway
<1>2. /\ m_client_info' = remove_client_info(loc[h].adhoc_id)
      /\ pc' = [pc EXCEPT ![h] = "idle"] /\ running' = None
      /\ UNCHANGED <<jobVars, adhoc_current_id, m_adhoc_storages>>
  BY DEF RemoveJobClient, Respond
<1>3. OneAtATime' /\ \A g \in Handlers : pc'[g] \notin Midway
  BY <1>1, <1>2, StreamIsFree
<1>4. ClientsSettled' = ClientsSettled /\ ClientsSettled' = m_client_info'
  <2>1. ClientsSettled' = m_client_info'
    BY <1>2, FreeIsSettledNext
  <2>2. ClientsSettled = remove_client_info(loc[h].adhoc_id)
    BY <1>1, RegistryAssumption DEF ClientsSettled, remove_client_info, TypeOK
  <2> QED
    BY <1>2, <2>1, <2>2
<1>5. FoundIsThere'
  BY <1>3 DEF FoundIsThere, Midway
<1>6. NewHasNoClient'
  BY <1>2, <1>3 DEF NewHasNoClient, Midway, remove_client_info, TypeOK
<1>7. SettledAreRegistered'
  BY <1>2, <1>4 DEF SettledAreRegistered, jobVars
<1> QED
  BY <1>2, <1>3, <1>4, <1>5, <1>6, <1>7, NothingShows DEF AtomicStep, jobVars

----------------------------------------------------------------------------
(* query, and adhoc storages.                                              *)

\* query changes nothing that AtomicRegistry sees,
LEMMA QueryFindAtomic ==
    ASSUME SingleStream, RegistryInv, RegistryInv', StreamInv, NEW h \in Handlers,
           QueryFind(h)
    PROVE  StreamInv' /\ AtomicStep
<1> USE DEF RegistryInv
<1>1. /\ At(h, "q_find") /\ running = None /\ UNCHANGED registry
      /\ \A g \in Handlers \ {h} : pc[g] \notin Midway
  BY StreamIsTaken DEF QueryFind, Midway
<1>2. ClientsSettled = m_client_info
  BY <1>1, FreeIsSettled
<1>3. CASE Goto(h, "q_read")
  <2>1. /\ running' = h /\ pc'[h] = "q_read" /\ OneAtATime'
        /\ \A g \in Handlers \ {h} : pc'[g] \notin Midway
    BY <1>1, <1>3, GoesOn DEF Midway
  <2>2. FoundIsThere'
    BY <2>1 DEF FoundIsThere, Midway
  <2>3. ClientsSettled' = m_client_info
    BY <1>1, <2>1, OtherIsSettledNext, RegistryAssumption DEF registry
  <2> QED
    BY <1>1, <1>2, <2>1, <2>2, <2>3, AsideAtomic DEF Midway
<1>4. CASE Respond(h, "query", "no_such_entity", None)
  <2>1. /\ OneAtATime' /\ FoundIsThere' /\ \A g \in Handlers : pc'[g] \notin Midway
        /\ ClientsSettled' = m_client_info'
    BY <1>1, <1>4, EndsAtOnce DEF Respond
  <2> QED
    BY <1>1, <1>2, <2>1, AsideAtomic DEF Midway, registry
<1> QED
  BY <1>3, <1>4 DEF QueryFind

\* whatever it finds.
LEMMA QueryReadAtomic ==
    ASSUME SingleStream, RegistryInv, RegistryInv', StreamInv, NEW h \in Handlers,
           QueryRead(h)
    PROVE  StreamInv' /\ AtomicStep
<1>1. /\ At(h, "q_read") /\ pc' = [pc EXCEPT ![h] = "idle"] /\ running' = None
      /\ UNCHANGED registry
  BY DEF QueryRead, Respond, Crash
<1>2. /\ OneAtATime' /\ FoundIsThere' /\ \A g \in Handlers : pc'[g] \notin Midway
      /\ ClientsSettled = m_client_info /\ ClientsSettled' = m_client_info'
  BY <1>1, EndsAtOnce
<1> QED
  BY <1>1, <1>2, AsideAtomic DEF Midway, registry

\* The id of an adhoc storage is drawn: it is above those that have clients.
LEMMA RegisterAdhocIdAtomic ==
    ASSUME SingleStream, RegistryInv, RegistryInv', StreamInv, NEW h \in Handlers,
           RegisterAdhocId(h)
    PROVE  StreamInv' /\ AtomicStep
<1> USE DEF RegistryInv, StreamInv
<1>1. /\ running = None /\ \A g \in Handlers \ {h} : pc[g] \notin Midway
      /\ adhoc_current_id' = adhoc_current_id + 1
      /\ loc'[h].adhoc_id = adhoc_current_id
      /\ UNCHANGED <<jobVars, m_adhoc_storages, m_client_info>>
  BY StreamIsTaken DEF RegisterAdhocId, Midway, SetAdhoc, Args, TypeOK
<1>2. /\ running' = h /\ pc'[h] = "ra_emplace" /\ OneAtATime'
      /\ \A g \in Handlers \ {h} : pc'[g] \notin Midway
  BY <1>1, GoesOn DEF RegisterAdhocId, Midway
<1>3. ClientsSettled = m_client_info /\ ClientsSettled' = m_client_info
  BY <1>1, <1>2, FreeIsSettled, OtherIsSettledNext, RegistryAssumption
<1>4. FoundIsThere'
  BY <1>2 DEF FoundIsThere, Midway
<1>5. NewHasNoClient'
  BY <1>1, <1>2, RegistryAssumption DEF NewHasNoClient, Midway, TypeOK, AdhocIds
<1>6. SettledAreRegistered'
  BY <1>1, <1>3 DEF SettledAreRegistered, jobVars
<1> QED
  BY <1>1, <1>2, <1>3, <1>4, <1>5, <1>6, NothingShows DEF AtomicStep, jobVars

\* register_adhoc_storage takes effect when the storage is emplaced.
LEMMA RegisterAdhocEmplaceAtomic ==
    ASSUME SingleStream, RegistryInv, RegistryInv', StreamInv, NEW h \in Handlers,
           RegisterAdhocEmplace(h)
    PROVE  StreamInv' /\ AtomicStep
<1> USE DEF RegistryInv, StreamInv
<1>1. PICK a : a = loc[h].adhoc_id
  OBVIOUS
<1>2. /\ At(h, "ra_emplace") /\ pc' = [pc EXCEPT ![h] = "idle"] /\ running' = None
      /\ a \in AdhocIds /\ a \notin m_adhoc_storages /\ m_client_info[a] = None
  BY <1>1
  DEF RegisterAdhocEmplace, Respond, At, LocalsSet, DrawnIdsFresh, NewHasNoClient
<1>3. /\ m_adhoc_storages' = m_adhoc_storages \cup {a}
      /\ UNCHANGED <<jobVars, adhoc_current_id, m_client_info>>
  BY <1>1, <1>2 DEF RegisterAdhocEmplace
<1>4. /\ OneAtATime' /\ FoundIsThere' /\ \A g \in Handlers : pc'[g] \notin Midway
      /\ ClientsSettled = m_client_info /\ ClientsSettled' = m_client_info'
  BY <1>2, EndsAtOnce
<1>5. NewHasNoClient'
  BY <1>3, <1>4 DEF NewHasNoClient, Midway
<1>6. SettledAreRegistered'
  BY <1>2, <1>3, <1>4 DEF SettledAreRegistered, jobVars
<1>7. Atomic!RegisterAdhoc(a)
  BY <1>2, <1>3, <1>4 DEF Atomic!RegisterAdhoc, jobVars
<1> QED
  BY <1>2, <1>4, <1>5, <1>6, <1>7, RequestsOfAtomic

\* remove_adhoc_storage takes effect in one step.
LEMMA RemoveAdhocAtomic ==
    ASSUME SingleStream, RegistryInv, RegistryInv', StreamInv, NEW h \in Handlers,
           RemoveAdhoc(h)
    PROVE  StreamInv' /\ AtomicStep
<1> USE DEF RegistryInv, StreamInv
<1>1. PICK a : a = loc[h].adhoc_id
  OBVIOUS
<1>2. /\ At(h, "rma_remove") /\ pc' = [pc EXCEPT ![h] = "idle"] /\ running' = None
      /\ a \in AdhocIds /\ m_adhoc_storages' = m_adhoc_storages \ {a}
      /\ UNCHANGED <<jobVars, adhoc_current_id, m_client_info>>
  BY <1>1 DEF RemoveAdhoc, Respond, At, LocalsSet
<1>3. /\ OneAtATime' /\ FoundIsThere' /\ \A g \in Handlers : pc'[g] \notin Midway
      /\ ClientsSettled = m_client_info /\ ClientsSettled' = m_client_info'
  BY <1>2, EndsAtOnce
<1>4. NewHasNoClient'
  BY <1>2, <1>3 DEF NewHasNoClient, Midway
<1>5. SettledAreRegistered'
  BY <1>2, <1>3 DEF SettledAreRegistered, jobVars
<1>6. AtomicStep
  <2>1. CASE a \in m_adhoc_storages
    <3>1. Atomic!RemoveAdhoc(a)
      BY <1>2, <1>3, <2>1 DEF Atomic!RemoveAdhoc, jobVars
    <3> QED
      BY <1>2, <3>1, RequestsOfAtomic
  <2>2. CASE a \notin m_adhoc_storages
    BY <1>2, <1>3, <2>2, NothingShows DEF AtomicStep, jobVars
  <2> QED
    BY <2>1, <2>2
<1> QED
  BY <1>3, <1>4, <1>5, <1>6

----------------------------------------------------------------------------
(* The theorems.                                                           *)

\* AtomicRegistry begins as the registry does.
LEMMA InitAtomic == Init => StreamInv /\ Atomic!Init
<1> SUFFICES ASSUME Init PROVE StreamInv /\ Atomic!Init
  OBVIOUS
<1>1. RegistryInv
  BY InitInv
<1>2. ClientsSettled = [a \in AdhocIds |-> None]
  BY <1>1, FreeIsSettled DEF RegistryInv, Init
<1>3. OneAtATime /\ FoundIsThere /\ NewHasNoClient /\ SettledAreRegistered
  BY DEF Init, OneAtATime, FoundIsThere, NewHasNoClient, SettledAreRegistered, Midway
<1>4. Atomic!Init
  BY <1>2 DEF Init, Atomic!Init
<1> QED
  BY <1>3, <1>4 DEF StreamInv

\* A step in which nothing changes is none of AtomicRegistry.
LEMMA StutterAtomic ==
    ASSUME StreamInv, UNCHANGED vars
    PROVE  StreamInv' /\ AtomicStep
<1>1. ClientsSettled' = ClientsSettled
  BY DEF vars, registry, ClientsSettled, add_client_info
<1>2. OneAtATime' /\ FoundIsThere' /\ NewHasNoClient' /\ SettledAreRegistered'
  BY <1>1
  DEF StreamInv, vars, registry, OneAtATime, FoundIsThere, NewHasNoClient,
      SettledAreRegistered
<1> QED
  BY <1>1, <1>2, NothingShows DEF StreamInv, AtomicStep, vars, registry

\* Every step keeps the invariant of the single stream, and is a step of
\* AtomicRegistry or one that does not show.
LEMMA NextAtomic ==
    ASSUME SingleStream, RegistryInv, StreamInv, [Next]_vars
    PROVE  StreamInv' /\ AtomicStep
<1>1. RegistryInv'
  BY ArriveInv, StepInv, StutterInv DEF Next, Down
<1>2. ASSUME NEW h \in Handlers, Step(h)
      PROVE  StreamInv' /\ AtomicStep
  BY <1>1, <1>2, RegisterJobFindAtomic, RegisterJobIdAtomic, RegisterJobEmplaceAtomic,
     RegisterJobClientAtomic, UpdateJobAtomic, RemoveJobRemoveAtomic,
     RemoveJobFindAtomic, RemoveJobClientAtomic, QueryFindAtomic, QueryReadAtomic,
     RegisterAdhocIdAtomic, RegisterAdhocEmplaceAtomic, RemoveAdhocAtomic
  DEF Step
<1> QED
  BY <1>2, ArriveAtomic, StutterAtomic DEF Next, Down

\* The handlers that share one stream keep its invariant.
THEOREM StreamInvariant == ASSUME SingleStream PROVE Spec => []StreamInv
<1>1. Init => StreamInv
  BY InitAtomic
<1>2. RegistryInv /\ StreamInv /\ [Next]_vars => StreamInv'
  BY NextAtomic
<1> QED
  BY <1>1, <1>2, RegistryInvariant, PTL DEF Spec

\* Between two requests, the client recorded for a registered adhoc storage
\* is a registered job: remove_job() leaves no dangling client behind
\* (rpc_server.cpp:327-336).
THEOREM RegistryClientIsRegistered ==
    ASSUME SingleStream PROVE Spec => []ClientIsRegistered
<1>1. RegistryInv /\ StreamInv => ClientIsRegistered
  BY FreeIsSettled DEF RegistryInv, StreamInv, SettledAreRegistered, ClientIsRegistered
<1> QED
  BY <1>1, RegistryInvariant, StreamInvariant, PTL

\* The handlers that share one stream make every ADM_register_, ADM_update_
\* and ADM_remove_ call one atomic step, although each is made of several
\* critical sections (rpc_server.cpp:210-400).
THEOREM RegistryImplementsAtomic ==
    ASSUME SingleStream PROVE Spec => ImplementsAtomic
<1>1. Init => Atomic!Init
  BY InitAtomic
<1>2. RegistryInv /\ StreamInv /\ [Next]_vars => [Atomic!Next]_(Atomic!vars)
  BY NextAtomic DEF AtomicStep
<1> QED
  BY <1>1, <1>2, RegistryInvariant, StreamInvariant, PTL
  DEF Spec, ImplementsAtomic, Atomic!Spec

----------------------------------------------------------------------------
(* What can crash the daemon.                                              *)

\* A handler that registers a job with an adhoc storage has found it, so that
\* the id of the storage was drawn once, whether it is still there or not.
RequiredWasDrawn ==
    \A h \in Handlers :
        pc[h] \in {"rj_id", "rj_emplace", "rj_client"} /\ loc[h].adhoc_id # None
            => loc[h].adhoc_id < adhoc_current_id

\* The invariants that tell what a crash was about.
CrashReasons ==
    /\ RegistryInv
    /\ SingleStream => StreamInv
    /\ RequiredWasDrawn

\* A handler that was not registering keeps what the others required; so does
\* one that leaves the requirements alone and does not begin.
LEMMA RequiredStays ==
    ASSUME RegistryInv, RequiredWasDrawn, NEW h \in Handlers,
           adhoc_current_id' \in Nat, adhoc_current_id <= adhoc_current_id',
           \A g \in Handlers \ {h} : pc'[g] = pc[g] /\ loc'[g] = loc[g],
           \/ pc'[h] \notin {"rj_id", "rj_emplace", "rj_client"}
           \/ /\ pc[h] \in {"rj_id", "rj_emplace", "rj_client"}
              /\ loc'[h].adhoc_id = loc[h].adhoc_id
    PROVE  RequiredWasDrawn'
<1>1. \A g \in Handlers : loc[g].adhoc_id # None => loc[g].adhoc_id \in Nat
  BY RegistryAssumption DEF RegistryInv, TypeOK, Locals, AdhocIds
<1>2. adhoc_current_id \in Nat
  BY RegistryAssumption DEF RegistryInv, TypeOK
<1> SUFFICES ASSUME NEW g \in Handlers,
                    pc'[g] \in {"rj_id", "rj_emplace", "rj_client"},
                    loc'[g].adhoc_id # None
             PROVE  loc'[g].adhoc_id < adhoc_current_id'
  BY DEF RequiredWasDrawn
<1>3. /\ pc[g] \in {"rj_id", "rj_emplace", "rj_client"}
      /\ loc'[g].adhoc_id = loc[g].adhoc_id
  OBVIOUS
<1>4. loc[g].adhoc_id < adhoc_current_id
  BY <1>3 DEF RequiredWasDrawn
<1> QED
  BY <1>1, <1>2, <1>3, <1>4

\* Every step keeps what the handlers that register jobs have found.
LEMMA RequiredNext ==
    ASSUME RegistryInv, RegistryInv', RequiredWasDrawn, [Next]_vars
    PROVE  RequiredWasDrawn'
<1>1. adhoc_current_id' \in Nat /\ adhoc_current_id \in Nat
  BY RegistryAssumption DEF RegistryInv, TypeOK
<1> USE <1>1, RequiredStays DEF RegistryInv, TypeOK
<1>2. ASSUME NEW h \in Handlers, NEW s, NEW args, Receive(h, s, args),
             s \notin {"rj_id", "rj_emplace", "rj_client"}
      PROVE  RequiredWasDrawn'
  BY <1>2 DEF Receive, registry
<1>3. ASSUME NEW h \in Handlers, Arrive(h)
      PROVE  RequiredWasDrawn'
  <2>1. PICK s, args : Receive(h, s, args) /\ s \notin {"rj_id", "rj_emplace", "rj_client"}
    BY <1>3
    DEF Arrive, ReceiveRegisterJob, ReceiveUpdateJob, ReceiveRemoveJob, ReceiveQuery,
        ReceiveRegisterAdhoc, ReceiveRemoveAdhoc
  <2> QED
    BY <1>2, <2>1
<1>4. ASSUME NEW h \in Handlers, RegisterJobFind(h)
      PROVE  RequiredWasDrawn'
  <2>1. CASE Goto(h, "rj_id") /\ UNCHANGED loc
    <3>1. loc[h].adhoc_id # None => loc[h].adhoc_id < adhoc_current_id
      BY <1>4, <2>1, RegistryAssumption DEF RegisterJobFind, Respond, Goto, At, IdsDrawn
    <3>2. /\ \A g \in Handlers \ {h} : pc'[g] = pc[g]
          /\ loc' = loc /\ adhoc_current_id' = adhoc_current_id
      BY <1>4, <2>1 DEF RegisterJobFind, Goto, registry
    <3> HIDE RequiredStays
    <3> QED
      BY <3>1, <3>2 DEF RequiredWasDrawn
  <2>2. CASE Respond(h, "register_job", "no_such_entity", None)
    BY <1>4, <2>2 DEF RegisterJobFind, Respond, registry
  <2> QED
    BY <1>4, <2>1, <2>2 DEF RegisterJobFind
<1>5. ASSUME NEW h \in Handlers, RegisterJobId(h) \/ RegisterJobEmplace(h)
      PROVE  RequiredWasDrawn'
  BY <1>5
  DEF RegisterJobId, RegisterJobEmplace, RegisterJobAnswer, At, Goto, Respond, Crash,
      SetJob, Args, Locals, adhocVars
<1>6. ASSUME NEW h \in Handlers, RegisterJobClient(h) \/ UpdateJob(h) \/ RemoveJobRemove(h)
      PROVE  RequiredWasDrawn'
  BY <1>6
  DEF RegisterJobClient, UpdateJob, RemoveJobRemove, RegisterJobAnswer, At, Goto, Respond,
      Crash, SetAdhoc, adhocVars, jobVars
<1>7. ASSUME NEW h \in Handlers,
             RemoveJobFind(h) \/ RemoveJobClient(h) \/ QueryFind(h) \/ QueryRead(h)
      PROVE  RequiredWasDrawn'
  BY <1>7
  DEF RemoveJobFind, RemoveJobClient, QueryFind, QueryRead, At, Goto, Respond, Crash,
      SetJob, registry, jobVars
<1>8. ASSUME NEW h \in Handlers,
             RegisterAdhocId(h) \/ RegisterAdhocEmplace(h) \/ RemoveAdhoc(h)
      PROVE  RequiredWasDrawn'
  BY <1>8
  DEF RegisterAdhocId, RegisterAdhocEmplace, RemoveAdhoc, At, Goto, Respond, SetAdhoc
<1>9. CASE UNCHANGED vars
  BY <1>9 DEF vars, registry, RequiredWasDrawn
<1> QED
  BY <1>3, <1>4, <1>5, <1>6, <1>7, <1>8, <1>9 DEF Next, Step, Down

\* A step that crashes the daemon does it over a job without an adhoc storage,
\* or over one whose storage was found and is gone.
LEMMA CrashNext ==
    ASSUME CrashReasons, CrashIsKnown, [Next]_vars
    PROVE  CrashIsKnown'
<1> USE DEF CrashReasons, RegistryInv, TypeOK
<1>1. CASE UNCHANGED vars
  BY <1>1 DEF vars, registry, CrashIsKnown
<1>2. ASSUME NEW h \in Handlers, RegisterJobEmplace(h), ~alive'
      PROVE  CrashIsKnown'
  <2>1. loc[h].adhoc_id = None /\ loc[h].job_id \in JobIds
    BY <1>2 DEF RegisterJobEmplace, At, Goto, Respond, LocalsSet
  <2>2. job_metadata'[loc[h].job_id] =
          [slurm_id |-> loc[h].slurm_id, adhoc_id |-> None, nodes |-> loc[h].nodes]
    BY <1>2, <2>1 DEF RegisterJobEmplace, At, Respond
  <2>3. job_metadata'[loc[h].job_id] # None
    BY <1>2, <2>1, <2>2, NoneIsNoMetadata DEF RegisterJobEmplace, At, LocalsSet,
       RegisterJobSteps, JobMetadata
  <2> QED
    BY <2>1, <2>2, <2>3 DEF CrashIsKnown
<1>3. ASSUME NEW h \in Handlers, RegisterJobClient(h), ~alive'
      PROVE  CrashIsKnown'
  <2>1. /\ pc[h] = "rj_client" /\ HasRedis /\ loc[h].adhoc_id \notin m_adhoc_storages
        /\ UNCHANGED <<jobVars, adhoc_current_id, m_adhoc_storages>>
    BY <1>3 DEF RegisterJobClient, RegisterJobAnswer, At, Respond
  <2>2. /\ loc[h].job_id \in JobIds /\ loc[h].adhoc_id \in AdhocIds
        /\ job_metadata[loc[h].job_id] # None
        /\ job_metadata[loc[h].job_id].adhoc_id = loc[h].adhoc_id
    BY <2>1 DEF LocalsSet, HeldJobs
  <2>3. loc[h].adhoc_id # None
    BY <2>2, RegistryAssumption DEF AdhocIds
  <2>4. ~SingleStream
    BY <2>1, <2>3 DEF StreamInv, FoundIsThere
  <2>5. loc[h].adhoc_id < adhoc_current_id
    BY <2>1, <2>3 DEF RequiredWasDrawn
  <2> QED
    BY <2>1, <2>2, <2>4, <2>5 DEF CrashIsKnown, jobVars
<1>4. ASSUME NEW h \in Handlers, QueryRead(h), ~alive'
      PROVE  CrashIsKnown'
  <2>1. /\ loc[h].job_id \in JobIds
        /\ job_metadata[loc[h].job_id] # None
        /\ job_metadata[loc[h].job_id].adhoc_id = None
        /\ UNCHANGED job_metadata
    BY <1>4 DEF QueryRead, At, Respond, LocalsSet, HeldJobs, registry
  <2> QED
    BY <2>1 DEF CrashIsKnown
<1>5. ASSUME NEW h \in Handlers, Arrive(h)
      PROVE  alive'
  BY <1>5
  DEF Arrive, ReceiveRegisterJob, ReceiveUpdateJob, ReceiveRemoveJob, ReceiveQuery,
      ReceiveRegisterAdhoc, ReceiveRemoveAdhoc, Receive
<1>6. ASSUME NEW h \in Handlers, Step(h)
      PROVE  \/ alive'
             \/ RegisterJobEmplace(h) \/ RegisterJobClient(h) \/ QueryRead(h)
  BY <1>6
  DEF Step, RegisterJobFind, RegisterJobId, UpdateJob, RemoveJobRemove, RemoveJobFind,
      RemoveJobClient, QueryFind, RegisterAdhocId, RegisterAdhocEmplace, RemoveAdhoc,
      At, Goto, Respond
<1> QED
  BY <1>1, <1>2, <1>3, <1>4, <1>5, <1>6 DEF Next, Down, CrashIsKnown

\* The daemon crashes only over a job that requires no adhoc storage or, with
\* Redis and several streams, over one whose storage was removed while the
\* job was being registered (rpc_server.cpp:174 and :247).
THEOREM CrashesAreKnown == Spec => []CrashIsKnown
<1>1. Init => RequiredWasDrawn /\ CrashIsKnown
  BY DEF Init, RequiredWasDrawn, CrashIsKnown
<1>2. RegistryInv /\ RegistryInv' /\ RequiredWasDrawn /\ [Next]_vars => RequiredWasDrawn'
  BY RequiredNext
<1>3. Spec => []RequiredWasDrawn
  BY <1>1, <1>2, RegistryInvariant, PTL DEF Spec
<1>4. CASE SingleStream
  <2>1. Spec => []StreamInv
    BY <1>4, StreamInvariant
  <2>2. RegistryInv /\ StreamInv /\ RequiredWasDrawn /\ CrashIsKnown /\ [Next]_vars
            => CrashIsKnown'
    BY CrashNext DEF CrashReasons
  <2> QED
    BY <1>1, <1>3, <2>1, <2>2, RegistryInvariant, PTL DEF Spec
<1>5. CASE ~SingleStream
  <2>1. RegistryInv /\ RequiredWasDrawn /\ CrashIsKnown /\ [Next]_vars => CrashIsKnown'
    BY <1>5, CrashNext DEF CrashReasons
  <2> QED
    BY <1>1, <1>3, <2>1, RegistryInvariant, PTL DEF Spec
<1> QED
  BY <1>4, <1>5
=============================================================================
