---------------------------- MODULE SlurmPlugin ----------------------------
(***************************************************************************)
(* The Slurm plugin: what a job with scord options does to scord, from the *)
(* prolog of its allocation to the epilog.  Each job step has a process on *)
(* the first node (slurmstepd) that registers an adhoc storage and a job,  *)
(* deploys the storage and stages data in before the application runs, and *)
(* stages data out, terminates the storage and removes the job afterwards. *)
(* Slurm calls the second half (slurm_spank_exit) whether or not the first *)
(* (slurm_spank_user_init) was successful.                                 *)
(*                                                                         *)
(* scord is AtomicRegistry, the specification ScordRegistry implements.  A *)
(* call to it may be lost, or carried out and its answer lost: both look   *)
(* the same to the plugin.                                                 *)
(***************************************************************************)
EXTENDS Integers, FiniteSets

CONSTANTS
    JobSteps,       \* job steps with scord options
    SlurmIds,       \* Slurm jobs (allocations)
    SlurmOf,        \* the Slurm job of each step
    NodeCounts,     \* sizes of the resources of a job
    JobIds,         \* bound: ids scord has for jobs
    AdhocIds,       \* bound: ids scord has for adhoc storages
    Faults,         \* TRUE: calls, scripts and processes may fail
    None

ASSUME PluginAssumption ==
    /\ SlurmOf \in [JobSteps -> SlurmIds]
    /\ Faults \in BOOLEAN
    /\ None \notin JobIds \cup AdhocIds \cup SlurmIds

VARIABLES
    jobs, created, slurm_index, adhocs, clients,    \* scord: AtomicRegistry
    service,        \* adhoc storages whose service is up
    dirs,           \* adhoc storages with a working directory
    alloc,          \* life of each allocation
    scord_ctl,      \* allocations whose adhoc controller runs
    cargo,          \* allocations whose data stager runs
    pc,             \* next step of the process of each job step
    opts,           \* which of its datasets the job step stages
    adhoc_storage,  \* handle of the adhoc storage, None for NULL
    scord_reqs,     \* TRUE once the job requirements were created
    scord_job,      \* handle of the job, None for NULL
    adhoc_path,     \* TRUE while adhoc_path is not NULL
    failed          \* something went wrong for this job step

registry == <<jobs, created, slurm_index, adhocs, clients>>
storage == <<service, dirs>>
allocation == <<alloc, scord_ctl, cargo>>
handles == <<adhoc_storage, scord_reqs, scord_job, adhoc_path>>
vars == <<registry, storage, allocation, pc, opts, handles, failed>>

Scord == INSTANCE AtomicRegistry

Options == [inputs : BOOLEAN, outputs : BOOLEAN]
Ended == {"done", "crashed"}
PluginSteps == {"new", "register_adhoc", "register_job", "deploy", "stage_in",
                "application", "stage_out", "terminate", "remove_dir",
                "remove_job"} \cup Ended

\* Every variable has its type.
TypeOK ==
    /\ DOMAIN jobs \subseteq JobIds
    /\ created \subseteq JobIds
    /\ slurm_index \in [SlurmIds -> JobIds \cup {None}]
    /\ adhocs \subseteq AdhocIds
    /\ clients \in [AdhocIds -> JobIds \cup {None}]
    /\ service \subseteq AdhocIds
    /\ dirs \subseteq AdhocIds
    /\ alloc \in [SlurmIds -> {"new", "ready", "failed", "over"}]
    /\ scord_ctl \subseteq SlurmIds
    /\ cargo \subseteq SlurmIds
    /\ pc \in [JobSteps -> PluginSteps]
    /\ opts \in [JobSteps -> Options]
    /\ adhoc_storage \in [JobSteps -> AdhocIds \cup {None}]
    /\ scord_reqs \in [JobSteps -> BOOLEAN]
    /\ scord_job \in [JobSteps -> JobIds \cup {None}]
    /\ adhoc_path \in [JobSteps -> BOOLEAN]
    /\ failed \in [JobSteps -> BOOLEAN]

Init ==
    /\ Scord!Init
    /\ service = {}
    /\ dirs = {}
    /\ alloc = [s \in SlurmIds |-> "new"]
    /\ scord_ctl = {}
    /\ cargo = {}
    /\ pc = [p \in JobSteps |-> "new"]
    /\ opts \in [JobSteps -> Options]
    /\ adhoc_storage = [p \in JobSteps |-> None]
    /\ scord_reqs = [p \in JobSteps |-> FALSE]
    /\ scord_job = [p \in JobSteps |-> None]
    /\ adhoc_path = [p \in JobSteps |-> FALSE]
    /\ failed = [p \in JobSteps |-> FALSE]

----------------------------------------------------------------------------
(* The allocation: prolog and epilog on its first node.                    *)

\* scord-ctl is started in the background, so that its failure goes by
\* unnoticed; then Cargo.  The failure of Cargo ends the prolog, except where
\* run_as() has no user to change to: then it returns 0 whatever happens.
Prolog(s) ==
    /\ alloc[s] = "new"
    /\ scord_ctl' \in {scord_ctl \cup {s}} \cup
                      (IF Faults THEN {scord_ctl} ELSE {})
    /\ \/ cargo' = cargo \cup {s} /\ alloc' = [alloc EXCEPT ![s] = "ready"]
       \/ /\ Faults
          /\ UNCHANGED cargo
          /\ \E result \in {"ready", "failed"} :
                 alloc' = [alloc EXCEPT ![s] = result]
    /\ UNCHANGED <<registry, storage, pc, opts, handles, failed>>

\* After the last job step: scord-ctl is killed, if its pidfile is there,
\* and Cargo stopped, if systemctl can.
Epilog(s) ==
    /\ alloc[s] \in {"ready", "failed"}
    /\ \A p \in JobSteps : SlurmOf[p] = s => pc[p] \in Ended \cup {"new"}
    /\ alloc' = [alloc EXCEPT ![s] = "over"]
    /\ scord_ctl' \in {scord_ctl \ {s}} \cup
                      (IF Faults THEN {scord_ctl} ELSE {})
    /\ cargo' \in {cargo \ {s}} \cup (IF Faults THEN {cargo} ELSE {})
    /\ UNCHANGED <<registry, storage, pc, opts, handles, failed>>

----------------------------------------------------------------------------
(* slurm_spank_user_init() and scord_register_job().                       *)

Goto(p, step) == pc' = [pc EXCEPT ![p] = step]
Fail(p) == failed' = [failed EXCEPT ![p] = TRUE]

\* The first node's process is configured and computes addresses and
\* resources; one of these may fail, before scord is called.
Start(p) ==
    /\ pc[p] = "new" /\ alloc[SlurmOf[p]] = "ready"
    /\ \/ Goto(p, "register_adhoc") /\ UNCHANGED failed
       \/ Faults /\ Goto(p, "application") /\ Fail(p)
    /\ UNCHANGED <<registry, storage, allocation, opts, handles>>

\* Mutant of RegisterAdhoc: the storage another job step registered is used.
RegisterAdhocShared(p) ==
    /\ pc[p] = "register_adhoc"
    /\ \E a \in AdhocIds :
           /\ Scord!RegisterAdhoc(a) \/ (a \in adhocs /\ UNCHANGED registry)
           /\ adhoc_storage' = [adhoc_storage EXCEPT ![p] = a]
    /\ scord_reqs' = [scord_reqs EXCEPT ![p] = TRUE]
    /\ Goto(p, "register_job")
    /\ UNCHANGED <<storage, allocation, opts, scord_job, adhoc_path, failed>>

\* ADM_register_adhoc_storage(), then the requirements are created.
RegisterAdhoc(p) ==
    /\ pc[p] = "register_adhoc"
    /\ \/ /\ \E a \in AdhocIds :
                /\ Scord!RegisterAdhoc(a)
                /\ adhoc_storage' = [adhoc_storage EXCEPT ![p] = a]
          /\ \/ /\ scord_reqs' = [scord_reqs EXCEPT ![p] = TRUE]
                /\ Goto(p, "register_job")
                /\ UNCHANGED failed
             \/ /\ Faults
                /\ Goto(p, "application") /\ Fail(p)
                /\ UNCHANGED scord_reqs
       \/ /\ Faults
          /\ (\E a \in AdhocIds : Scord!RegisterAdhoc(a)) \/ UNCHANGED registry
          /\ Goto(p, "application") /\ Fail(p)
          /\ UNCHANGED <<adhoc_storage, scord_reqs>>
    /\ UNCHANGED <<storage, allocation, opts, scord_job, adhoc_path>>

RegisterJobAs(p, j) ==
    \E n \in NodeCounts :
        Scord!RegisterJob(j, SlurmOf[p], adhoc_storage[p], n)

RegisterJob(p) ==
    /\ pc[p] = "register_job"
    /\ \/ /\ \E j \in JobIds :
                /\ RegisterJobAs(p, j)
                /\ scord_job' = [scord_job EXCEPT ![p] = j]
          /\ Goto(p, "deploy")
          /\ UNCHANGED failed
       \/ /\ Faults
          /\ (\E j \in JobIds : RegisterJobAs(p, j)) \/ UNCHANGED registry
          /\ Goto(p, "application") /\ Fail(p)
          /\ UNCHANGED scord_job
    /\ UNCHANGED <<storage, allocation, opts, adhoc_storage, scord_reqs,
                   adhoc_path>>

\* ADM_deploy_adhoc_storage(), through the controller of the allocation.  A
\* deployment that fails may have created the directory or started the
\* service.
Deploy(p) ==
    LET a == adhoc_storage[p] IN
    /\ pc[p] = "deploy"
    /\ \/ /\ SlurmOf[p] \in scord_ctl
          /\ service' = service \cup {a} /\ dirs' = dirs \cup {a}
          /\ adhoc_path' = [adhoc_path EXCEPT ![p] = TRUE]
          /\ Goto(p, IF opts[p].inputs THEN "stage_in" ELSE "application")
          /\ UNCHANGED failed
       \/ /\ Faults
          /\ \/ UNCHANGED storage
             \/ /\ SlurmOf[p] \in scord_ctl
                /\ dirs' = dirs \cup {a}
                /\ service' \in {service, service \cup {a}}
          /\ Goto(p, "application") /\ Fail(p)
          /\ UNCHANGED adhoc_path
    /\ UNCHANGED <<registry, allocation, opts, adhoc_storage, scord_reqs,
                   scord_job>>

\* ADM_transfer_datasets_1() with the inputs; see TransferScheduler.
StageIn(p) ==
    /\ pc[p] = "stage_in"
    /\ \/ SlurmOf[p] \in cargo /\ UNCHANGED failed
       \/ Faults /\ Fail(p)
    /\ Goto(p, "application")
    /\ UNCHANGED <<registry, storage, allocation, opts, handles>>

----------------------------------------------------------------------------
(* slurm_spank_exit() and scord_unregister_job().                          *)

\* A handle that is NULL is dereferenced: the process crashes.
Crash(p) ==
    /\ Goto(p, "crashed") /\ Fail(p)
    /\ UNCHANGED <<registry, storage>>

\* The job step is over.  What is checked before unregistering may fail.
Exit(p) ==
    /\ pc[p] = "application"
    /\ \/ /\ Goto(p, IF opts[p].outputs THEN "stage_out" ELSE "terminate")
          /\ UNCHANGED failed
       \/ Faults /\ Goto(p, "done") /\ Fail(p)
    /\ UNCHANGED <<registry, storage, allocation, opts, handles>>

\* Mutant of StageOut: it goes straight to the end also when it is through.
StageOutEnds(p) ==
    /\ pc[p] = "stage_out"
    /\ scord_reqs[p] /\ scord_job[p] # None
    /\ Goto(p, "done")
    /\ UNCHANGED <<registry, storage, allocation, opts, handles, failed>>

\* A stage-out that fails goes to the end: nothing is cleaned up.
StageOut(p) ==
    /\ pc[p] = "stage_out"
    /\ IF ~ scord_reqs[p] \/ scord_job[p] = None
       THEN Crash(p)
       ELSE /\ \/ /\ SlurmOf[p] \in cargo
                  /\ Goto(p, "terminate") /\ UNCHANGED failed
               \/ Faults /\ Goto(p, "done") /\ Fail(p)
            /\ UNCHANGED <<registry, storage>>
    /\ UNCHANGED <<allocation, opts, handles>>

\* Mutant of Terminate: the call is repeated until a controller answers.
TerminateRetries(p) ==
    /\ pc[p] = "terminate"
    /\ adhoc_storage[p] # None
    /\ SlurmOf[p] \in scord_ctl
    /\ service' = service \ {adhoc_storage[p]}
    /\ Goto(p, "remove_dir")
    /\ UNCHANGED <<registry, dirs, allocation, opts, handles, failed>>

\* ADM_terminate_adhoc_storage(); its result is not looked at.
Terminate(p) ==
    /\ pc[p] = "terminate"
    /\ IF adhoc_storage[p] = None
       THEN Crash(p)
       ELSE /\ \/ /\ SlurmOf[p] \in scord_ctl
                  /\ service' = service \ {adhoc_storage[p]}
                  /\ UNCHANGED failed
               \/ /\ Faults \/ SlurmOf[p] \notin scord_ctl
                  /\ Fail(p) /\ UNCHANGED service
            /\ Goto(p, "remove_dir")
            /\ UNCHANGED <<registry, dirs>>
    /\ UNCHANGED <<allocation, opts, handles>>

\* remove_dir_content(adhoc_path) and rmdir(adhoc_path), whose results are
\* not looked at.  opendir(NULL) is undefined.
RemoveDir(p) ==
    /\ pc[p] = "remove_dir"
    /\ \/ /\ adhoc_path[p]
          /\ \/ dirs' = dirs \ {adhoc_storage[p]} /\ UNCHANGED failed
             \/ Faults /\ Fail(p) /\ UNCHANGED dirs
          /\ Goto(p, "remove_job")
          /\ UNCHANGED <<registry, service>>
       \/ /\ ~adhoc_path[p]
          /\ Goto(p, "remove_job")
          /\ UNCHANGED <<registry, storage, failed>>
       \/ ~adhoc_path[p] /\ Crash(p)
    /\ UNCHANGED <<allocation, opts, handles>>

\* ADM_remove_job(), and the handles are freed.  The result of the call is
\* not looked at.
RemoveJob(p) ==
    /\ pc[p] = "remove_job"
    /\ IF scord_job[p] = None
       THEN Crash(p)
       ELSE /\ \/ Scord!RemoveJob(scord_job[p]) /\ UNCHANGED failed
               \/ Faults /\ Fail(p) /\ UNCHANGED registry
            /\ Goto(p, "done")
            /\ UNCHANGED storage
    /\ UNCHANGED <<allocation, opts, handles>>

\* The process is killed, with the node or by Slurm.
Kill(p) ==
    /\ Faults
    /\ pc[p] \notin Ended \cup {"new"}
    /\ Goto(p, "crashed") /\ Fail(p)
    /\ UNCHANGED <<registry, storage, allocation, opts, handles>>

----------------------------------------------------------------------------

PluginStep(p) ==
    \/ RegisterAdhoc(p)
    \/ RegisterJob(p)
    \/ Deploy(p)
    \/ StageIn(p)
    \/ Exit(p)
    \/ StageOut(p)
    \/ Terminate(p)
    \/ RemoveDir(p)
    \/ RemoveJob(p)

Next ==
    \/ \E s \in SlurmIds : Prolog(s) \/ Epilog(s)
    \/ \E p \in JobSteps : Start(p) \/ PluginStep(p) \/ Kill(p)

Spec == Init /\ [][Next]_vars

\* slurmstepd calls both hooks, the application ends by itself or at its
\* time limit, and each call to scord returns, with an answer or an error.
FairSpec == Spec /\ \A p \in JobSteps : WF_vars(PluginStep(p))

----------------------------------------------------------------------------
(* Properties.                                                             *)

\* Job steps, also of the same Slurm job, do not get into each other's way:
\* whatever the others register and remove, the job that a step has the
\* handle of stays registered until the step removes it, with the storage
\* the step registered and as the client of that storage.
StepKeepsItsStorage ==
    \A p \in JobSteps :
        scord_job[p] # None /\ pc[p] \notin Ended =>
            /\ scord_job[p] \in DOMAIN jobs
            /\ jobs[scord_job[p]].adhoc_id = adhoc_storage[p]
            /\ clients[adhoc_storage[p]] = scord_job[p]

Owns(p, a) == adhoc_storage[p] = a /\ (pc[p] \notin Ended \/ failed[p])

\* No leak goes unexplained: a storage service that is up, a working
\* directory that exists or a registered job is the one of a job step that
\* is still at work, or of one for which a call failed, which crashed or
\* which was killed.  scord_unregister_job() leaves nothing else behind.
LeakNeedsFailure ==
    /\ \A a \in service \cup dirs : \E p \in JobSteps : Owns(p, a)
    /\ \A j \in DOMAIN jobs : \E p \in JobSteps : Owns(p, jobs[j].adhoc_id)

(* The inductive invariant.                                                *)

\* A storage handle is that of a storage registered for this step alone.
StorageIsOwn ==
    \A p \in JobSteps : adhoc_storage[p] # None =>
        /\ adhoc_storage[p] \in adhocs
        /\ \A q \in JobSteps \ {p} : adhoc_storage[q] # adhoc_storage[p]

\* Handles appear in the order of the calls, and the first failure ends them.
HandlesInOrder ==
    \A p \in JobSteps :
        /\ scord_job[p] # None => adhoc_storage[p] # None
        /\ pc[p] \in {"new", "register_adhoc"} => adhoc_storage[p] = None
        /\ pc[p] = "register_job" => adhoc_storage[p] # None /\ scord_job[p] = None
        /\ pc[p] = "deploy" => scord_job[p] # None
        /\ pc[p] \in {"new", "register_adhoc", "register_job"} => ~failed[p]

\* Jobs and clients name registered storages, and each other.
RegistryLinked ==
    /\ DOMAIN jobs \subseteq created
    /\ \A j \in DOMAIN jobs : jobs[j].adhoc_id \in adhocs
    /\ \A a \in AdhocIds : clients[a] # None =>
          clients[a] \in DOMAIN jobs /\ jobs[clients[a]].adhoc_id = a

\* A job with the storage of a step is the step's, unless its answer was lost.
JobIsKnown ==
    \A p \in JobSteps, j \in DOMAIN jobs :
        jobs[j].adhoc_id = adhoc_storage[p] => j = scord_job[p] \/ failed[p]

\* How far a step that meets no failure has undone what it did.
CleanSoFar ==
    \A p \in JobSteps : ~failed[p] =>
        /\ pc[p] \in {"stage_in", "application", "stage_out", "terminate",
                      "remove_dir"} => adhoc_path[p]
        /\ pc[p] \in {"remove_dir", "remove_job"} =>
              adhoc_storage[p] \notin service
        /\ pc[p] = "remove_job" => adhoc_storage[p] \notin dirs

\* The inductive invariant: what keeps steps apart and explains every leak.
PluginInv ==
    /\ TypeOK
    /\ StorageIsOwn
    /\ HandlesInOrder
    /\ RegistryLinked
    /\ JobIsKnown
    /\ CleanSoFar
    /\ StepKeepsItsStorage
    /\ LeakNeedsFailure

\* A job step whose storage is about to be deployed comes to its end,
\* however the calls go, and unless one of them fails, with the storage
\* stopped, its directory removed and the job removed from scord.
StepCleansUp ==
    \A p \in JobSteps :
        pc[p] = "deploy" ~>
            /\ pc[p] \in Ended
            /\ ~failed[p] => /\ adhoc_storage[p] \notin service \cup dirs
                             /\ scord_job[p] \notin DOMAIN jobs
============================================================================
