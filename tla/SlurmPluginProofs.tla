------------------------- MODULE SlurmPluginProofs -------------------------
(***************************************************************************)
(* Proofs about SlurmPlugin, for any number of job steps and Slurm jobs.   *)
(* PluginInv says what a step that met no failure has left to undo, and    *)
(* that the storage and the job of a step are nobody else's.               *)
(***************************************************************************)
EXTENDS SlurmPlugin, TLAPS

\* Nothing is registered, deployed or held at first.
LEMMA InitInv == Init => PluginInv
<1> SUFFICES ASSUME Init PROVE PluginInv
  OBVIOUS
<1> USE DEF Init, Scord!Init
<1>1. TypeOK
  BY PluginAssumption DEF TypeOK, PluginSteps, Options
<1>2. StorageIsOwn /\ HandlesInOrder /\ RegistryLinked
  BY DEF StorageIsOwn, HandlesInOrder, RegistryLinked
<1>3. JobIsKnown /\ CleanSoFar
  BY DEF JobIsKnown, CleanSoFar
<1>4. StepKeepsItsStorage /\ LeakNeedsFailure
  BY DEF StepKeepsItsStorage, LeakNeedsFailure
<1> QED
  BY <1>1, <1>2, <1>3, <1>4 DEF PluginInv

\* The prolog touches the allocation only.
LEMMA PrologInv ==
    ASSUME PluginInv, NEW s \in SlurmIds, Prolog(s)
    PROVE  PluginInv'
<1> USE DEF PluginInv, Prolog, Goto, Fail, registry, storage, allocation, handles
<1>1. TypeOK'
  BY PluginAssumption DEF TypeOK, PluginSteps, Ended
<1>2. StorageIsOwn'
  BY DEF TypeOK, StorageIsOwn
<1>3. HandlesInOrder'
  BY DEF TypeOK, HandlesInOrder
<1>4. RegistryLinked'
  BY DEF TypeOK, RegistryLinked
<1>5. JobIsKnown'
  BY DEF TypeOK, JobIsKnown
<1>6. CleanSoFar'
  BY DEF TypeOK, CleanSoFar
<1>7. StepKeepsItsStorage'
  BY DEF TypeOK, StepKeepsItsStorage, Ended
<1>8. LeakNeedsFailure'
  BY DEF TypeOK, LeakNeedsFailure, Owns, Ended
<1> QED
  BY <1>1, <1>2, <1>3, <1>4, <1>5, <1>6, <1>7, <1>8

\* The epilog touches the allocation only.
LEMMA EpilogInv ==
    ASSUME PluginInv, NEW s \in SlurmIds, Epilog(s)
    PROVE  PluginInv'
<1> USE DEF PluginInv, Epilog, Goto, Fail, registry, storage, allocation, handles
<1>1. TypeOK'
  BY PluginAssumption DEF TypeOK, PluginSteps, Ended
<1>2. StorageIsOwn'
  BY DEF TypeOK, StorageIsOwn
<1>3. HandlesInOrder'
  BY DEF TypeOK, HandlesInOrder
<1>4. RegistryLinked'
  BY DEF TypeOK, RegistryLinked
<1>5. JobIsKnown'
  BY DEF TypeOK, JobIsKnown
<1>6. CleanSoFar'
  BY DEF TypeOK, CleanSoFar
<1>7. StepKeepsItsStorage'
  BY DEF TypeOK, StepKeepsItsStorage, Ended
<1>8. LeakNeedsFailure'
  BY DEF TypeOK, LeakNeedsFailure, Owns, Ended
<1> QED
  BY <1>1, <1>2, <1>3, <1>4, <1>5, <1>6, <1>7, <1>8

\* A step that starts holds no handle.
LEMMA StartInv ==
    ASSUME PluginInv, NEW p \in JobSteps, Start(p)
    PROVE  PluginInv'
<1> USE DEF PluginInv, Start, Goto, Fail, registry, storage, allocation, handles
<1>1. TypeOK'
  BY PluginAssumption DEF TypeOK, PluginSteps, Ended
<1>2. StorageIsOwn'
  BY DEF TypeOK, StorageIsOwn
<1>3. HandlesInOrder'
  BY DEF TypeOK, HandlesInOrder
<1>4. RegistryLinked'
  BY DEF TypeOK, RegistryLinked
<1>5. JobIsKnown'
  BY DEF TypeOK, JobIsKnown
<1>6. CleanSoFar'
  BY DEF TypeOK, CleanSoFar
<1>7. StepKeepsItsStorage'
  BY DEF TypeOK, StepKeepsItsStorage, Ended
<1>8. LeakNeedsFailure'
  BY DEF TypeOK, LeakNeedsFailure, Owns, Ended
<1> QED
  BY <1>1, <1>2, <1>3, <1>4, <1>5, <1>6, <1>7, <1>8

\* A new storage has no job, and no other step has it.
LEMMA RegisterAdhocInv ==
    ASSUME PluginInv, NEW p \in JobSteps, RegisterAdhoc(p)
    PROVE  PluginInv'
<1> USE DEF PluginInv
<1>a. /\ UNCHANGED <<jobs, created, slurm_index, clients>>
      /\ UNCHANGED <<storage, allocation, opts, scord_job, adhoc_path>>
      /\ adhocs \subseteq adhocs' /\ adhocs' \subseteq AdhocIds
  BY DEF RegisterAdhoc, Scord!RegisterAdhoc, registry, TypeOK
<1>b. /\ pc[p] = "register_adhoc" /\ adhoc_storage[p] = None
      /\ ~failed[p] /\ scord_job[p] = None
  BY DEF RegisterAdhoc, HandlesInOrder
<1>c. \/ \E a \in AdhocIds \ adhocs :
           a \in adhocs' /\ adhoc_storage' = [adhoc_storage EXCEPT ![p] = a]
      \/ adhoc_storage' = adhoc_storage
  BY DEF RegisterAdhoc, Scord!RegisterAdhoc
<1>d. /\ scord_reqs' \in [JobSteps -> BOOLEAN]
      /\ \/ /\ pc' = [pc EXCEPT ![p] = "register_job"]
            /\ failed' = failed
            /\ adhoc_storage' # adhoc_storage
         \/ /\ pc' = [pc EXCEPT ![p] = "application"]
            /\ failed' = [failed EXCEPT ![p] = TRUE]
  <2>1. CASE failed' = failed /\ pc' = [pc EXCEPT ![p] = "register_job"]
    <3>1. PICK a \in AdhocIds : adhoc_storage' = [adhoc_storage EXCEPT ![p] = a]
      BY <2>1, <1>b DEF RegisterAdhoc, Goto, Fail, TypeOK
    <3>2. adhoc_storage'[p] # None
      BY <3>1, PluginAssumption DEF TypeOK
    <3> QED
      BY <2>1, <1>b, <3>2 DEF RegisterAdhoc, TypeOK
  <2>2. CASE /\ failed' = [failed EXCEPT ![p] = TRUE]
             /\ pc' = [pc EXCEPT ![p] = "application"]
    BY <2>2 DEF RegisterAdhoc, TypeOK
  <2> QED
    BY <2>1, <2>2 DEF RegisterAdhoc, Goto, Fail
<1>1. TypeOK'
  <2>1. pc' \in [JobSteps -> PluginSteps]
    BY <1>d DEF TypeOK, PluginSteps
  <2>2. failed' \in [JobSteps -> BOOLEAN]
    BY <1>d DEF TypeOK
  <2>3. adhoc_storage' \in [JobSteps -> AdhocIds \cup {None}]
    BY <1>c DEF TypeOK
  <2>4. scord_reqs' \in [JobSteps -> BOOLEAN]
    BY <1>d
  <2> QED
    BY <1>a, <2>1, <2>2, <2>3, <2>4 DEF TypeOK, storage, allocation
<1>2. StorageIsOwn'
  BY <1>a, <1>b, <1>c DEF TypeOK, StorageIsOwn
<1>3. HandlesInOrder'
  BY <1>a, <1>b, <1>c, <1>d, PluginAssumption DEF TypeOK, HandlesInOrder
<1>4. RegistryLinked'
  BY <1>a DEF RegistryLinked
<1>5. JobIsKnown'
  <2>1. \A q \in JobSteps \ {p} :
            adhoc_storage'[q] = adhoc_storage[q] /\ failed'[q] = failed[q]
    BY <1>c, <1>d DEF TypeOK
  <2>2. \A j \in DOMAIN jobs : jobs[j].adhoc_id = adhoc_storage'[p] => failed'[p]
    BY <1>a, <1>b, <1>c, <1>d, PluginAssumption DEF TypeOK, RegistryLinked
  <2> QED
    BY <2>1, <2>2, <1>a DEF JobIsKnown
<1>6. CleanSoFar'
  BY <1>a, <1>b, <1>c, <1>d DEF TypeOK, CleanSoFar, storage
<1>7. StepKeepsItsStorage'
  BY <1>a, <1>b, <1>c, <1>d DEF TypeOK, StepKeepsItsStorage, Ended
<1>8. LeakNeedsFailure'
  <2>1. \A q \in JobSteps, a \in AdhocIds : Owns(q, a) => Owns(q, a)'
    BY <1>b, <1>c, <1>d, PluginAssumption DEF TypeOK, Owns, Ended
  <2> QED
    BY <2>1, <1>a DEF TypeOK, LeakNeedsFailure, RegistryLinked, storage
<1> QED
  BY <1>1, <1>2, <1>3, <1>4, <1>5, <1>6, <1>7, <1>8

\* A new job takes the storage of its step, which is free.
LEMMA RegisterJobInv ==
    ASSUME PluginInv, NEW p \in JobSteps, RegisterJob(p)
    PROVE  PluginInv'
<1> USE DEF PluginInv
<1> DEFINE a == adhoc_storage[p]
<1>a. /\ pc[p] = "register_job" /\ a \in adhocs /\ a # None
      /\ scord_job[p] = None /\ ~failed[p]
      /\ clients[a] = None
      /\ \A j \in DOMAIN jobs : jobs[j].adhoc_id # a
  <2>1. /\ pc[p] = "register_job" /\ a \in adhocs /\ a # None
        /\ scord_job[p] = None /\ ~failed[p]
    BY DEF RegisterJob, HandlesInOrder, StorageIsOwn
  <2>2. \A j \in DOMAIN jobs : jobs[j].adhoc_id # a
    BY <2>1, PluginAssumption DEF TypeOK, JobIsKnown
  <2> QED
    BY <2>1, <2>2 DEF TypeOK, RegistryLinked
<1>b. UNCHANGED <<storage, allocation, opts, adhoc_storage, scord_reqs,
                  adhoc_path>>
  BY DEF RegisterJob
<1>c. CASE /\ UNCHANGED <<registry, scord_job>>
           /\ Goto(p, "application") /\ Fail(p)
  <2> USE <1>a, <1>b, <1>c DEF Goto, Fail, registry, storage, allocation
  <2>1. TypeOK' /\ StorageIsOwn' /\ HandlesInOrder' /\ RegistryLinked'
    BY DEF TypeOK, PluginSteps, StorageIsOwn, HandlesInOrder, RegistryLinked
  <2>2. JobIsKnown' /\ CleanSoFar' /\ StepKeepsItsStorage'
    BY DEF TypeOK, JobIsKnown, CleanSoFar, StepKeepsItsStorage, Ended
  <2>3. LeakNeedsFailure'
    BY DEF TypeOK, LeakNeedsFailure, Owns, Ended
  <2> QED
    BY <2>1, <2>2, <2>3
<1>d. ASSUME NEW j \in JobIds, NEW n \in NodeCounts,
             Scord!RegisterJob(j, SlurmOf[p], a, n),
             \/ /\ scord_job' = [scord_job EXCEPT ![p] = j]
                /\ Goto(p, "deploy") /\ UNCHANGED failed
             \/ /\ UNCHANGED scord_job
                /\ Goto(p, "application") /\ Fail(p)
      PROVE  PluginInv'
  <2>a. /\ j \notin created /\ j \notin DOMAIN jobs
        /\ DOMAIN jobs' = DOMAIN jobs \cup {j}
        /\ jobs'[j].adhoc_id = a
        /\ \A k \in DOMAIN jobs : jobs'[k] = jobs[k]
        /\ created' = created \cup {j}
        /\ adhocs' = adhocs
        /\ clients' = [clients EXCEPT ![a] = j]
    BY <1>a, <1>d DEF Scord!RegisterJob, TypeOK, RegistryLinked
  <2>b. \/ /\ scord_job' = [scord_job EXCEPT ![p] = j]
           /\ pc' = [pc EXCEPT ![p] = "deploy"] /\ failed' = failed
        \/ /\ scord_job' = scord_job
           /\ pc' = [pc EXCEPT ![p] = "application"]
           /\ failed' = [failed EXCEPT ![p] = TRUE]
    BY <1>d DEF Goto, Fail
  <2>1. TypeOK'
    <3>1. slurm_index' \in [SlurmIds -> JobIds \cup {None}]
      BY <1>d DEF Scord!RegisterJob, TypeOK
    <3>2. DOMAIN jobs' \subseteq JobIds /\ created' \subseteq JobIds
      BY <2>a DEF TypeOK
    <3>3. clients' \in [AdhocIds -> JobIds \cup {None}]
      BY <1>a, <2>a DEF TypeOK
    <3>4. scord_job' \in [JobSteps -> JobIds \cup {None}]
      BY <2>b DEF TypeOK
    <3>5. pc' \in [JobSteps -> PluginSteps]
      BY <2>b DEF TypeOK, PluginSteps
    <3>6. failed' \in [JobSteps -> BOOLEAN]
      BY <2>b DEF TypeOK
    <3> QED
      BY <3>1, <3>2, <3>3, <3>4, <3>5, <3>6, <1>b, <2>a
      DEF TypeOK, storage, allocation
  <2>2. StorageIsOwn'
    BY <1>b, <2>a DEF StorageIsOwn
  <2>3. HandlesInOrder'
    BY <1>a, <1>b, <2>b, PluginAssumption DEF TypeOK, HandlesInOrder
  <2>4. RegistryLinked'
    BY <1>a, <2>a, PluginAssumption DEF TypeOK, RegistryLinked
  <2>5. JobIsKnown'
    <3>1. ASSUME NEW q \in JobSteps, NEW k \in DOMAIN jobs',
                 jobs'[k].adhoc_id = adhoc_storage'[q]
          PROVE  k = scord_job'[q] \/ failed'[q]
      <4>1. CASE k = j
        <5>1. q = p
          BY <4>1, <3>1, <1>a, <1>b, <2>a DEF StorageIsOwn
        <5> QED
          BY <5>1, <4>1, <2>b DEF TypeOK
      <4>2. CASE k # j
        BY <4>2, <3>1, <1>a, <1>b, <2>a, <2>b DEF TypeOK, JobIsKnown
      <4> QED
        BY <4>1, <4>2
    <3> QED
      BY <3>1 DEF JobIsKnown
  <2>6. CleanSoFar'
    BY <1>b, <2>b DEF TypeOK, CleanSoFar, storage
  <2>7. StepKeepsItsStorage'
    <3>1. ASSUME NEW q \in JobSteps, q # p, scord_job[q] # None
          PROVE  adhoc_storage[q] # a /\ adhoc_storage[q] \in AdhocIds
      BY <3>1, <1>a DEF TypeOK, StorageIsOwn, HandlesInOrder
    <3> QED
      BY <3>1, <1>a, <1>b, <2>a, <2>b
      DEF TypeOK, StepKeepsItsStorage, Ended
  <2>8. LeakNeedsFailure'
    <3>1. \A q \in JobSteps, b \in AdhocIds : Owns(q, b) => Owns(q, b)'
      BY <1>a, <1>b, <2>b DEF TypeOK, Owns, Ended
    <3>2. Owns(p, a)'
      BY <1>b, <2>b DEF TypeOK, Owns, Ended
    <3> QED
      BY <3>1, <3>2, <1>b, <2>a
      DEF TypeOK, LeakNeedsFailure, RegistryLinked, storage
  <2> QED
    BY <2>1, <2>2, <2>3, <2>4, <2>5, <2>6, <2>7, <2>8
<1> QED
  BY <1>c, <1>d DEF RegisterJob, RegisterJobAs

\* What is deployed belongs to the step that deploys it.
LEMMA DeployInv ==
    ASSUME PluginInv, NEW p \in JobSteps, Deploy(p)
    PROVE  PluginInv'
<1> USE DEF PluginInv, Deploy, Goto, Fail, registry, storage, allocation, handles
<1>1. TypeOK'
  <2>1. pc' \in [JobSteps -> PluginSteps]
    BY DEF TypeOK, PluginSteps, Ended
  <2>2. failed' \in [JobSteps -> BOOLEAN]
    BY DEF TypeOK
  <2>3. service' \subseteq AdhocIds /\ dirs' \subseteq AdhocIds
    BY PluginAssumption DEF TypeOK, HandlesInOrder
  <2>4. UNCHANGED <<jobs, created, slurm_index, adhocs, clients>>
    OBVIOUS
  <2>5. adhoc_path' \in [JobSteps -> BOOLEAN]
    BY DEF TypeOK
  <2>6. /\ UNCHANGED <<adhoc_storage, scord_reqs, scord_job>>
        /\ UNCHANGED <<alloc, scord_ctl, cargo, opts>>
    OBVIOUS
  <2> HIDE DEF Deploy, Goto, Fail
  <2> QED
    BY <2>1, <2>2, <2>3, <2>4, <2>5, <2>6 DEF TypeOK
<1>2. StorageIsOwn'
  BY DEF TypeOK, StorageIsOwn
<1>3. HandlesInOrder'
  BY DEF TypeOK, HandlesInOrder
<1>4. RegistryLinked'
  BY DEF TypeOK, RegistryLinked
<1>5. JobIsKnown'
  BY DEF TypeOK, JobIsKnown
<1>6. CleanSoFar'
  BY DEF TypeOK, CleanSoFar, StorageIsOwn, HandlesInOrder
<1>7. StepKeepsItsStorage'
  BY DEF TypeOK, StepKeepsItsStorage, Ended
<1>8. LeakNeedsFailure'
  BY DEF TypeOK, LeakNeedsFailure, Owns, Ended
<1> QED
  BY <1>1, <1>2, <1>3, <1>4, <1>5, <1>6, <1>7, <1>8

\* A failed stage-in is a failure of the step.
LEMMA StageInInv ==
    ASSUME PluginInv, NEW p \in JobSteps, StageIn(p)
    PROVE  PluginInv'
<1> USE DEF PluginInv, StageIn, Goto, Fail, registry, storage, allocation, handles
<1>1. TypeOK'
  BY PluginAssumption DEF TypeOK, PluginSteps, Ended
<1>2. StorageIsOwn'
  BY DEF TypeOK, StorageIsOwn
<1>3. HandlesInOrder'
  BY DEF TypeOK, HandlesInOrder
<1>4. RegistryLinked'
  BY DEF TypeOK, RegistryLinked
<1>5. JobIsKnown'
  BY DEF TypeOK, JobIsKnown
<1>6. CleanSoFar'
  BY DEF TypeOK, CleanSoFar
<1>7. StepKeepsItsStorage'
  BY DEF TypeOK, StepKeepsItsStorage, Ended
<1>8. LeakNeedsFailure'
  BY DEF TypeOK, LeakNeedsFailure, Owns, Ended
<1> QED
  BY <1>1, <1>2, <1>3, <1>4, <1>5, <1>6, <1>7, <1>8

\* A step that goes to the end at once has failed.
LEMMA ExitInv ==
    ASSUME PluginInv, NEW p \in JobSteps, Exit(p)
    PROVE  PluginInv'
<1> USE DEF PluginInv, Exit, Goto, Fail, registry, storage, allocation, handles
<1>1. TypeOK'
  BY PluginAssumption DEF TypeOK, PluginSteps, Ended
<1>2. StorageIsOwn'
  BY DEF TypeOK, StorageIsOwn
<1>3. HandlesInOrder'
  BY DEF TypeOK, HandlesInOrder
<1>4. RegistryLinked'
  BY DEF TypeOK, RegistryLinked
<1>5. JobIsKnown'
  BY DEF TypeOK, JobIsKnown
<1>6. CleanSoFar'
  BY DEF TypeOK, CleanSoFar
<1>7. StepKeepsItsStorage'
  BY DEF TypeOK, StepKeepsItsStorage, Ended
<1>8. LeakNeedsFailure'
  BY DEF TypeOK, LeakNeedsFailure, Owns, Ended
<1> QED
  BY <1>1, <1>2, <1>3, <1>4, <1>5, <1>6, <1>7, <1>8

\* A step whose stage-out fails has failed.
LEMMA StageOutInv ==
    ASSUME PluginInv, NEW p \in JobSteps, StageOut(p)
    PROVE  PluginInv'
<1> USE DEF PluginInv, StageOut, Goto, Fail, registry, storage, allocation, handles, Crash
<1>1. TypeOK'
  <2>1. pc' \in [JobSteps -> PluginSteps]
    BY DEF TypeOK, PluginSteps, Ended
  <2>2. failed' \in [JobSteps -> BOOLEAN]
    BY DEF TypeOK
  <2>3. service' \subseteq AdhocIds /\ dirs' \subseteq AdhocIds
    BY DEF TypeOK
  <2>4. UNCHANGED <<jobs, created, slurm_index, adhocs, clients>>
    OBVIOUS
  <2>5. adhoc_path' \in [JobSteps -> BOOLEAN]
    BY DEF TypeOK
  <2>6. /\ UNCHANGED <<adhoc_storage, scord_reqs, scord_job>>
        /\ UNCHANGED <<alloc, scord_ctl, cargo, opts>>
    OBVIOUS
  <2> HIDE DEF StageOut, Goto, Fail
  <2> QED
    BY <2>1, <2>2, <2>3, <2>4, <2>5, <2>6 DEF TypeOK
<1>2. StorageIsOwn'
  BY DEF TypeOK, StorageIsOwn
<1>3. HandlesInOrder'
  BY DEF TypeOK, HandlesInOrder
<1>4. RegistryLinked'
  BY DEF TypeOK, RegistryLinked
<1>5. JobIsKnown'
  BY DEF TypeOK, JobIsKnown
<1>6. CleanSoFar'
  BY DEF TypeOK, CleanSoFar
<1>7. StepKeepsItsStorage'
  BY DEF TypeOK, StepKeepsItsStorage, Ended
<1>8. LeakNeedsFailure'
  BY DEF TypeOK, LeakNeedsFailure, Owns, Ended
<1> QED
  BY <1>1, <1>2, <1>3, <1>4, <1>5, <1>6, <1>7, <1>8

\* Without a failure, the service is down afterwards.
LEMMA TerminateInv ==
    ASSUME PluginInv, NEW p \in JobSteps, Terminate(p)
    PROVE  PluginInv'
<1> USE DEF PluginInv, Terminate, Goto, Fail, registry, storage, allocation, handles, Crash
<1>1. TypeOK'
  <2>1. pc' \in [JobSteps -> PluginSteps]
    BY DEF TypeOK, PluginSteps, Ended
  <2>2. failed' \in [JobSteps -> BOOLEAN]
    BY DEF TypeOK
  <2>3. service' \subseteq AdhocIds /\ dirs' \subseteq AdhocIds
    BY DEF TypeOK
  <2>4. UNCHANGED <<jobs, created, slurm_index, adhocs, clients>>
    OBVIOUS
  <2>5. adhoc_path' \in [JobSteps -> BOOLEAN]
    BY DEF TypeOK
  <2>6. /\ UNCHANGED <<adhoc_storage, scord_reqs, scord_job>>
        /\ UNCHANGED <<alloc, scord_ctl, cargo, opts>>
    OBVIOUS
  <2> HIDE DEF Terminate, Goto, Fail
  <2> QED
    BY <2>1, <2>2, <2>3, <2>4, <2>5, <2>6 DEF TypeOK
<1>2. StorageIsOwn'
  BY DEF TypeOK, StorageIsOwn
<1>3. HandlesInOrder'
  BY DEF TypeOK, HandlesInOrder
<1>4. RegistryLinked'
  BY DEF TypeOK, RegistryLinked
<1>5. JobIsKnown'
  BY DEF TypeOK, JobIsKnown
<1>6. CleanSoFar'
  BY DEF TypeOK, CleanSoFar
<1>7. StepKeepsItsStorage'
  BY DEF TypeOK, StepKeepsItsStorage, Ended
<1>8. LeakNeedsFailure'
  BY DEF TypeOK, LeakNeedsFailure, Owns, Ended
<1> QED
  BY <1>1, <1>2, <1>3, <1>4, <1>5, <1>6, <1>7, <1>8

\* Without a failure, the directory is gone afterwards.
LEMMA RemoveDirInv ==
    ASSUME PluginInv, NEW p \in JobSteps, RemoveDir(p)
    PROVE  PluginInv'
<1> USE DEF PluginInv, RemoveDir, Goto, Fail, registry, storage, allocation, handles, Crash
<1>1. TypeOK'
  <2>1. pc' \in [JobSteps -> PluginSteps]
    BY DEF TypeOK, PluginSteps, Ended
  <2>2. failed' \in [JobSteps -> BOOLEAN]
    BY DEF TypeOK
  <2>3. service' \subseteq AdhocIds /\ dirs' \subseteq AdhocIds
    BY DEF TypeOK
  <2>4. UNCHANGED <<jobs, created, slurm_index, adhocs, clients>>
    OBVIOUS
  <2>5. adhoc_path' \in [JobSteps -> BOOLEAN]
    BY DEF TypeOK
  <2>6. /\ UNCHANGED <<adhoc_storage, scord_reqs, scord_job>>
        /\ UNCHANGED <<alloc, scord_ctl, cargo, opts>>
    OBVIOUS
  <2> HIDE DEF RemoveDir, Goto, Fail
  <2> QED
    BY <2>1, <2>2, <2>3, <2>4, <2>5, <2>6 DEF TypeOK
<1>2. StorageIsOwn'
  BY DEF TypeOK, StorageIsOwn
<1>3. HandlesInOrder'
  BY DEF TypeOK, HandlesInOrder
<1>4. RegistryLinked'
  BY DEF TypeOK, RegistryLinked
<1>5. JobIsKnown'
  BY DEF TypeOK, JobIsKnown
<1>6. CleanSoFar'
  BY DEF TypeOK, CleanSoFar
<1>7. StepKeepsItsStorage'
  BY DEF TypeOK, StepKeepsItsStorage, Ended
<1>8. LeakNeedsFailure'
  BY DEF TypeOK, LeakNeedsFailure, Owns, Ended
<1> QED
  BY <1>1, <1>2, <1>3, <1>4, <1>5, <1>6, <1>7, <1>8

\* A step that is done without failing leaves nothing.
LEMMA RemoveJobInv ==
    ASSUME PluginInv, NEW p \in JobSteps, RemoveJob(p)
    PROVE  PluginInv'
<1> USE DEF PluginInv
<1> DEFINE j == scord_job[p]
<1> DEFINE a == adhoc_storage[p]
<1>a. pc[p] = "remove_job" /\ UNCHANGED <<storage, allocation, opts, handles>>
  BY DEF RemoveJob, Crash
<1>b. CASE /\ UNCHANGED registry /\ Fail(p)
           /\ Goto(p, "done") \/ Goto(p, "crashed")
  <2> USE <1>a, <1>b DEF Goto, Fail, registry, storage, allocation, handles
  <2>1. TypeOK' /\ StorageIsOwn' /\ HandlesInOrder' /\ RegistryLinked'
    BY DEF TypeOK, PluginSteps, Ended, StorageIsOwn, HandlesInOrder,
           RegistryLinked
  <2>2. JobIsKnown' /\ CleanSoFar' /\ StepKeepsItsStorage'
    BY DEF TypeOK, JobIsKnown, CleanSoFar, StepKeepsItsStorage, Ended
  <2>3. LeakNeedsFailure'
    BY DEF TypeOK, LeakNeedsFailure, Owns, Ended
  <2> QED
    BY <2>1, <2>2, <2>3
<1>c. CASE /\ j # None /\ Scord!RemoveJob(j)
           /\ UNCHANGED failed /\ Goto(p, "done")
  <2>a. /\ j \in DOMAIN jobs /\ a \in AdhocIds /\ a \in adhocs
        /\ jobs[j].adhoc_id = a /\ clients[a] = j
    BY <1>a, <1>c
    DEF TypeOK, StepKeepsItsStorage, HandlesInOrder, StorageIsOwn, Ended
  <2>b. /\ DOMAIN jobs' = DOMAIN jobs \ {j}
        /\ \A k \in DOMAIN jobs' : jobs'[k] = jobs[k]
        /\ clients' = [clients EXCEPT ![a] = None]
        /\ created' = created /\ adhocs' = adhocs
        /\ slurm_index' \in [SlurmIds -> JobIds \cup {None}]
    BY <1>c, <2>a DEF Scord!RemoveJob, TypeOK
  <2>c. failed' = failed /\ pc' = [pc EXCEPT ![p] = "done"]
    BY <1>c DEF Goto
  <2>1. TypeOK'
    BY <1>a, <2>b, <2>c
    DEF TypeOK, PluginSteps, Ended, storage, allocation, handles
  <2>2. StorageIsOwn'
    BY <1>a, <2>b DEF StorageIsOwn, handles
  <2>3. HandlesInOrder'
    BY <1>a, <2>c DEF TypeOK, HandlesInOrder, handles
  <2>4. RegistryLinked'
    BY <2>a, <2>b DEF TypeOK, RegistryLinked
  <2>5. JobIsKnown'
    BY <1>a, <2>b, <2>c DEF JobIsKnown, handles
  <2>6. CleanSoFar'
    BY <1>a, <2>c DEF TypeOK, CleanSoFar, storage, handles
  <2>7. StepKeepsItsStorage'
    <3>1. ASSUME NEW q \in JobSteps, q # p, scord_job[q] # None,
                 pc[q] \notin Ended
          PROVE  /\ adhoc_storage[q] # a /\ adhoc_storage[q] \in AdhocIds
                 /\ scord_job[q] # j
      BY <3>1, <2>a DEF TypeOK, StorageIsOwn, HandlesInOrder, StepKeepsItsStorage
    <3> QED
      BY <3>1, <1>a, <2>b, <2>c DEF TypeOK, StepKeepsItsStorage, Ended, handles
  <2>8. LeakNeedsFailure'
    <3> DEFINE StillOwns(q, b) == /\ adhoc_storage'[q] = b
                                  /\ pc'[q] \notin Ended \/ failed'[q]
    <3>1. ASSUME NEW q \in JobSteps, NEW b \in AdhocIds, Owns(q, b),
                 b # a \/ failed[p]
          PROVE  StillOwns(q, b)
      BY <3>1, <1>a, <2>c DEF TypeOK, Owns, Ended, handles
    <3>2. ~failed[p] => a \notin service \cup dirs
      BY <1>a DEF CleanSoFar
    <3>3. \A k \in DOMAIN jobs' : jobs'[k].adhoc_id # a \/ failed[p]
      BY <2>b DEF JobIsKnown
    <3>4. \A b \in service' \cup dirs' : \E q \in JobSteps : StillOwns(q, b)
      BY <3>1, <3>2, <1>a DEF TypeOK, LeakNeedsFailure, storage
    <3>5. ASSUME NEW k \in DOMAIN jobs'
          PROVE  \E q \in JobSteps : StillOwns(q, jobs'[k].adhoc_id)
      <4>1. jobs'[k] = jobs[k] /\ jobs[k].adhoc_id \in AdhocIds
        BY <2>b DEF TypeOK, RegistryLinked
      <4>2. PICK q \in JobSteps : Owns(q, jobs[k].adhoc_id)
        BY <2>b DEF LeakNeedsFailure
      <4>3. StillOwns(q, jobs[k].adhoc_id)
        BY <3>1, <3>3, <4>1, <4>2
      <4> QED
        BY <4>1, <4>3
    <3> QED
      BY <3>4, <3>5 DEF LeakNeedsFailure, Owns
  <2> QED
    BY <2>1, <2>2, <2>3, <2>4, <2>5, <2>6, <2>7, <2>8
<1> QED
  BY <1>b, <1>c DEF RemoveJob, Crash

\* A step that is killed has failed.
LEMMA KillInv ==
    ASSUME PluginInv, NEW p \in JobSteps, Kill(p)
    PROVE  PluginInv'
<1> USE DEF PluginInv, Kill, Goto, Fail, registry, storage, allocation, handles
<1>1. TypeOK'
  BY PluginAssumption DEF TypeOK, PluginSteps, Ended
<1>2. StorageIsOwn'
  BY DEF TypeOK, StorageIsOwn
<1>3. HandlesInOrder'
  BY DEF TypeOK, HandlesInOrder
<1>4. RegistryLinked'
  BY DEF TypeOK, RegistryLinked
<1>5. JobIsKnown'
  BY DEF TypeOK, JobIsKnown
<1>6. CleanSoFar'
  BY DEF TypeOK, CleanSoFar
<1>7. StepKeepsItsStorage'
  BY DEF TypeOK, StepKeepsItsStorage, Ended
<1>8. LeakNeedsFailure'
  BY DEF TypeOK, LeakNeedsFailure, Owns, Ended
<1> QED
  BY <1>1, <1>2, <1>3, <1>4, <1>5, <1>6, <1>7, <1>8

\* Stuttering changes nothing.
LEMMA StutterInv == PluginInv /\ UNCHANGED vars => PluginInv'
BY DEF PluginInv, TypeOK, StorageIsOwn, HandlesInOrder, RegistryLinked,
       JobIsKnown, CleanSoFar, StepKeepsItsStorage, LeakNeedsFailure, Owns,
       vars, registry, storage, allocation, handles

\* The invariant holds whatever fails and however the steps interleave.
THEOREM PluginInvariant == Spec => []PluginInv
<1>1. PluginInv /\ [Next]_vars => PluginInv'
  BY PrologInv, EpilogInv, StartInv, RegisterAdhocInv, RegisterJobInv,
     DeployInv, StageInInv, ExitInv, StageOutInv, TerminateInv, RemoveDirInv,
     RemoveJobInv, KillInv, StutterInv DEF Next, PluginStep
<1> QED
  BY InitInv, <1>1, PTL DEF Spec

\* Every variable of the plugin has its type.
THEOREM PluginTypes == Spec => []TypeOK
BY PluginInvariant, PTL DEF PluginInv

\* Job steps keep the storage and the job they registered: see
\* scord_register_job() and scord_unregister_job().
THEOREM StepsAreApart == Spec => []StepKeepsItsStorage
BY PluginInvariant, PTL DEF PluginInv

\* What scord_unregister_job() leaves behind has a failure for a reason.
THEOREM LeaksAreFailures == Spec => []LeakNeedsFailure
BY PluginInvariant, PTL DEF PluginInv

\* What a step of the plugin does to scord is one of scord's operations, with
\* arguments that scord knows, or nothing.
LEMMA StepUsesRegistry ==
    ASSUME TypeOK, NEW p \in JobSteps, PluginStep(p)
    PROVE  Scord!Next \/ UNCHANGED registry
<1>1. ASSUME NEW a \in AdhocIds, Scord!RegisterAdhoc(a)
      PROVE  Scord!Next
  BY <1>1 DEF Scord!Next
<1>2. ASSUME NEW j \in JobIds, RegisterJobAs(p, j)
      PROVE  Scord!Next
  <2>1. PICK n \in NodeCounts : Scord!RegisterJob(j, SlurmOf[p], adhoc_storage[p], n)
    BY <1>2 DEF RegisterJobAs
  <2>2. SlurmOf[p] \in SlurmIds /\ adhoc_storage[p] \in AdhocIds \cup {None}
    BY PluginAssumption DEF TypeOK
  <2> QED
    BY <2>1, <2>2 DEF Scord!Next
<1>3. ASSUME scord_job[p] # None, Scord!RemoveJob(scord_job[p])
      PROVE  Scord!Next
  <2>1. scord_job[p] \in JobIds
    BY <1>3 DEF TypeOK
  <2> QED
    BY <1>3, <2>1 DEF Scord!Next
<1>4. CASE RegisterAdhoc(p)
  BY <1>1, <1>4 DEF RegisterAdhoc
<1>5. CASE RegisterJob(p)
  BY <1>2, <1>5 DEF RegisterJob
<1>6. CASE RemoveJob(p)
  BY <1>3, <1>6 DEF RemoveJob, Crash
<1>7. CASE Deploy(p) \/ StageIn(p) \/ Exit(p)
  BY <1>7 DEF Deploy, StageIn, Exit
<1>8. CASE StageOut(p) \/ Terminate(p) \/ RemoveDir(p)
  BY <1>8 DEF StageOut, Terminate, RemoveDir, Crash
<1> QED
  BY <1>4, <1>5, <1>6, <1>7, <1>8 DEF PluginStep

\* Together, the steps of all jobs use scord as AtomicRegistry lets them: calls
\* that are lost or whose answer is lost included, every change of scord's
\* registry is one whole operation (slurmadmcli.c:586,
\* :608 and :999).
THEOREM PluginUsesRegistry == Spec => Scord!Spec
<1>1. Init => Scord!Init
  BY DEF Init
<1>2. TypeOK /\ [Next]_vars => [Scord!Next]_(Scord!vars)
  <2> SUFFICES ASSUME TypeOK, [Next]_vars
               PROVE  Scord!Next \/ UNCHANGED registry
    BY DEF registry, Scord!vars
  <2>1. ASSUME NEW s \in SlurmIds, Prolog(s) \/ Epilog(s)
        PROVE  UNCHANGED registry
    BY <2>1 DEF Prolog, Epilog
  <2>2. ASSUME NEW p \in JobSteps, Start(p) \/ Kill(p)
        PROVE  UNCHANGED registry
    BY <2>2 DEF Start, Kill
  <2>3. CASE UNCHANGED vars
    BY <2>3 DEF vars
  <2> QED
    BY <2>1, <2>2, <2>3, StepUsesRegistry DEF Next
<1> QED
  BY <1>1, <1>2, PluginTypes, PTL DEF Spec, Scord!Spec
============================================================================
