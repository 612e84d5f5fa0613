------------------------- MODULE ManagersAtomicity --------------------------
(***************************************************************************)
(* Managers implements AtomicManagers, for every number of handlers and of *)
(* requests: with its locks, every operation of the job manager and of the *)
(* PFS storage manager takes effect, and has its answer, in one step.      *)
(***************************************************************************)
EXTENDS ManagersProofs, FiniteSetTheorems

\* A handler answers once, when its work in the tables is done; until then it
\* works on the id it was asked for.
AnswersFit ==
    \A h \in Handlers :
        /\ pc[h] = "idle" => req[h] = None
        /\ pc[h] \in {"idle", "draw", "lock", "body", "nested", "find"} =>
              resp[h] = None
        /\ pc[h] \in {"lock", "body"} /\ Op(h) \notin Registrations =>
              id[h] = req[h].of

\* The entry that find_by_slurm_id() has read stays until its find() returns.
EntryStays ==
    \A h \in Handlers :
        pc[h] \in {"nested", "find"} =>
            /\ req[h].slurm_id \in DOMAIN m_slurm_to_scord
            /\ m_slurm_to_scord[req[h].slurm_id] = id[h]

\* Handlers that have drawn an id and not yet used it.
Drawn(op) == {h \in Handlers : pc[h] \in {"lock", "body"} /\ Op(h) = op}
TableOf(op) == IF op = "register_job" THEN DOMAIN m_jobs ELSE DOMAIN m_pfs_storages

\* An id is drawn by one handler, and is in no table before it is used.
IdsFresh ==
    \A op \in Registrations :
        /\ \A i \in TableOf(op) : i < current_id[MutexOf(op)]
        /\ \A h \in Drawn(op) : /\ id[h] < current_id[MutexOf(op)]
                                /\ id[h] \notin TableOf(op)
        /\ \A h, g \in Drawn(op) : id[h] = id[g] => h = g

\* As many ids are drawn as there are registrations that got to draw theirs.
HasDrawn(op) == {h \in Asked(op) : pc[h] # "draw"}
IdsBounded ==
    \A op \in Registrations :
        /\ IsFiniteSet(Asked(op))
        /\ Cardinality(Asked(op)) <= MaxId
        /\ current_id[MutexOf(op)] = Cardinality(HasDrawn(op))

AtomicInv == AnswersFit /\ EntryStays /\ IdsFresh /\ IdsBounded

----------------------------------------------------------------------------
(* The ids.                                                                *)

\* Nothing has been asked or drawn in the initial state.
LEMMA InitAtomicInv == Init => AtomicInv
<1> SUFFICES ASSUME Init PROVE AtomicInv
  OBVIOUS
<1>1. AnswersFit /\ EntryStays
  BY DEF Init, AnswersFit, EntryStays
<1>2. IdsFresh
  BY DEF Init, IdsFresh, Drawn, TableOf
<1>3. ASSUME NEW op \in Registrations
      PROVE  Asked(op) = {} /\ HasDrawn(op) = {} /\ current_id[MutexOf(op)] = 0
  BY MutexTypes DEF Init, Asked, HasDrawn
<1>4. IdsBounded
  BY <1>3, FS_EmptySet, ManagersAssumption DEF IdsBounded
<1> QED
  BY <1>1, <1>2, <1>4 DEF AtomicInv

\* Steps that draw no id.
LEMMA NoneDrawn ==
    ASSUME IdsBounded, UNCHANGED <<req, current_id>>, NEW h \in Handlers,
           NEW s, s # "draw", pc[h] # "draw", TypeOK, pc' = [pc EXCEPT ![h] = s]
    PROVE  IdsBounded'
<1>1. ASSUME NEW op \in Registrations
      PROVE  Asked(op)' = Asked(op) /\ HasDrawn(op)' = HasDrawn(op)
  BY DEF Asked, HasDrawn, Op, TypeOK
<1> QED
  BY <1>1 DEF IdsBounded

\* Steps that use no id but that of their own handler.
LEMMA FreshStays ==
    ASSUME IdsFresh, NEW h \in Handlers, UNCHANGED current_id,
           \A op \in Registrations : Drawn(op)' \subseteq Drawn(op),
           \A op \in Registrations : \A g \in Drawn(op)' : id'[g] = id[g],
           \A op \in Registrations : \A i \in TableOf(op)' :
               \/ i \in TableOf(op)
               \/ h \in Drawn(op) /\ h \notin Drawn(op)' /\ i = id[h]
    PROVE  IdsFresh'
BY DEF IdsFresh

\* What a step that takes effect on the tables, or reads them, leaves as it is.
LEMMA BodyStep ==
    ASSUME IInv, AtomicInv, NEW h \in Handlers, NEW s,
           s \notin {"idle", "draw", "lock", "body"},
           pc[h] \in {"body", "index", "nested", "find", "release", "unlock"},
           pc' = [pc EXCEPT ![h] = s], UNCHANGED <<req, current_id>>,
           \A g \in Handlers \ {h} : id'[g] = id[g] /\ resp'[g] = resp[g],
           s \in {"nested", "find"} => UNCHANGED resp /\ pc[h] \in {"body", "nested", "find"},
           \A op \in Registrations : \A i \in TableOf(op)' :
               i \in TableOf(op) \/ (h \in Drawn(op) /\ i = id[h])
    PROVE  AnswersFit' /\ IdsFresh' /\ IdsBounded'
<1> USE DEF IInv, LockInv, AtomicInv
<1>1. /\ pc'[h] = s /\ pc \in [Handlers -> Steps]
      /\ \A g \in Handlers \ {h} : pc'[g] = pc[g]
  BY DEF TypeOK
<1>2. AnswersFit'
  BY <1>1 DEF AnswersFit, Op
<1>3. \A op \in Registrations : Drawn(op)' = Drawn(op) \ {h}
  BY <1>1 DEF Drawn, Op
<1>4. IdsFresh'
  <2>1. \A op \in Registrations : Drawn(op)' \subseteq Drawn(op)
    BY <1>3
  <2>2. \A op \in Registrations : \A g \in Drawn(op)' : id'[g] = id[g]
    BY <1>3 DEF Drawn
  <2>3. \A op \in Registrations : \A i \in TableOf(op)' :
           i \in TableOf(op) \/ (h \in Drawn(op) /\ h \notin Drawn(op)' /\ i = id[h])
    BY <1>3
  <2> QED
    BY <2>1, <2>2, <2>3, FreshStays
<1>5. IdsBounded'
  BY NoneDrawn
<1> QED
  BY <1>2, <1>4, <1>5

----------------------------------------------------------------------------
(* The steps on the way to the mutex.                                      *)

\* A request that arrives is counted before it draws its id.
LEMMA StartAtomicInv ==
    ASSUME IInv, AtomicInv, NEW h \in Handlers, NEW r \in Requests, Start(h, r)
    PROVE  AtomicInv'
<1> USE DEF IInv, LockInv, AtomicInv
<1>1. /\ pc[h] = "idle" /\ req[h] = None /\ resp[h] = None
      /\ req' = [req EXCEPT ![h] = r] /\ id' = [id EXCEPT ![h] = r.of]
      /\ pc' = [pc EXCEPT ![h] = IF r.op \in Registrations THEN "draw" ELSE "lock"]
      /\ UNCHANGED <<m_jobs, m_slurm_to_scord, m_pfs_storages, current_id, resp>>
  BY DEF Start, At, Goto, tables, AnswersFit
<1>2. /\ r # None /\ pc \in [Handlers -> Steps]
      /\ req \in [Handlers -> Requests \cup {None}]
      /\ id \in [Handlers -> Nat \cup {None}]
  <2>1. r # None
    BY <1>1, NoneIsNoRequest DEF Start
  <2> QED
    BY <2>1 DEF TypeOK
<1>3. AnswersFit' /\ EntryStays'
  BY <1>1, <1>2 DEF AnswersFit, EntryStays, Op
<1>4. \A op \in Registrations : Drawn(op)' = Drawn(op) /\ TableOf(op)' = TableOf(op)
  BY <1>1, <1>2 DEF Drawn, TableOf, Op
<1>5. \A op \in Registrations : \A g \in Drawn(op)' : id'[g] = id[g]
  BY <1>1, <1>2, <1>4 DEF Drawn
<1>6. IdsFresh'
  BY <1>1, <1>4, <1>5, FreshStays
<1>7. ASSUME NEW op \in Registrations
      PROVE  /\ IsFiniteSet(Asked(op)')
             /\ Cardinality(Asked(op)') <= MaxId
             /\ HasDrawn(op)' = HasDrawn(op)
  <2>1. HasDrawn(op)' = HasDrawn(op)
    BY <1>1, <1>2 DEF HasDrawn, Asked, Op
  <2>2. CASE r.op = op
    <3>1. Asked(op)' = Asked(op) \cup {h} /\ h \notin Asked(op)
      BY <1>1, <1>2, <2>2 DEF Asked, Op
    <3>2. IsFiniteSet(Asked(op)) /\ Cardinality(Asked(op)) < MaxId
      BY <2>2 DEF Start, IdsBounded
    <3>3. Cardinality(Asked(op)) \in Nat
      BY <3>2, FS_CardinalityType
    <3>4. /\ IsFiniteSet(Asked(op) \cup {h})
          /\ Cardinality(Asked(op) \cup {h}) = Cardinality(Asked(op)) + 1
      BY <3>1, <3>2, FS_AddElement
    <3> QED
      BY <2>1, <3>1, <3>2, <3>3, <3>4, ManagersAssumption
  <2>3. CASE r.op # op
    <3>1. Asked(op)' = Asked(op)
      BY <1>1, <1>2, <2>3 DEF Asked, Op
    <3> QED
      BY <2>1, <3>1 DEF IdsBounded
  <2> QED
    BY <2>2, <2>3
<1>8. IdsBounded'
  BY <1>1, <1>7 DEF IdsBounded
<1> QED
  BY <1>3, <1>6, <1>8

\* The id that is drawn is new, and the next one will be.
LEMMA DrawAtomicInv ==
    ASSUME IInv, AtomicInv, NEW h \in Handlers, Draw(h)
    PROVE  AtomicInv'
<1> USE DEF IInv, LockInv, AtomicInv
<1> DEFINE o == Op(h)
           m == MutexOf(o)
<1>1. /\ pc[h] = "draw" /\ o \in Registrations /\ m \in Mutexes /\ req[h] # None
      /\ id' = [id EXCEPT ![h] = current_id[m]]
      /\ current_id' = [current_id EXCEPT ![m] = @ + 1]
      /\ pc' = [pc EXCEPT ![h] = "lock"]
      /\ UNCHANGED <<m_jobs, m_slurm_to_scord, m_pfs_storages, req, resp>>
  <2>1. req[h] \in Requests
    BY DEF Draw, At, StepsFit
  <2> QED
    BY <2>1, MutexTypes, NoneIsNoRequest DEF Draw, At, Goto, StepsFit
<1>2. /\ pc \in [Handlers -> Steps] /\ id \in [Handlers -> Nat \cup {None}]
      /\ current_id \in [Mutexes -> Nat]
  BY DEF TypeOK
<1>3. AnswersFit' /\ EntryStays'
  BY <1>1, <1>2 DEF AnswersFit, EntryStays, Op
<1>4. ASSUME NEW op \in Registrations
      PROVE  /\ MutexOf(op) \in Mutexes /\ (op # o => MutexOf(op) # m)
             /\ TableOf(op)' = TableOf(op) /\ Asked(op)' = Asked(op)
             /\ Drawn(op)' = IF op = o THEN Drawn(op) \cup {h} ELSE Drawn(op)
             /\ HasDrawn(op)' = IF op = o THEN HasDrawn(op) \cup {h} ELSE HasDrawn(op)
             /\ h \notin Drawn(op) /\ h \notin HasDrawn(op)
             /\ HasDrawn(op) \subseteq Asked(op)
  <2>1. MutexOf(op) \in Mutexes /\ (op # o => MutexOf(op) # m)
    BY <1>1, MutexTypes DEF MutexOf, Registrations, JobOps
  <2>2. TableOf(op)' = TableOf(op) /\ Asked(op)' = Asked(op)
    BY <1>1 DEF TableOf, Asked, Op
  <2>3. Drawn(op)' = IF op = o THEN Drawn(op) \cup {h} ELSE Drawn(op)
    BY <1>1, <1>2 DEF Drawn, Op
  <2>4. HasDrawn(op)' = IF op = o THEN HasDrawn(op) \cup {h} ELSE HasDrawn(op)
    BY <1>1, <1>2 DEF HasDrawn, Asked, Op
  <2> QED
    BY <1>1, <2>1, <2>2, <2>3, <2>4 DEF Drawn, HasDrawn
<1>5. IdsFresh'
  <2> SUFFICES ASSUME NEW op \in Registrations
               PROVE  /\ \A i \in TableOf(op)' : i < current_id'[MutexOf(op)]
                      /\ \A g \in Drawn(op)' : /\ id'[g] < current_id'[MutexOf(op)]
                                               /\ id'[g] \notin TableOf(op)'
                      /\ \A g, k \in Drawn(op)' : id'[g] = id'[k] => g = k
    BY DEF IdsFresh
  <2>1. TableOf(op) \subseteq Nat /\ \A g \in Drawn(op) : g # h /\ id'[g] = id[g] /\ id[g] \in Nat
    BY <1>1, <1>2, <1>4 DEF TypeOK, TableOf, Drawn, StepsFit, Holding
  <2>2. CASE op # o
    BY <1>1, <1>2, <1>4, <2>1, <2>2 DEF IdsFresh
  <2>3. CASE op = o
    <3>1. current_id[m] \in Nat /\ current_id'[m] = current_id[m] + 1 /\ id'[h] = current_id[m]
      BY <1>1, <1>2
    <3>2. /\ \A i \in TableOf(op) : i < current_id[m]
          /\ \A g \in Drawn(op) : id[g] < current_id[m] /\ id[g] \notin TableOf(op)
          /\ \A g, k \in Drawn(op) : id[g] = id[k] => g = k
      BY <2>3 DEF IdsFresh
    <3>3. Drawn(op)' = Drawn(op) \cup {h} /\ TableOf(op)' = TableOf(op)
      BY <1>4, <2>3
    <3>4. \A i \in TableOf(op)' : i < current_id'[m]
      BY <2>1, <3>1, <3>2, <3>3
    <3>5. \A g \in Drawn(op)' : id'[g] < current_id'[m] /\ id'[g] \notin TableOf(op)'
      BY <2>1, <3>1, <3>2, <3>3
    <3>6. \A g, k \in Drawn(op)' : id'[g] = id'[k] => g = k
      BY <2>1, <3>1, <3>2, <3>3
    <3> QED
      BY <2>3, <3>4, <3>5, <3>6
  <2> QED
    BY <2>2, <2>3
<1>6. IdsBounded'
  <2> SUFFICES ASSUME NEW op \in Registrations
               PROVE  /\ IsFiniteSet(Asked(op)') /\ Cardinality(Asked(op)') <= MaxId
                      /\ current_id'[MutexOf(op)] = Cardinality(HasDrawn(op)')
    BY DEF IdsBounded
  <2>1. IsFiniteSet(HasDrawn(op)) /\ current_id[MutexOf(op)] = Cardinality(HasDrawn(op))
    BY <1>4, FS_Subset DEF IdsBounded
  <2>2. CASE op # o
    BY <1>1, <1>2, <1>4, <2>1, <2>2 DEF IdsBounded
  <2>3. CASE op = o
    BY <1>1, <1>2, <1>4, <2>1, <2>3, FS_AddElement DEF IdsBounded
  <2> QED
    BY <2>2, <2>3
<1> QED
  BY <1>3, <1>5, <1>6

\* An id that is drawn is within the bound.
LEMMA DrawnIsBounded ==
    ASSUME IInv, AtomicInv, NEW op \in Registrations, NEW h \in Drawn(op)
    PROVE  id[h] \in Ids /\ id[h] \notin TableOf(op)
<1> USE DEF IInv, LockInv, AtomicInv
<1>1. /\ id[h] \in Nat /\ id[h] < current_id[MutexOf(op)] /\ id[h] \notin TableOf(op)
      /\ current_id[MutexOf(op)] = Cardinality(HasDrawn(op))
  BY DEF IdsFresh, IdsBounded, Drawn, StepsFit, Holding
<1>2. /\ IsFiniteSet(HasDrawn(op)) /\ Cardinality(HasDrawn(op)) <= Cardinality(Asked(op))
      /\ IsFiniteSet(Asked(op)) /\ Cardinality(Asked(op)) <= MaxId
  BY FS_Subset DEF IdsBounded, HasDrawn
<1>3. Cardinality(HasDrawn(op)) \in Nat /\ Cardinality(Asked(op)) \in Nat
  BY <1>2, FS_CardinalityType
<1> QED
  BY <1>1, <1>2, <1>3, ManagersAssumption DEF Ids

\* Taking the lock preserves the invariant: nothing is drawn by it.
LEMMA LockAtomicInv ==
    ASSUME IInv, AtomicInv, NEW h \in Handlers, Lock(h)
    PROVE  AtomicInv'
<1> USE DEF IInv, LockInv, AtomicInv
<1>1. /\ pc[h] = "lock" /\ pc' = [pc EXCEPT ![h] = "body"]
      /\ UNCHANGED <<m_jobs, m_slurm_to_scord, m_pfs_storages, current_id, req, id, resp>>
      /\ pc \in [Handlers -> Steps]
  BY DEF Lock, At, Goto, tables, TypeOK
<1>2. AnswersFit' /\ EntryStays'
  BY <1>1 DEF AnswersFit, EntryStays, Op
<1>3. \A op \in Registrations : Drawn(op)' = Drawn(op) /\ TableOf(op)' = TableOf(op)
  BY <1>1 DEF Drawn, TableOf, Op
<1>4. IdsFresh'
  BY <1>1, <1>3, FreshStays
<1>5. IdsBounded'
  BY <1>1, NoneDrawn
<1> QED
  BY <1>2, <1>4, <1>5

----------------------------------------------------------------------------
(* What the index is, while create() or remove() is halfway and otherwise.  *)

NobodyHalfway == \A h \in Handlers : pc[h] # "index"
OnlyHalfway(h) == pc[h] = "index" /\ \A g \in Handlers \ {h} : pc[g] # "index"

\* Nobody is halfway beside a handler that has the mutex of the jobs.
LEMMA AloneWithTheJobs ==
    ASSUME LockInv, NEW h \in Handlers, pc[h] \in Holding, Op(h) \in JobOps
    PROVE  /\ Op(h) \in Readers => NobodyHalfway
           /\ Op(h) \notin Readers => \A g \in Handlers \ {h} :
                  pc[g] \notin {"index", "nested", "find"}
<1>1. CASE Op(h) \in Readers
  <2>1. Reads(h, "m_jobs_mutex")
    BY <1>1 DEF Reads, MutexOf
  <2> QED
    BY <1>1, <2>1, WhoHasTheJobs, WriterIsAlone DEF NobodyHalfway
<1>2. CASE Op(h) \notin Readers
  <2>1. Writes(h, "m_jobs_mutex")
    BY <1>2 DEF Writes, MutexOf
  <2> QED
    BY <1>2, <2>1, WhoHasTheJobs, WriterIsAlone
<1> QED
  BY <1>1, <1>2

\* While no handler is halfway, AtomicManagers sees the index as it is.
LEMMA IndexAsItIs ==
    ASSUME TypeOK, NobodyHalfway
    PROVE  AbstractIndex = m_slurm_to_scord
<1>1. Halfway("register_job") = {} /\ Halfway("remove_job") = {}
  BY DEF NobodyHalfway, Halfway
<1> QED
  BY <1>1 DEF AbstractIndex, TypeOK

\* create() has made the job, and will make the entry.
LEMMA IndexHalfCreated ==
    ASSUME NEW h \in Handlers, OnlyHalfway(h), Op(h) = "register_job"
    PROVE  AbstractIndex = Emplace(m_slurm_to_scord, req[h].slurm_id, id[h])
<1>1. Halfway("register_job") = {h} /\ Halfway("remove_job") = {}
  BY DEF OnlyHalfway, Halfway, Op
<1>2. {req[g].slurm_id : g \in Halfway("register_job")} = {req[h].slurm_id}
  BY <1>1
<1>3. {nh[g] : g \in Halfway("remove_job")} = {}
  BY <1>1
<1> DEFINE who(s) == CHOOSE g \in Halfway("register_job") : req[g].slurm_id = s
<1>4. AbstractIndex = [s \in (DOMAIN m_slurm_to_scord
                                \cup {req[g].slurm_id : g \in Halfway("register_job")})
                              \ {nh[g] : g \in Halfway("remove_job")} |->
                         IF s \in DOMAIN m_slurm_to_scord THEN m_slurm_to_scord[s]
                         ELSE id[who(s)]]
  BY DEF AbstractIndex
<1>5. \A s : s = req[h].slurm_id => who(s) = h
  BY <1>1
<1> HIDE DEF who
<1> QED
  BY <1>2, <1>3, <1>4, <1>5 DEF Emplace

\* remove() has extracted the job, and will erase the entry.
LEMMA IndexHalfRemoved ==
    ASSUME NEW h \in Handlers, OnlyHalfway(h), Op(h) = "remove_job"
    PROVE  AbstractIndex = Erase(m_slurm_to_scord, nh[h])
<1>1. Halfway("register_job") = {} /\ Halfway("remove_job") = {h}
  BY DEF OnlyHalfway, Halfway, Op
<1>2. {req[g].slurm_id : g \in Halfway("register_job")} = {}
  BY <1>1
<1>3. {nh[g] : g \in Halfway("remove_job")} = {nh[h]}
  BY <1>1
<1> QED
  BY <1>2, <1>3 DEF AbstractIndex, Erase

\* The same of the state after a step.
TheIndex ==
    /\ TypeOK /\ NobodyHalfway => AbstractIndex = m_slurm_to_scord
    /\ \A h \in Handlers : OnlyHalfway(h) =>
          /\ Op(h) = "register_job" =>
                AbstractIndex = Emplace(m_slurm_to_scord, req[h].slurm_id, id[h])
          /\ Op(h) = "remove_job" =>
                AbstractIndex = Erase(m_slurm_to_scord, nh[h])

\* The index AtomicManagers sees, by the handler that is halfway,
LEMMA TheIndexIs == TheIndex
BY IndexAsItIs, IndexHalfCreated, IndexHalfRemoved DEF TheIndex

\* and the same of the next state.
LEMMA TheIndexWillBe == TheIndex'
BY TheIndexIs, PTL

\* Steps of other handlers than those halfway leave the index as it is.
LEMMA IndexStays ==
    ASSUME LockInv, LockInv', UNCHANGED m_slurm_to_scord,
           \A h \in Handlers : pc'[h] = "index" <=> pc[h] = "index",
           \A h \in Handlers : pc[h] = "index" =>
               req'[h] = req[h] /\ id'[h] = id[h] /\ nh'[h] = nh[h]
    PROVE  AbstractIndex' = AbstractIndex
<1>1. CASE NobodyHalfway
  <2>1. NobodyHalfway'
    BY <1>1 DEF NobodyHalfway
  <2> QED
    BY <1>1, <2>1, TheIndexIs, TheIndexWillBe DEF TheIndex, LockInv
<1>2. CASE ~NobodyHalfway
  <2>1. PICK h \in Handlers : pc[h] = "index"
    BY <1>2 DEF NobodyHalfway
  <2>2. Op(h) \in {"register_job", "remove_job"}
    BY <2>1 DEF LockInv, StepsFit
  <2>3. OnlyHalfway(h)
    BY <2>1, <2>2, AloneWithTheJobs DEF OnlyHalfway, Holding, JobOps, Readers
  <2>4. OnlyHalfway(h)' /\ Op(h)' = Op(h)
    BY <2>1, <2>3 DEF OnlyHalfway, Op
  <2>5. CASE Op(h) = "register_job"
    <3>1. AbstractIndex = Emplace(m_slurm_to_scord, req[h].slurm_id, id[h])
      BY <2>3, <2>5, IndexHalfCreated
    <3>2. AbstractIndex' = Emplace(m_slurm_to_scord', req'[h].slurm_id, id'[h])
      BY <2>4, <2>5, TheIndexWillBe DEF TheIndex
    <3> QED
      BY <2>1, <3>1, <3>2
  <2>6. CASE Op(h) = "remove_job"
    <3>1. AbstractIndex = Erase(m_slurm_to_scord, nh[h])
      BY <2>3, <2>6, IndexHalfRemoved
    <3>2. AbstractIndex' = Erase(m_slurm_to_scord', nh'[h])
      BY <2>4, <2>6, TheIndexWillBe DEF TheIndex
    <3> QED
      BY <2>1, <3>1, <3>2
  <2> QED
    BY <2>2, <2>5, <2>6
<1> QED
  BY <1>1, <1>2

----------------------------------------------------------------------------
(* Steps that AtomicManagers does not see, and requests that arrive.       *)

AtomicStep == Atomic!Next \/ UNCHANGED Atomic!vars

\* A step that changes neither maps nor answers is none of AtomicManagers.
LEMMA NothingShows ==
    ASSUME UNCHANGED <<m_jobs, m_pfs_storages, req, resp>>, AbstractIndex' = AbstractIndex
    PROVE  AtomicStep
BY DEF AtomicStep, Atomic!vars

\* The operations of AtomicManagers are steps of it.
LEMMA OperationsOfAtomic ==
    ASSUME NEW h \in Handlers,
           \/ \E r \in Requests : Atomic!Ask(h, r)
           \/ \E i \in Ids : Atomic!RegisterJob(h, i) \/ Atomic!RegisterPfs(h, i)
           \/ Atomic!RemoveJob(h) \/ Atomic!UpdateJob(h)
           \/ Atomic!UpdatePfs(h) \/ Atomic!RemovePfs(h)
           \/ Atomic!FindJob(h) \/ Atomic!Query(h) \/ Atomic!Missing(h)
    PROVE  AtomicStep
BY DEF AtomicStep, Atomic!Next

\* A handler that is not halfway, and will not be, leaves the index.
LEMMA IndexLeft ==
    ASSUME IInv, IInv', NEW h \in Handlers, NEW s, pc' = [pc EXCEPT ![h] = s],
           pc[h] # "index", s # "index", UNCHANGED m_slurm_to_scord,
           \A g \in Handlers \ {h} : req'[g] = req[g] /\ id'[g] = id[g] /\ nh'[g] = nh[g]
    PROVE  AbstractIndex' = AbstractIndex
<1>1. \A g \in Handlers : pc'[g] = "index" <=> pc[g] = "index"
  BY DEF IInv, LockInv, TypeOK
<1>2. \A g \in Handlers : pc[g] = "index" =>
         req'[g] = req[g] /\ id'[g] = id[g] /\ nh'[g] = nh[g]
  OBVIOUS
<1> QED
  BY <1>1, <1>2, IndexStays DEF IInv

\* A request arrives in AtomicManagers when it does here.
LEMMA StartAtomic ==
    ASSUME IInv, IInv', AtomicInv, NEW h \in Handlers, NEW r \in Requests, Start(h, r)
    PROVE  AtomicStep
<1>1. /\ pc[h] = "idle" /\ req[h] = None
      /\ req' = [req EXCEPT ![h] = r] /\ id' = [id EXCEPT ![h] = r.of]
      /\ UNCHANGED <<m_jobs, m_slurm_to_scord, m_pfs_storages, resp, nh>>
  BY DEF Start, At, tables, AtomicInv, AnswersFit
<1>2. /\ req \in [Handlers -> Requests \cup {None}] /\ id \in [Handlers -> Nat \cup {None}]
  BY DEF IInv, LockInv, TypeOK
<1> DEFINE s == IF r.op \in Registrations THEN "draw" ELSE "lock"
<1>3. s # "index" /\ pc' = [pc EXCEPT ![h] = s]
  BY DEF Start, Goto
<1> HIDE DEF s
<1>4. AbstractIndex' = AbstractIndex
  BY <1>1, <1>2, <1>3, IndexLeft
<1>5. Atomic!Ask(h, r)
  BY <1>1, <1>4 DEF Atomic!Ask
<1> QED
  BY <1>5, OperationsOfAtomic

\* Ids and locks are not seen by AtomicManagers.
LEMMA LockingAtomic ==
    ASSUME IInv, IInv', AtomicInv, NEW h \in Handlers,
           \/ Draw(h) \/ Lock(h) \/ Unlock(h) \/ NestedLock(h) \/ NestedUnlock(h)
    PROVE  AtomicStep
<1>1. UNCHANGED <<m_jobs, m_slurm_to_scord, m_pfs_storages, req, resp, nh>>
  BY DEF Draw, Lock, Unlock, NestedLock, NestedUnlock, tables
<1>2. \A g \in Handlers \ {h} : id'[g] = id[g]
  BY DEF Draw, Lock, Unlock, NestedLock, NestedUnlock, IInv, LockInv, TypeOK
<1>3. PICK s : pc[h] # "index" /\ s # "index" /\ pc' = [pc EXCEPT ![h] = s]
  BY DEF Draw, Lock, Unlock, NestedLock, NestedUnlock, At, Goto
<1> QED
  BY <1>1, <1>2, <1>3, IndexLeft, NothingShows

\* The steps around the lock preserve the invariant.
LEMMA LockingAtomicInv ==
    ASSUME IInv, AtomicInv, NEW h \in Handlers,
           Unlock(h) \/ NestedLock(h) \/ NestedUnlock(h)
    PROVE  AtomicInv'
<1>1. UNCHANGED <<m_jobs, m_slurm_to_scord, m_pfs_storages, current_id, req, id, resp>>
  BY DEF Unlock, NestedLock, NestedUnlock, tables
<1>2. PICK s : /\ s \in {"find", "unlock", "done"} /\ pc' = [pc EXCEPT ![h] = s]
               /\ pc[h] \in {"nested", "release", "unlock"}
               /\ s = "find" => pc[h] = "nested"
  BY DEF Unlock, NestedLock, NestedUnlock, At, Goto
<1>3. \A op \in Registrations : TableOf(op)' = TableOf(op)
  BY <1>1 DEF TableOf
<1>4. AnswersFit' /\ IdsFresh' /\ IdsBounded'
  BY <1>1, <1>2, <1>3, BodyStep
<1>5. EntryStays'
  BY <1>1, <1>2 DEF AtomicInv, EntryStays, IInv, LockInv, TypeOK
<1> QED
  BY <1>4, <1>5 DEF AtomicInv

----------------------------------------------------------------------------
(* The operations on jobs.                                                 *)

\* create() takes effect when the job is emplaced.
LEMMA CreateJobAtomic ==
    ASSUME IInv, IInv', AtomicInv, NEW h \in Handlers, CreateJob(h)
    PROVE  AtomicInv' /\ AtomicStep
<1> USE DEF IInv, LockInv, AtomicInv
<1>1. /\ pc[h] = "body" /\ Op(h) = "register_job" /\ req[h] \in Requests
      /\ resp[h] = None /\ h \in Drawn("register_job")
      /\ pc \in [Handlers -> Steps] /\ resp \in [Handlers -> Responses \cup {None}]
  BY DEF CreateJob, At, TypeOK, StepsFit, AnswersFit, Drawn
<1>2. id[h] \in Ids /\ id[h] \notin DOMAIN m_jobs
  BY <1>1, DrawnIsBounded DEF Registrations, TableOf
<1>3. /\ m_jobs' = Emplace(m_jobs, id[h], [slurm_id |-> req[h].slurm_id,
                                           value |-> req[h].value])
      /\ resp' = [resp EXCEPT ![h] = [ec |-> "success", id |-> id[h]]]
      /\ pc' = [pc EXCEPT ![h] = "index"]
      /\ UNCHANGED <<m_slurm_to_scord, m_pfs_storages, current_id, req, id, nh>>
  BY <1>2 DEF CreateJob, Result, Goto
<1>4. \A g \in Handlers \ {h} : pc[g] \notin {"index", "nested", "find"}
  BY <1>1, AloneWithTheJobs DEF Holding, JobOps, Readers
<1>5. NobodyHalfway /\ OnlyHalfway(h)'
  BY <1>1, <1>3, <1>4 DEF NobodyHalfway, OnlyHalfway
<1>6. AbstractIndex = m_slurm_to_scord
  BY <1>5, IndexAsItIs
<1>7. AbstractIndex' = Emplace(m_slurm_to_scord, req[h].slurm_id, id[h])
  <2>1. Op(h)' = "register_job"
    BY <1>1, <1>3 DEF Op
  <2> QED
    BY <1>3, <1>5, <2>1, TheIndexWillBe DEF TheIndex
<1>8. PICK i \in Ids : i = id[h]
  BY <1>2
<1>9. Atomic!RegisterJob(h, i)
  BY <1>1, <1>2, <1>3, <1>6, <1>7, <1>8, NoneIsNoRequest
  DEF Atomic!RegisterJob, Atomic!Answer, Atomic!With, Emplace, Op
<1>10. EntryStays'
  BY <1>1, <1>3, <1>4 DEF EntryStays
<1>11. \A op \in Registrations : \A k \in TableOf(op)' :
          k \in TableOf(op) \/ (h \in Drawn(op) /\ k = id[h])
  BY <1>1, <1>3 DEF TableOf, Emplace
<1>12. AnswersFit' /\ IdsFresh' /\ IdsBounded'
  BY <1>1, <1>3, <1>11, BodyStep
<1> QED
  BY <1>9, <1>10, <1>12, OperationsOfAtomic

\* The entry that is made or erased is the one that was announced.
LEMMA IndexingAtomic ==
    ASSUME IInv, IInv', AtomicInv, NEW h \in Handlers, IndexJob(h) \/ UnindexJob(h)
    PROVE  AtomicInv' /\ AtomicStep
<1> USE DEF IInv, LockInv, AtomicInv
<1>1. /\ pc[h] = "index" /\ pc' = [pc EXCEPT ![h] = "unlock"] /\ pc \in [Handlers -> Steps]
      /\ UNCHANGED <<m_jobs, m_pfs_storages, current_id, req, id, resp, nh>>
  BY DEF IndexJob, UnindexJob, At, Goto, TypeOK
<1>2. \A g \in Handlers \ {h} : pc[g] \notin {"index", "nested", "find"}
  <2>1. Op(h) \in {"register_job", "remove_job"}
    BY DEF IndexJob, UnindexJob
  <2> QED
    BY <1>1, <2>1, AloneWithTheJobs DEF Holding, JobOps, Readers
<1>3. OnlyHalfway(h) /\ NobodyHalfway'
  BY <1>1, <1>2 DEF NobodyHalfway, OnlyHalfway
<1>4. AbstractIndex' = m_slurm_to_scord'
  BY <1>3, TheIndexWillBe DEF TheIndex
<1>5. AbstractIndex = m_slurm_to_scord'
  <2>1. CASE IndexJob(h)
    BY <1>3, <2>1, IndexHalfCreated DEF IndexJob
  <2>2. CASE UnindexJob(h)
    BY <1>3, <2>2, IndexHalfRemoved DEF UnindexJob
  <2> QED
    BY <2>1, <2>2
<1>6. EntryStays'
  BY <1>1, <1>2 DEF EntryStays
<1>7. \A op \in Registrations : TableOf(op)' = TableOf(op)
  BY <1>1 DEF TableOf
<1>8. AnswersFit' /\ IdsFresh' /\ IdsBounded'
  BY <1>1, <1>7, BodyStep
<1> QED
  BY <1>1, <1>4, <1>5, <1>6, <1>8, NothingShows

\* remove() takes effect when the job is extracted.
LEMMA RemoveJobAtomic ==
    ASSUME IInv, IInv', AtomicInv, NEW h \in Handlers, RemoveJob(h)
    PROVE  AtomicInv' /\ AtomicStep
<1> USE DEF IInv, LockInv, AtomicInv
<1>1. /\ pc[h] = "body" /\ Op(h) = "remove_job" /\ req[h] \in Requests
      /\ resp[h] = None /\ id[h] = req[h].of
      /\ UNCHANGED <<m_slurm_to_scord, m_pfs_storages, current_id, req, id>>
      /\ pc \in [Handlers -> Steps] /\ resp \in [Handlers -> Responses \cup {None}]
      /\ nh \in [Handlers -> SlurmIds \cup {None}]
  BY DEF RemoveJob, At, TypeOK, StepsFit, AnswersFit, Registrations
<1>2. \A g \in Handlers \ {h} : pc[g] \notin {"index", "nested", "find"}
  BY <1>1, AloneWithTheJobs DEF Holding, JobOps, Readers
<1>3. AbstractIndex = m_slurm_to_scord
  BY <1>1, <1>2, IndexAsItIs DEF NobodyHalfway
<1>4. CASE id[h] \in DOMAIN m_jobs
  <2>1. /\ m_jobs' = Erase(m_jobs, id[h])
        /\ nh' = [nh EXCEPT ![h] = m_jobs[id[h]].slurm_id]
        /\ resp' = [resp EXCEPT ![h] = [ec |-> "success", id |-> None]]
        /\ pc' = [pc EXCEPT ![h] = "index"]
    BY <1>4 DEF RemoveJob, Result, Goto
  <2>2. OnlyHalfway(h)' /\ Op(h)' = "remove_job"
    BY <1>1, <1>2, <2>1 DEF OnlyHalfway, Op
  <2>3. AbstractIndex' = Erase(m_slurm_to_scord, m_jobs[id[h]].slurm_id)
    BY <1>1, <2>1, <2>2, TheIndexWillBe DEF TheIndex
  <2>4. Atomic!RemoveJob(h)
    BY <1>1, <1>3, <1>4, <2>1, <2>3, NoneIsNoRequest
    DEF Atomic!RemoveJob, Atomic!Answer, Atomic!Without, Erase, Op
  <2>5. EntryStays'
    BY <1>1, <1>2, <2>1 DEF EntryStays
  <2>6. \A op \in Registrations : \A k \in TableOf(op)' : k \in TableOf(op)
    BY <1>1, <2>1 DEF TableOf, Erase
  <2>7. AnswersFit' /\ IdsFresh' /\ IdsBounded'
    BY <1>1, <2>1, <2>6, BodyStep
  <2> QED
    BY <2>4, <2>5, <2>7, OperationsOfAtomic
<1>5. CASE id[h] \notin DOMAIN m_jobs
  <2>1. /\ UNCHANGED <<m_jobs, nh>>
        /\ resp' = [resp EXCEPT ![h] = [ec |-> "no_such_entity", id |-> None]]
        /\ pc' = [pc EXCEPT ![h] = "unlock"]
    BY <1>5 DEF RemoveJob, Result, Goto
  <2>2. AbstractIndex' = AbstractIndex
    BY <1>1, <2>1, IndexLeft
  <2>3. Atomic!Missing(h)
    BY <1>1, <1>5, <2>1, <2>2, NoneIsNoRequest DEF Atomic!Missing, Atomic!Answer, Op
  <2>4. EntryStays'
    BY <1>1, <2>1 DEF EntryStays
  <2>5. \A op \in Registrations : \A k \in TableOf(op)' : k \in TableOf(op)
    BY <1>1, <2>1 DEF TableOf
  <2>6. AnswersFit' /\ IdsFresh' /\ IdsBounded'
    BY <1>1, <2>1, <2>5, BodyStep
  <2> QED
    BY <2>3, <2>4, <2>6, OperationsOfAtomic
<1> QED
  BY <1>4, <1>5

\* Steps that answer with the index as it is, and leave no handler reading.
LEMMA AnswerInv ==
    ASSUME IInv, AtomicInv, NEW h \in Handlers, pc[h] \in {"body", "find"},
           NEW s \in {"unlock", "release"}, pc' = [pc EXCEPT ![h] = s],
           UNCHANGED <<m_slurm_to_scord, current_id, req, id>>,
           \A g \in Handlers \ {h} : resp'[g] = resp[g],
           \A op \in Registrations : \A i \in TableOf(op)' :
               i \in TableOf(op) \/ (h \in Drawn(op) /\ i = id[h])
    PROVE  AtomicInv'
<1>1. AnswersFit' /\ IdsFresh' /\ IdsBounded'
  BY BodyStep
<1>2. EntryStays'
  BY DEF AtomicInv, EntryStays, IInv, LockInv, TypeOK
<1> QED
  BY <1>1, <1>2 DEF AtomicInv

\* An update of a job takes effect in the one step inside the lock,
LEMMA UpdateJobAtomic ==
    ASSUME IInv, IInv', AtomicInv, NEW h \in Handlers, UpdateJob(h)
    PROVE  AtomicInv' /\ AtomicStep
<1> USE DEF IInv, LockInv, AtomicInv
<1>1. /\ pc[h] = "body" /\ Op(h) = "update_job" /\ req[h] \in Requests
      /\ resp[h] = None /\ id[h] = req[h].of
      /\ UNCHANGED <<m_slurm_to_scord, m_pfs_storages, current_id, req, id, nh>>
      /\ pc' = [pc EXCEPT ![h] = "unlock"]
      /\ resp \in [Handlers -> Responses \cup {None}]
      /\ \A g \in Handlers \ {h} : resp'[g] = resp[g]
      /\ DOMAIN m_jobs' = DOMAIN m_jobs
  BY DEF UpdateJob, At, Goto, Result, TypeOK, StepsFit, AnswersFit, Registrations
<1>2. AbstractIndex' = AbstractIndex
  BY <1>1, IndexLeft
<1>3. Atomic!UpdateJob(h) \/ Atomic!Missing(h)
  BY <1>1, <1>2, NoneIsNoRequest
  DEF UpdateJob, Result, Atomic!UpdateJob, Atomic!Missing, Atomic!Answer, Op
<1>4. AtomicInv'
  BY <1>1, AnswerInv DEF TableOf
<1> QED
  BY <1>3, <1>4, OperationsOfAtomic

\* and so does find().
LEMMA FindJobAtomic ==
    ASSUME IInv, IInv', AtomicInv, NEW h \in Handlers, FindJob(h)
    PROVE  AtomicInv' /\ AtomicStep
<1> USE DEF IInv, LockInv, AtomicInv
<1>1. /\ pc[h] = "body" /\ Op(h) = "find_job" /\ req[h] \in Requests
      /\ resp[h] = None /\ id[h] = req[h].of
      /\ UNCHANGED <<m_jobs, m_slurm_to_scord, m_pfs_storages, current_id, req, id, nh>>
      /\ pc' = [pc EXCEPT ![h] = "unlock"]
      /\ resp \in [Handlers -> Responses \cup {None}]
      /\ \A g \in Handlers \ {h} : resp'[g] = resp[g]
  BY DEF FindJob, Find, At, Goto, Result, TypeOK, StepsFit, AnswersFit, Registrations, tables
<1>2. AbstractIndex' = AbstractIndex
  BY <1>1, IndexLeft
<1>3. Atomic!FindJob(h) \/ Atomic!Missing(h)
  BY <1>1, <1>2, NoneIsNoRequest
  DEF FindJob, Find, Result, Atomic!FindJob, Atomic!Missing, Atomic!Answer, Op
<1>4. AtomicInv'
  BY <1>1, AnswerInv DEF TableOf
<1> QED
  BY <1>3, <1>4, OperationsOfAtomic

\* query has its answer when it finds no entry, or when the nested find() of
\* the entry it has read returns.
LEMMA LookupSlurmAtomic ==
    ASSUME IInv, IInv', AtomicInv, NEW h \in Handlers, LookupSlurm(h)
    PROVE  AtomicInv' /\ AtomicStep
<1> USE DEF IInv, LockInv, AtomicInv
<1>1. /\ pc[h] = "body" /\ Op(h) = "query" /\ req[h] \in Requests /\ resp[h] = None
      /\ UNCHANGED <<m_jobs, m_slurm_to_scord, m_pfs_storages, current_id, req, nh>>
      /\ pc \in [Handlers -> Steps] /\ resp \in [Handlers -> Responses \cup {None}]
      /\ id \in [Handlers -> Nat \cup {None}]
  BY DEF LookupSlurm, At, TypeOK, StepsFit, AnswersFit, tables
<1>2. AbstractIndex = m_slurm_to_scord
  BY <1>1, AloneWithTheJobs, IndexAsItIs DEF Holding, JobOps, Readers
<1>3. \A op \in Registrations : TableOf(op)' = TableOf(op)
  BY <1>1 DEF TableOf
<1>4. CASE req[h].slurm_id \in DOMAIN m_slurm_to_scord
  <2>1. /\ id' = [id EXCEPT ![h] = m_slurm_to_scord[req[h].slurm_id]]
        /\ pc' = [pc EXCEPT ![h] = "nested"] /\ UNCHANGED resp
    BY <1>4 DEF LookupSlurm, Goto
  <2>2. AtomicStep
    BY <1>1, <2>1, IndexLeft, NothingShows
  <2>3. AnswersFit' /\ IdsFresh' /\ IdsBounded'
    BY <1>1, <1>3, <2>1, BodyStep
  <2>4. EntryStays'
    BY <1>1, <1>4, <2>1 DEF EntryStays
  <2> QED
    BY <2>2, <2>3, <2>4
<1>5. CASE req[h].slurm_id \notin DOMAIN m_slurm_to_scord
  <2>1. /\ UNCHANGED id /\ pc' = [pc EXCEPT ![h] = "unlock"]
        /\ resp' = [resp EXCEPT ![h] = [ec |-> "no_such_entity", id |-> None]]
    BY <1>5 DEF LookupSlurm, Result, Goto
  <2>2. AbstractIndex' = AbstractIndex
    BY <1>1, <2>1, IndexLeft
  <2>3. Atomic!Missing(h)
    BY <1>1, <1>2, <1>5, <2>1, <2>2, NoneIsNoRequest DEF Atomic!Missing, Atomic!Answer, Op
  <2>4. AtomicInv'
    BY <1>1, <1>3, <2>1, AnswerInv
  <2> QED
    BY <2>3, <2>4, OperationsOfAtomic
<1> QED
  BY <1>4, <1>5

\* query takes effect when the nested find() reads the job: until then the
\* entry it came by stays.
LEMMA NestedFindAtomic ==
    ASSUME IInv, IInv', AtomicInv, NEW h \in Handlers, NestedFind(h)
    PROVE  AtomicInv' /\ AtomicStep
<1> USE DEF IInv, LockInv, AtomicInv
<1>1. /\ pc[h] = "find" /\ Op(h) = "query" /\ req[h] \in Requests /\ resp[h] = None
      /\ UNCHANGED <<m_jobs, m_slurm_to_scord, m_pfs_storages, current_id, req, id, nh>>
      /\ pc' = [pc EXCEPT ![h] = "release"]
      /\ resp \in [Handlers -> Responses \cup {None}]
  BY DEF NestedFind, At, Goto, TypeOK, StepsFit, AnswersFit, tables
<1>2. /\ id[h] \in DOMAIN m_jobs
      /\ req[h].slurm_id \in DOMAIN m_slurm_to_scord
      /\ m_slurm_to_scord[req[h].slurm_id] = id[h]
  BY <1>1 DEF NestedFindSucceeds, EntryStays
<1>3. resp' = [resp EXCEPT ![h] = [ec |-> "success", id |-> id[h]]]
  BY <1>2 DEF NestedFind, Find, Result
<1>4. AbstractIndex = m_slurm_to_scord
  BY <1>1, AloneWithTheJobs, IndexAsItIs DEF Holding, JobOps, Readers
<1>5. AbstractIndex' = AbstractIndex
  BY <1>1, IndexLeft
<1>6. Atomic!Query(h)
  BY <1>1, <1>2, <1>3, <1>4, <1>5, NoneIsNoRequest DEF Atomic!Query, Atomic!Answer, Op
<1>7. AtomicInv'
  BY <1>1, <1>3, AnswerInv DEF TableOf
<1> QED
  BY <1>6, <1>7, OperationsOfAtomic

----------------------------------------------------------------------------
(* The operations on PFS storages.                                         *)

\* A PFS storage is created in the one step inside the lock,
LEMMA CreatePfsAtomic ==
    ASSUME IInv, IInv', AtomicInv, NEW h \in Handlers, CreatePfs(h)
    PROVE  AtomicInv' /\ AtomicStep
<1> USE DEF IInv, LockInv, AtomicInv
<1>1. /\ pc[h] = "body" /\ Op(h) = "register_pfs" /\ req[h] \in Requests
      /\ resp[h] = None /\ h \in Drawn("register_pfs")
      /\ resp \in [Handlers -> Responses \cup {None}]
  BY DEF CreatePfs, At, TypeOK, StepsFit, AnswersFit, Drawn
<1>2. id[h] \in Ids /\ id[h] \notin DOMAIN m_pfs_storages
  BY <1>1, DrawnIsBounded DEF Registrations, TableOf
<1>3. /\ m_pfs_storages' = Emplace(m_pfs_storages, id[h], req[h].value)
      /\ resp' = [resp EXCEPT ![h] = [ec |-> "success", id |-> id[h]]]
      /\ pc' = [pc EXCEPT ![h] = "unlock"]
      /\ UNCHANGED <<m_jobs, m_slurm_to_scord, current_id, req, id, nh>>
  BY <1>2 DEF CreatePfs, Result, Goto
<1>4. AbstractIndex' = AbstractIndex
  BY <1>1, <1>3, IndexLeft
<1>5. PICK i \in Ids : i = id[h]
  BY <1>2
<1>6. Atomic!RegisterPfs(h, i)
  BY <1>1, <1>2, <1>3, <1>4, <1>5, NoneIsNoRequest
  DEF Atomic!RegisterPfs, Atomic!Answer, Atomic!With, Emplace, Op
<1>7. \A op \in Registrations : \A k \in TableOf(op)' :
          k \in TableOf(op) \/ (h \in Drawn(op) /\ k = id[h])
  BY <1>1, <1>3 DEF TableOf, Emplace, Registrations
<1>8. AtomicInv'
  BY <1>1, <1>3, <1>7, AnswerInv
<1> QED
  BY <1>6, <1>8, OperationsOfAtomic

\* and updated and removed in one, too.
LEMMA ChangePfsAtomic ==
    ASSUME IInv, IInv', AtomicInv, NEW h \in Handlers, UpdatePfs(h) \/ RemovePfs(h)
    PROVE  AtomicInv' /\ AtomicStep
<1> USE DEF IInv, LockInv, AtomicInv
<1>1. /\ pc[h] = "body" /\ Op(h) \in {"update_pfs", "remove_pfs"} /\ req[h] \in Requests
      /\ resp[h] = None /\ id[h] = req[h].of
      /\ UNCHANGED <<m_jobs, m_slurm_to_scord, current_id, req, id, nh>>
      /\ pc' = [pc EXCEPT ![h] = "unlock"]
      /\ resp \in [Handlers -> Responses \cup {None}]
      /\ \A g \in Handlers \ {h} : resp'[g] = resp[g]
      /\ DOMAIN m_pfs_storages' \subseteq DOMAIN m_pfs_storages
  BY DEF UpdatePfs, RemovePfs, Erase, At, Goto, Result, TypeOK, StepsFit, AnswersFit,
         Registrations
<1>2. AbstractIndex' = AbstractIndex
  BY <1>1, IndexLeft
<1>3. AtomicInv'
  BY <1>1, AnswerInv DEF TableOf
<1>4. CASE UpdatePfs(h)
  <2>1. Atomic!UpdatePfs(h) \/ Atomic!Missing(h)
    BY <1>1, <1>2, <1>4, NoneIsNoRequest
    DEF UpdatePfs, Result, Atomic!UpdatePfs, Atomic!Missing, Atomic!Answer, Op
  <2> QED
    BY <1>3, <2>1, OperationsOfAtomic
<1>5. CASE RemovePfs(h)
  <2>1. Atomic!RemovePfs(h) \/ Atomic!Missing(h)
    BY <1>1, <1>2, <1>5, NoneIsNoRequest
    DEF RemovePfs, Result, Erase, Atomic!RemovePfs, Atomic!Without, Atomic!Missing,
        Atomic!Answer, Op
  <2> QED
    BY <1>3, <2>1, OperationsOfAtomic
<1> QED
  BY <1>4, <1>5

----------------------------------------------------------------------------
(* The refinement.                                                         *)

\* AtomicManagers begins as the managers do.
LEMMA InitAtomic == Init => Atomic!Init
<1> SUFFICES ASSUME Init PROVE Atomic!Init
  OBVIOUS
<1>1. AbstractIndex = m_slurm_to_scord
  BY InitIInv, IndexAsItIs DEF Init, NobodyHalfway, IInv, LockInv
<1> QED
  BY <1>1 DEF Init, Atomic!Init

\* Every step preserves the invariant and is a step of AtomicManagers or none.
LEMMA NextAtomic ==
    IInv /\ IInv' /\ AtomicInv /\ [Next]_vars
        => AtomicInv' /\ [Atomic!Next]_(Atomic!vars)
<1> SUFFICES ASSUME IInv, IInv', AtomicInv, [Next]_vars
             PROVE  AtomicInv' /\ AtomicStep
  BY DEF AtomicStep
<1>1. CASE UNCHANGED vars
  <2>1. AtomicInv'
    BY <1>1 DEF AtomicInv, AnswersFit, EntryStays, IdsFresh, IdsBounded, Drawn, TableOf,
                HasDrawn, Asked, Op, vars, tables, locks, locals
  <2>2. AbstractIndex' = AbstractIndex
    BY <1>1, IndexStays DEF IInv, vars, tables, locks, locals
  <2> QED
    BY <1>1, <2>1, <2>2, NothingShows DEF vars, tables, locks, locals
<1>2. ASSUME NEW h \in Handlers, NEW r \in Requests, Start(h, r)
      PROVE  AtomicInv' /\ AtomicStep
  BY <1>2, StartAtomicInv, StartAtomic
<1>3. ASSUME NEW h \in Handlers, Work(h)
      PROVE  AtomicInv' /\ AtomicStep
  BY <1>3, DrawAtomicInv, LockAtomicInv, LockingAtomicInv, LockingAtomic, CreateJobAtomic,
     IndexingAtomic, RemoveJobAtomic, UpdateJobAtomic, FindJobAtomic, LookupSlurmAtomic,
     NestedFindAtomic, CreatePfsAtomic, ChangePfsAtomic
  DEF Work
<1> QED
  BY <1>1, <1>2, <1>3 DEF Next

\* An id is drawn once and within the bound, and what a handler answers is
\* what it was asked: the counter of create() never gives two handlers the
\* same id, so that no create() is answered with entity_exists.
THEOREM ManagersAtomicInv == Spec => []AtomicInv
<1>1. Init => IInv
  BY InitIInv
<1>2. IInv /\ [Next]_vars => IInv'
  BY NextIInv
<1> QED
  BY <1>1, <1>2, InitAtomicInv, NextAtomic, PTL DEF Spec

\* The locks make atomic what the managers do in several steps: every create(),
\* update(), find(), find_by_slurm_id() and remove() takes effect in one step
\* of AtomicManagers, with the answer that goes with it.
THEOREM ManagersImplementAtomic == Spec => ImplementsAtomic
<1>1. Init => IInv
  BY InitIInv
<1>2. IInv /\ [Next]_vars => IInv'
  BY NextIInv
<1> QED
  BY <1>1, <1>2, InitAtomicInv, NextAtomic, InitAtomic, PTL
  DEF Spec, ImplementsAtomic, Atomic!Spec
=============================================================================
