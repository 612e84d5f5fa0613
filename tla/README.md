# scord in TLA+

scord is the I/O scheduler of the ADMIRE project: a daemon that knows the jobs
of a cluster, the adhoc storage instances they use and the data transfers made
for them.  This directory models the parts of it that keep state and interact,
checks them with TLC on small instances, and proves the invariants that matter
for every instance with TLAPS.

Paths below are relative to the repository (`src/scord/...` is the daemon).

## The system

| Part | State | Operations | Talks to |
|---|---|---|---|
| `src/scord/rpc_server.cpp` (scord) | the four managers, an optional Redis connection, the scheduler thread | one handler per `ADM_*` RPC | clients, scord-ctl, Cargo, Redis |
| `src/scord/job_manager.hpp` | `m_jobs`, `m_slurm_to_scord`, a rwlock, an atomic id counter | create, update, find, find_by_slurm_id, remove | handlers |
| `src/scord/adhoc_storage_manager.hpp` | `m_adhoc_storages`, a rwlock, an id counter | create, update, find, remove, remove_client_info | handlers |
| `src/scord/pfs_storage_manager.hpp` | `m_pfs_storages`, a rwlock, an id counter | create, update, find, remove | handlers |
| `src/scord/transfer_manager.hpp` | `m_transfer`, a rwlock, an id counter | create, find, remove, lock, unlock, copy | handlers, scheduler |
| `src/scord/internal_types.*` | a job and its adhoc storage point to each other; a transfer has its Cargo handle, limits, last bandwidth | update, add_client_info, remove_client_info | managers |
| `rpc_server::scheduler_update` | a copy of the transfers, the ids to remove | poll Cargo, throttle, forget what ended | transfer manager, Cargo |
| `src/scord-ctl` | the configuration; on disk, one working directory per instance | deploy, expand, shrink, terminate, each running a script | scord, service scripts |
| `src/common/net` | the engine, `m_shutting_down`, the pidfile and its lock | run, daemonize, write_pidfile, lookup, call, shutdown, teardown | everything |
| `src/common/utils/signal_listener.hpp` | a thread that waits for a signal | start, stop, handle | the server's shutdown |
| `src/common/abt_cxx/shared_mutex.hpp` | an Argobots rwlock | lock, shared lock | managers |
| `src/lib/c_wrapper.cpp`, `libscord.cpp` | none | client stubs, C API, the wait loop of `ADM_transfer_datasets` | scord |
| `src/lib/types.c`, `types.cpp` | the C objects a client owns | create, copy, destroy; conversions to and from the C++ types | the C API |
| `examples/c` | variables with pointers to those objects | one program per call of the C API | the client library |
| `plugins/slurm`, `cli` | the job's registration | sequences of C API calls | scord |

How the parts run.  scord's engine is created with no RPC streams of its own
(`net/server.cpp:94`), so all handlers are ULTs that share one execution stream
and give it up only when they block: in `lookup()`, in `call()`, on a lock that
is taken.  The managers, however, are written with locks, for several streams.
The scheduler thread has a stream of its own and does run in parallel with the
handlers.  scord-ctl also has one stream and blocks it in `waitpid()`, so it
serves one request at a time.

What is hard here: critical sections of a manager that are each correct and
whose sequence in a handler is not atomic; ids drawn outside the locks; two maps
and two pointers that must agree; the scheduler, which holds a lock across
remote calls and acts on what it saw after it let go; calls that are lost, or
given up while the other side goes on; scord-ctl restarting between two steps;
handlers that throw, or use a null pointer, after they changed state; a lock
that one handler takes twice; a daemon that forks with a thread running, and is
told to stop at any moment; C objects with copies that share what they point to,
any of whose allocations may fail half-way.
`PROJECT.json` lists these hazards at their lines, with the properties that
would catch each of them going wrong.

What makes each part correct: an index entry leads to the job it names and
client pointers match (registry); ids are unique (every manager); a transfer is
forgotten only when it is over, and a client waits for its own (transfers); a
service is started once, and success means that it was (adhoc storage); an
operation on a map is one step to those who wait for its lock (managers); a
daemon that is told to stop does, and its pidfile is its own (daemon); nothing
is used after it was freed or freed twice, and what a client registered it takes
back (client library); every request is answered (all).

## The modules

### ScordRegistry: jobs, adhoc storages and their handlers

One action per critical section of `job_manager` and
`adhoc_storage_manager`, or per step outside any lock.  A handler is a process
with a step (`pc`), its arguments and local variables (`loc`) and its answer
(`resp`).  `register_job` takes four steps: find the adhoc storage, draw the id,
emplace the job, record the client.  `remove_job` takes three, `query` two,
`register_adhoc_storage` two.  The constant `SingleStream` says who may run
between them: TRUE is the daemon as built, FALSE several streams.  An answer
ends the handler; the null pointer in `query` (`rpc_server.cpp:174`) crashes the
daemon (`alive`), and what `register_job` does for Redis without an adhoc
storage (`rpc_server.cpp:247`) is undefined behaviour, so both outcomes are
explored when `HasRedis`.  Resources of a job are reduced to a number of nodes,
and an adhoc storage to its id: `update_adhoc_storage` is in AdhocLifecycle.

### AtomicRegistry: what the registry promises

Each register, update and remove is one step, and ids are not reused.
ScordRegistry implements it on one stream.  The refinement mapping takes the
maps as they are, except that the client of an adhoc storage is what it will be
once the handler that keeps the stream has finished (`ClientsSettled`).

### TransferScheduler: transfers

A client and the handler that serves it are one process: `ADM_transfer_datasets`
up to its return, including the wait loop around `query_transfer`.  The
scheduler's pass is: see the flag, lock and copy, one step per transfer (status)
plus one when it sends a signal, unlock, one step per removal.  Cargo is
external: a transfer is pending, running, then completed or failed.
`remove_job` and the shutdown may come at any time.  Bandwidths are numbers, and
the threshold of 0.1 is written in integers.  In the code the comparison is in
single-precision floats: rounding near the two thresholds is not modelled.

### AdhocLifecycle: deploy, update, terminate

scord's handlers wait twice, in `lookup()` and in `call()`, with the request
fixed before the first: three steps.  scord-ctl takes a request, refuses it or
creates the directory, and runs the script.  A call can fail at any point, which
leaves the request lost, queued at scord-ctl (`late`), being served or served:
`endpoint::call()` cancels nothing, so that a queued one is served all the same
(`CtlTakeLate`), before or after what is sent next.  A script can fail having
done its work or not; scord-ctl can die and be started again.  Directories and
services survive.  `.value()` on an error throws (`Throw`): no answer, and the
daemon may or may not survive.  What a script does to the service is external.

`update_failed`, `overlapped` (two requests of one instance were under way at
once, a queued one that was given up included) and `startups` are there for the properties; nothing else reads them.

### SlurmPlugin: a job from its prolog to its epilog

One process per job step: the two hooks Slurm calls in `slurmadmcli.c`, one
action per call they make to scord.  `slurm_spank_exit` runs whether or not
`slurm_spank_user_init` was successful, with the handles the latter left, so a
NULL handle is reached and crashes the process (`Crash`); `opendir(NULL)` is
undefined and does either.  The prolog and the epilog start and stop the
controller and Cargo.  scord itself is AtomicRegistry, which ScordRegistry was
shown to implement: `SlurmPlugin` composes with it through `INSTANCE`, and each
call may be lost before or after it took effect.  Deployment and termination are
what AdhocLifecycle promises of them, in one step.  `failed` is there for the
properties: something went wrong for this step, noticed or not.

### Managers: the managers at the grain of their locks

ScordRegistry takes a critical section of a manager for one step.  `Managers` is
what justifies it: the mutex of the jobs and the mutex of the PFS storages with
their readers and writers, and every step inside the critical sections.
`create()` draws the id outside the lock, emplaces the job and then its Slurm
id; `remove()` extracts the job and then erases its Slurm id (`nh` is the node
it holds in between); `find_by_slurm_id()` takes the lock shared, reads the
index, and calls `find()`, which takes the same lock shared once more before the
first is given back.  The PFS storage manager, with its handlers, is here too.
A handler serves one request in its life; `Serves` says which ones it may get.
`abt::shared_mutex` is a wrapper of Argobots' rwlock, which is external: a
reader waits for a writer that has the lock, not for one that waits.  On that
the nested lock depends, and the mutant in which readers wait for waiting
writers (`MayReadAfterWriters`) does deadlock.  `ManagersConstants` has the
parameters and the requests, because `Daemon` shares them.

`AtomicManagers` is what they promise: every operation, with its answer, is one
step.  The refinement mapping takes the maps as they are, but for the Slurm
index: `AbstractIndex` has the entry that a `create()` halfway is about to make
and lacks the one a `remove()` halfway is about to erase.

### Daemon: a process from its start to its end

`server::run` of scord and of scord-ctl, one action per system call that others
can observe: the constructor (which starts scord's scheduler thread), the fork,
the steps of `write_pidfile()` (open, lock, write, close), the installation of
the signal handler, serving, `teardown()` and the removal of the pidfile; beside
them the parent of a daemon, the listener thread, which runs `shutdown()`, joins
the scheduler and finalizes the engine, and the scheduler thread.  `fork()`
copies the calling thread and no other: the child's scheduler is `"lost"`.  A
system call may fail, a process may crash or be killed at any step, a signal may
come at any step.  The pid is digits, since a shorter one is written over a
longer one.  The requests of one program (`Server`) are those of Managers, which
Daemon composes with through `INSTANCE`: they are served while it serves, the
engine's finalize waits for them, and the maps are gone with the process.

### ClientTypes and ClientPrograms: the C client library and its programs

A memory is a sequence of blocks with their pointers; a function of `types.c`
takes one and returns the one it leaves, with its result.  It records the first
thing that must not happen: a null, unassigned or freed pointer used, an array
overrun, an assertion failed.  One allocation, the n-th of the program, may
fail.  `ClientTypes` has every constructor, copy and destructor that the
programs reach, and the conversions of `types.cpp` as the pointers that they
read (before a request) and the objects they create (from an answer).  Numbers
and the text of strings are left out.

`ClientPrograms` runs the 26 programs of `examples/c` that the tests run (the
27th, `ADM_transfer_datasets_user`, is disabled there).  A program is its statements and those after its label
`cleanup`, and an action executes one kind of statement.  The server may carry a
request out, refuse it, or carry it out and have its answer lost.  Assertions
are on or off, as the build has it.

## The runs

| Run | Shows | Instance |
|---|---|---|
| `registry_streams` | SlurmIndexSound, ClientPointsBack, NoIdCollision, CrashIsKnown, RegistryInv | 2 handlers, 2 streams, Redis, 2 jobs, 2 adhoc storages, 2 Slurm ids |
| `registry_atomic` | ClientIsRegistered, the refinement ImplementsAtomic, RequestsAnswered | the same on one stream, with one Slurm id, without Redis |
| `registry_slurm_index` | RegisteredJobIsFound is violated | 1 handler, 2 jobs with one Slurm id |
| `transfer_clients` | LiveTransferRegistered, OwnTransfer, SuccessMeansOver, TransferInv | 2 clients, 2 jobs (one without adhoc storage), 2 transfers |
| `transfer_live` | SpeedUpOnlyBelowLimit, WaitingClientReturns, EndedTransferCollected, SchedulerStops | 1 client, 2 transfers, limit 10, bandwidths 9, 10 and not measured |
| `transfer_wait` | WaitSuccessMeansCompleted is violated | 1 client, 1 transfer |
| `lifecycle_faults` | StartupAtMostOnce, DeploySuccessIsReal, ResizeAgrees, AnswersAreSent, LifecycleInv | 2 handlers, 1 instance of 1 or 2 nodes, every fault, one request at a time queued that was given up, Redis |
| `lifecycle_live` | RequestsEnd | 2 handlers, 2 instances (one of an unsupported type), no faults |
| `slurm_plugin` | StepKeepsItsStorage, LeakNeedsFailure, StepCleansUp | 2 steps of one Slurm job, every fault |
| `server` | TypeOK, LoneDaemonPidfile, NestedFindSucceeds, NoDeadlock, EngineOutlivesScheduler, the refinement ImplementsAtomic of the managers, StopsWhenTold, RequestsReturn | 1 program in each of 4 modes, every fault, with or without a stale pidfile; 3 handlers |
| `daemon_pidfile` | OneDaemonPerPidfile is violated | 2 programs, no requests and no faults |
| `client_library` | TypeOK, NoDanglingAccess, SharingIsKnown, CrashNeedsFailure, LeaksAreKnown, NoJobLeftBehind, NoStorageLeftBehind | 26 programs, arrays of 1 to 4 objects, any one allocation failing or none |

Type correctness is a conjunct of RegistryInv, TransferInv and LifecycleInv, which
the runs check.  That of SlurmPlugin, the stability of a job's identity and what
may take scord down in AdhocLifecycle have theorems and no run.

The bounds.  Two handlers are enough for every pair of handlers to meet in every
interleaving; two jobs and two adhoc storages let two jobs share an instance or
a Slurm id, and let a handler work on the wrong one.  `MaxJobs`, `MaxAdhocs` and
`MaxTransfers` bound the id counters: requests that would need more ids are not
sent.  Handlers and clients are permuted where the property is not temporal.
Two sizes let a service have another one than is recorded, and `MaxLate` bounds
the requests given up that are still queued: with one of them and a new request
the two can be served in either order.
For the plugin, two steps of one allocation are the case in which steps could
meet; there is an id for every registration they can make.
In `server` one handler creates, one reads or updates, one updates or removes:
every pair of operations that could meet inside the locks does, on one job and
one PFS storage.  Several jobs with one Slurm id are the matter of
`registry_streams`, and of the proofs.  `daemon_pidfile` needs two programs and
nothing else.  In `client_library` the arrays are of different lengths, none of
them empty: no function treats the third element of an array otherwise than the
second.  No program makes as many allocations as `Numbers` goes up to, so each
of them fails in some behaviour, and with `0` none does.
Deadlock is checked for the registry.  The other systems may stop: all transfers
used up and the scheduler gone, the daemon gone, the allocation over or the
program at its end.

Fairness.  In the registry each handler gets its turn: Argobots takes the ULTs
of a pool in FIFO order; it is strong, because with one stream a handler is
blocked again and again while another has it.  A client waiting for the transfer
manager's lock gets it for the same reason, and because the scheduler sleeps for
a second between two passes; the scheduler has a stream to itself (weak).  That
an accepted transfer ends is Cargo's promise, and that calls to Cargo return is
assumed too.  In AdhocLifecycle both daemons take their steps, and a script
ends; nothing is assumed of clients.  In SlurmPlugin a step that has begun goes
on: applications end by themselves or at their time limit, and calls return.
In Daemon every thread of a living process goes on, and so does a handler (weak
fairness of its next step, a lock included: each handler asks for few locks, so
a queue in any order serves them all in the end); of signals, faults and clients
nothing is assumed.  The client programs are sequential and have safety
properties only.

### What the code does otherwise than the repository says

* Two jobs may be registered with one Slurm id (steps of one allocation, or a
  requeued job).  The index keeps the first, and removing either erases the
  entry: the other is reported as "not registered or already deleted"
  (`job_manager.hpp:61`, `:115`, `:128`).
* A waiting `ADM_transfer_datasets` returns success for a failed transfer, and
  for a missing one, where the Slurm plugin expects an error
  (`c_wrapper.cpp:254-283`, `slurmadmcli.c:666`).

* "Failed to acquire lock on pidfile. Another instance of this daemon may already
  be running" (`server.cpp:61-63`) does not come when one is: the lock is given
  back when the file is closed, before the daemon serves (`server.cpp:79`).

The models contain more, which are plain in the code and have no run:

* The removal of a job takes the client away from the adhoc storage it named
  even if another job is that client (`rpc_server.cpp:335`; the comment at 328
  speaks of the job as its client).
* A scord that forks has no scheduler thread: it was started by the constructor
  (`rpc_server.cpp:82`), and daemonizing is the default (`defaults.hpp.in:33`).
  Its finalize then waits for a thread that is not there: EngineOutlivesScheduler
  says that it never reaches `teardown()`, and StopsWhenTold is stated of
  processes that have their thread.
* A program whose allocation fails after it registered a storage does not remove
  it (`cleanup` frees the objects only), so that NoStorageLeftBehind excepts it.
* `teardown()` removes the pidfile whoever's pid it contains.
* The outputs of a job's requirements are read from the array of its inputs
  (`types.cpp:262-265`).  With more outputs than inputs TLC finds the overrun; the
  programs have as many of one as of the other, or fewer.
* `ADM_remove_job()` does not free the job, which `scord.h:66-67` says it does; no
  program frees it either.
* A list of QoS limits destroys the entities of its limits, which their creator
  still owns (`types.c:1195-1260`).
* A job that names a busy adhoc storage is registered with success although the
  library has an error for it (`rpc_server.cpp:241`, `errors.c:34`).
* "We get here, do stage-out and clean up" (`slurmadmcli.c:1124`): a stage-out
  that fails skips the clean-up, and so does a crash on a NULL handle.
* The removal of the adhoc storage is commented out (`slurmadmcli.c:994`), so
  scord keeps every storage a job registered.

## The proofs

| Theorem | Statement |
|---|---|
| `RegistryInvariant`, `RegistryTypes`, `RegistrySlurmIndex`, `RegistryClients`, `RegistryIds` | `Spec => []RegistryInv`, and its conjuncts TypeOK, SlurmIndexSound, ClientPointsBack, NoIdCollision |
| `CrashesAreKnown` of ScordRegistryProofs | `Spec => []CrashIsKnown` |
| `RegistryIdentity` | `Spec => JobIdentityStable`, an action property |
| `StreamInvariant`, `RegistryClientIsRegistered`, `RegistryImplementsAtomic` | on one stream: `Spec => []StreamInv`, `[]ClientIsRegistered` and `ImplementsAtomic` |
| `TransferInvariant`, `TransferTypes`, `TransferNotLost`, `TransferIsOwn`, `TransferWait` | `Spec => []TransferInv`, and TypeOK, LiveTransferRegistered, OwnTransfer, SuccessMeansOver |
| `TransferSpeedUp` | `Spec => []SpeedUpOnlyBelowLimit` |
| `ControlDecision` | the bandwidth control, for all naturals |
| `LifecycleInvariant`, `LifecycleTypes`, `StartedAtMostOnce`, `DeploymentsAreReal` | `Spec => []LifecycleInv`, and TypeOK, StartupAtMostOnce, DeploySuccessIsReal |
| `ResizesAgree` | `Spec => []ResizeAgrees` |
| `AnswersAreKnown`, `CrashesAreKnown` of AdhocLifecycleProofs | `Spec => AnswersAreSent`, an action property, and `Spec => []CrashIsKnown` |
| `ManagersTypes`, `MutualExclusion`, `NestedFindSafe` | of Managers: TypeOK, Exclusion, NestedFindSucceeds |
| `ManagersNeverDeadlock`, `DaemonNeverDeadlocks` | `Spec => []NoDeadlock`, of Managers and of the managers inside a daemon |
| `ManagersAtomicInv`, `ManagersImplementAtomic` | of Managers: `Spec => []AtomicInv`, `Spec => ImplementsAtomic` |
| `DaemonIInv`, `DaemonTypes`, `PidfileOfTheLone` | `Spec => [](ServerInv /\ DaemonInv)`, and TypeOK, LoneDaemonPidfile |
| `EngineIsLast` | `Spec => []EngineOutlivesScheduler` |
| `DaemonNestedFindSafe`, `DaemonImplementsAtomic` | of the managers inside a daemon: NestedFindSucceeds, ImplementsAtomic |
| `PluginInvariant`, `PluginTypes`, `StepsAreApart`, `LeaksAreFailures` | `Spec => []PluginInv`, and TypeOK, StepKeepsItsStorage, LeakNeedsFailure |
| `PluginUsesRegistry` | the registry inside SlurmPlugin is an AtomicRegistry: `Spec => Scord!Spec` |
| `JobIsRemoved`, `NoJobIsLeftBehind` | of the client programs: `Spec => []JobInv`, and NoJobLeftBehind |

They hold for any set of handlers, clients, jobs, ids, sizes, programs and pids,
under the assumptions named in the modules: `RegistryAssumption`,
`TransferAssumption`, `LifecycleAssumption`, `PluginAssumption`,
`ManagersAssumption` and `DaemonAssumption` say what kind of values the constants
are and that `None` is none of them (and no request: `NoneIsNoRequest`); TLC
evaluates them in every run.  One theorem needs more: the registry is atomic, and
its clients are registered between handlers, under `SingleStream`, which is the
daemon as built (`net/server.cpp:94`); on several streams neither holds.

The proofs are in `ScordRegistryProofs`; `TransferSchedulerProofs`; `AdhocLifecycleProofs`;
`ManagersProofs` and, on top of it, `ManagersAtomicity`; `SlurmPluginProofs`;
`ClientProgramsProofs`; and `DaemonProofs`, which uses the theorems about Managers for the instance inside a
daemon.

The arguments.

* **RegistryInv.**  NoIdCollision is not inductive: nothing in it says that an id
  drawn and not yet emplaced is free.  `DrawnIdsFresh` does, and that no other
  handler holds it; it follows from `IdsDrawn`, that ids in use are below the
  counter.  ClientPointsBack needs `HeldJobs`: a handler about to record a client
  holds metadata made for this adhoc storage.  SlurmIndexSound needs that a
  new job's id is not in the map, and that an erased entry is that of the removed
  job's Slurm id.
* **StreamInv** (beside RegistryInv, for ClientIsRegistered and ImplementsAtomic).
  On one stream every handler but the one that keeps it is idle
  (`OneAtATime`), so what that one found when it took the stream is still there
  (`FoundIsThere`).  `SettledAreRegistered` is ClientIsRegistered between two
  steps: with the clients as they will be once that handler is done.  For it, an
  adhoc storage that is being registered must have no client (`NewHasNoClient`).
  A job and its client then appear in AtomicRegistry when the job is emplaced,
  and go when it is removed; the steps before and after are stutters.
* **CrashIsKnown of the registry** (beside RegistryInv, and StreamInv on one
  stream).  A crash shows a job, and the job that shows it must still be there
  with the same storage: metadata objects stay (`job_metadata`), and an id whose
  storage was erased is not drawn again (`IdsDrawn`).  `RequiredWasDrawn` says
  that the storage a registration was given had an id at the time.  On one
  stream `FoundIsThere` excludes that the storage was removed in between, and
  only a job without one is left.
* **TransferInv.**  LiveTransferRegistered needs that what the scheduler put aside
  in `v_ids` is over in Cargo (`SchedulerHolds`), which stays so because a
  transfer that is over does not start again.  OwnTransfer needs that drawn ids
  and Cargo's handles belong to one client (`ClientLocals`), and that handles
  stand for accepted transfers (`CargoAccepted`).  SuccessMeansOver then follows
  from both: a transfer that is missing is over.
* **SpeedInv** (beside TransferInv, for SpeedUpOnlyBelowLimit).  A signal is
  computed from the metadata of one id and sent to its handle: no two ids have
  the same handle (`HandlesApart`), and what is not yet registered has been sent
  nothing (`SignalsHaveLimits`).  The id between measurement and signal is
  excepted (`SpeedUps`); `ControlHasLimit` and the theorem `ControlDecision` say
  what its signal will be.
* **LifecycleInv.**  `OnePlace` says where a request can be; `DirectoryGuards`
  that a directory exists for every start made or about to be made, and that the
  start about to be made is the first; `OneDeployer` that at most one handler has
  been told of it.
* **ResizeInv** (beside LifecycleInv, for ResizeAgrees).  ResizeAgrees is about a
  quiet instance; what leads there is not quiet.  While requests do not overlap,
  an instance has at most one request with a handler and it asks for the nodes
  that are recorded (`OneRequest`).  The service agrees with the record, and so
  does what scord-ctl is serving, from the success of an update on and unless the
  last update failed (`RecordFits`).  A request that scord gave up may be at
  scord-ctl still.  If its script runs, it ends before the next request is
  *accepted*, since scord-ctl serves one at a time.  If it is queued, it may be
  served after the next one, with the nodes that were recorded before: a
  deployment that was given up undoes a later, successful update.  Then the two
  requests overlap, and until the next one is sent what is queued agrees with the
  record as well (`Agrees`, `OneRequest`).
* **CrashIsKnown and AnswersAreSent of the lifecycle** (beside LifecycleInv).
  A handler ends in the same step in which it learns what became of its request,
  so that the step says why it did not answer; the reason for a
  crash lasts, because scord takes no request once it is down.
* **PluginInv.**  LeakNeedsFailure says nothing of the steps still at work, which
  may end without a failure: `CleanSoFar` says what each has undone by then, and
  `JobIsKnown` that the job it removes is the only one with its storage.
  StepKeepsItsStorage needs that storages are not shared (`StorageIsOwn`) and
  that a client of a storage is a job registered with it (`RegistryLinked`).
* **IInv of Managers.**  NestedFindSucceeds is about three handlers: the one that
  is inside `find_by_slurm_id()`, one that could remove the job it has found,
  and one that is halfway through a removal when it reads the index.  `LocksFit`
  ties the counts of a mutex to where its handlers are (two for a reader around
  the nested `find()`), so that with `Exclusion` a writer is alone
  (`WriterIsAlone`).  `IndexSound` allows an entry to dangle only while some
  writer is about to erase it, hence not while there is a reader;
  `HalfCreated` is what makes the entry that `create()` adds a sound one.
* **NoDeadlock of Managers** (beside IInv).  Who waits for a mutex waits for a
  handler that has it (`LocksFit` finds one), and that one goes on: a writer asks
  for nothing more, and a reader at most for the same mutex again, which no writer
  has while it is inside (`Exclusion`).  That waiting writers do not hold readers
  up is what makes this last step true.
* **AtomicInv** (beside IInv, for ImplementsAtomic of Managers).  A `create()` of
  AtomicManagers always succeeds, so an id must be in no table when it is used:
  `IdsFresh`.  It draws from `Ids`, so the counter must stay within it:
  `IdsBounded`, which counts the registrations that have drawn theirs.  `query` is
  one step there, two here: it takes effect at the nested `find()`, and
  `EntryStays` says that the index still leads to the same job.  The writer lock
  lets at most one handler be halfway, which makes `AbstractIndex` differ from
  the index by at most one entry.
* **ServerInv and DaemonInv.**  A step of a daemon is a step of Managers, leaves
  its memory alone, or ends the process and empties it, and each of them keeps
  the managers' invariants (`ServerInv`); an empty memory is one AtomicManagers
  may go back to.  LoneDaemonPidfile needs that a child runs only once its parent
  is past the pidfile (`Forked`), and, from the opening of the file to the
  writing, that what is in it is no longer than the pid to be written
  (`PidfileFits`): a shorter pid leaves the rest of a longer one behind.
* **SchedulerFits** (for EngineOutlivesScheduler).  Between the end of the
  scheduler thread and the engine's finalize the listener is `"joined"`, and a
  joined thread has ended; the thread of a child is `"lost"` for as long as it
  lives, so that its listener never gets there, and with it no teardown.
* **JobInv** (for NoJobLeftBehind).  It is about the texts of the programs, not
  their memory: `IsProgram` says that from the statement that registers a job
  one that removes it is ahead and that no statement in between is a check, the
  only kind that jumps to `cleanup` when no request fails.  It is proved of each
  of the 26 texts from the parts they are put together of.  That the rest of a
  program may free, copy or leak as it will does not matter, so that no induction
  over data is needed.

Only model-checked:

* Liveness (RequestsAnswered, WaitingClientReturns, EndedTransferCollected,
  SchedulerStops, RequestsEnd, StepCleansUp, StopsWhenTold, RequestsReturn), which
  is out of the prover's reach.
* The properties of the client programs' memory: TypeOK, NoDanglingAccess,
  SharingIsKnown, CrashNeedsFailure and LeaksAreKnown, and NoStorageLeftBehind,
  which excepts allocations that fail and so depends on them.  The functions of
  ClientTypes compute with sequences of blocks, by folds with an operator as
  their argument; what they return for every array is an induction over data,
  which the provers here cannot do.
* The violations, which are behaviours and not theorems.

## Not modelled

* The text that scord-ctl's commands are made of: placeholders replaced, the
  environment merged, the arguments split.  It is text processing in one
  function each, and AdhocLifecycle has what a command does.
* Of the C types: getters, and the objects no program uses (QoS entities, limit
  lists, dataset information, data operations, statistics).  The type of a
  storage, and with it the error of `ADM_job_requirements_create` for an unknown
  one: the programs register GekkoFS storages only.  Serialization and
  the C++ classes around it.
* Failures of Redis itself: a record that cannot be written would throw.  Both
  CrashIsKnown and AnswersAreSent take Redis as working.
* Logging, the YAML configuration, the contents of the Redis records, the
  parsing of the plugin's options and host lists.
* The command line tools, which make one call each, and the library calls that
  are not implemented in scord.
* Transfers and adhoc storages inside Daemon: a restart of scord loses its whole
  registry and starts again from `Init`, and their modules say the rest.

## Plan

Every safety property of the runs is a theorem, but for those about the memory
of the client programs.  What may be added is one more link between modules: that
the ids a create() draws in Managers are those of ScordRegistry, so that
ScordRegistry's critical sections are the steps of AtomicManagers.
