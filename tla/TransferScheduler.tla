------------------------- MODULE TransferScheduler -------------------------
(***************************************************************************)
(* Data transfers in scord: the transfer_manager, the RPC handlers         *)
(* transfer_datasets and query_transfer, the scheduler thread that polls   *)
(* Cargo, throttles transfers and forgets the ones that are over, and the  *)
(* client call ADM_transfer_datasets() with its wait loop.                 *)
(*                                                                         *)
(* A client and the handler that serves it are one process c: the client   *)
(* blocks while the handler runs.  The scheduler is a ULT on an execution  *)
(* stream of its own and keeps the transfer manager's lock while it talks  *)
(* to Cargo, one remote call per transfer.  Cargo is another service,      *)
(* modelled by what scord's calls expect of it.                            *)
(***************************************************************************)
EXTENDS Integers, FiniteSets

CONSTANTS
    Clients,        \* processes calling ADM_transfer_datasets
    Jobs,           \* jobs registered when the model starts
    AdhocJobs,      \* those of them that use an adhoc storage
    Limits,         \* bandwidth limits clients ask for (the first counts)
    Bandwidths,     \* bandwidths Cargo reports, -1 for "not measured"
    MaxTransfers,   \* bound: transfers started
    None            \* no limit, "not set"

Ids == 0 .. (MaxTransfers - 1)
Txs == Ids          \* Cargo's own numbering of its transfers

ASSUME TransferAssumption ==
    /\ MaxTransfers \in Nat
    /\ AdhocJobs \subseteq Jobs
    /\ Limits \subseteq Nat
    /\ Bandwidths \subseteq Nat \cup {-1}
    /\ None \notin Int
    /\ None \notin Jobs

VARIABLES
    jobs,                  \* keys of job_manager::m_jobs
    current_id,            \* static atomic current_id of create()
    m_transfer,            \* keys of transfer_manager::m_transfer
    m_handle,              \* transfer_metadata::m_handle, by id
    m_qos,                 \* transfer_metadata::m_qos.front(), by id
    m_measured_bandwidth,  \* transfer_metadata::m_measured_bandwidth, by id
    locked,                \* the scheduler holds m_transfer_mutex
    spc,                   \* next step of the scheduler
    todo,                  \* transfers left in the scheduler's copy of the map
    cur,                   \* the transfer it is about to control
    v_ids,                 \* the transfers it is going to remove
    m_shutting_down,       \* network::server::m_shutting_down
    cargo_state,           \* state of each transfer in Cargo
    cargo_next,            \* transfers Cargo has accepted
    cargo_signal,          \* last bw_control() each transfer received
    pc,                    \* next step of each client or of its handler
    c_job, c_qos, c_wait,  \* arguments of the client's call
    c_tx,                  \* the Cargo transfer started for the call
    c_id,                  \* the transfer id of the call
    ret                    \* what the last call returned

manager == <<current_id, m_transfer, m_handle, m_qos, m_measured_bandwidth>>
scheduler == <<locked, spc, todo, cur, v_ids>>
cargo == <<cargo_state, cargo_next, cargo_signal>>
args == <<c_job, c_qos, c_wait>>
client == <<pc, args, c_tx, c_id, ret>>
vars == <<jobs, manager, scheduler, m_shutting_down, cargo, client>>

CargoStates == {"none", "pending", "running", "completed", "failed"}
Over == {"completed", "failed"}
ErrorCodes == {"success", "no_such_entity", "no_resources",
               "entity_exists", "other"}
ClientSteps == {"idle", "td_find", "td_cargo", "td_id", "td_emplace",
                "qt_job", "qt_find", "qt_status"}

\* Every variable has its type.
TypeOK ==
    /\ jobs \subseteq Jobs
    /\ current_id \in 0 .. MaxTransfers
    /\ m_transfer \subseteq Ids
    /\ m_handle \in [Ids -> Txs \cup {None}]
    /\ m_qos \in [Ids -> Limits \cup {None}]
    /\ m_measured_bandwidth \in [Ids -> Bandwidths \cup {-1}]
    /\ locked \in BOOLEAN
    /\ spc \in {"loop", "lock", "scan", "control", "done"}
    /\ todo \subseteq Ids
    /\ cur \in Ids \cup {None}
    /\ v_ids \subseteq Ids
    /\ m_shutting_down \in BOOLEAN
    /\ cargo_state \in [Txs -> CargoStates]
    /\ cargo_next \in 0 .. MaxTransfers
    /\ cargo_signal \in [Txs -> {-1, 0, 1}]
    /\ pc \in [Clients -> ClientSteps]
    /\ c_job \in [Clients -> Jobs \cup {None}]
    /\ c_qos \in [Clients -> Limits \cup {None}]
    /\ c_wait \in [Clients -> BOOLEAN]
    /\ c_tx \in [Clients -> Txs \cup {None}]
    /\ c_id \in [Clients -> Ids \cup {None}]
    /\ ret \in [Clients -> ErrorCodes \cup {None}]

Init ==
    /\ jobs = Jobs
    /\ current_id = 0
    /\ m_transfer = {}
    /\ m_handle = [id \in Ids |-> None]
    /\ m_qos = [id \in Ids |-> None]
    /\ m_measured_bandwidth = [id \in Ids |-> -1]
    /\ locked = FALSE
    /\ spc = "loop"
    /\ todo = {}
    /\ cur = None
    /\ v_ids = {}
    /\ m_shutting_down = FALSE
    /\ cargo_state = [t \in Txs |-> "none"]
    /\ cargo_next = 0
    /\ cargo_signal = [t \in Txs |-> 0]
    /\ pc = [c \in Clients |-> "idle"]
    /\ c_job = [c \in Clients |-> None]
    /\ c_qos = [c \in Clients |-> None]
    /\ c_wait = [c \in Clients |-> FALSE]
    /\ c_tx = [c \in Clients |-> None]
    /\ c_id = [c \in Clients |-> None]
    /\ ret = [c \in Clients |-> None]

----------------------------------------------------------------------------
(* The client call, ADM_transfer_datasets().                               *)

Goto(c, s) == pc' = [pc EXCEPT ![c] = s] /\ UNCHANGED ret

\* The call returns ec to the application.
Return(c, ec) ==
    /\ pc' = [pc EXCEPT ![c] = "idle"]
    /\ ret' = [ret EXCEPT ![c] = ec]

\* Calls that have yet to start a transfer; the bound counts them.
Starting == {c \in Clients : pc[c] \in {"td_find", "td_cargo"}}

Call(c) ==
    /\ pc[c] = "idle"
    /\ cargo_next + Cardinality(Starting) < MaxTransfers
    /\ \E j \in Jobs, q \in Limits \cup {None}, w \in BOOLEAN :
           /\ c_job' = [c_job EXCEPT ![c] = j]
           /\ c_qos' = [c_qos EXCEPT ![c] = q]
           /\ c_wait' = [c_wait EXCEPT ![c] = w]
    /\ c_tx' = [c_tx EXCEPT ![c] = None]
    /\ c_id' = [c_id EXCEPT ![c] = None]
    /\ pc' = [pc EXCEPT ![c] = "td_find"]
    /\ ret' = [ret EXCEPT ![c] = None]
    /\ UNCHANGED <<jobs, manager, scheduler, m_shutting_down, cargo>>

\* Looking up the server or calling it fails.
CallFails(c) ==
    /\ pc[c] \in {"td_find", "qt_job"}
    /\ Return(c, "other")
    /\ UNCHANGED <<jobs, manager, scheduler, m_shutting_down, cargo, args,
                   c_tx, c_id>>

----------------------------------------------------------------------------
(* The handler of ADM_transfer_datasets.                                   *)

\* The error code both handlers answer with before they look at transfers.
CheckJob(j) ==
    IF j \notin jobs THEN "no_such_entity"
    ELSE IF j \notin AdhocJobs THEN "no_resources"
    ELSE "success"

TransferFindJob(c) ==
    LET ec == CheckJob(c_job[c]) IN
    /\ pc[c] = "td_find"
    /\ IF ec = "success" THEN Goto(c, "td_cargo") ELSE Return(c, ec)
    /\ UNCHANGED <<jobs, manager, scheduler, m_shutting_down, cargo, args,
                   c_tx, c_id>>

\* cargo::transfer_datasets() runs before the transfer is registered.
TransferCargo(c) ==
    /\ pc[c] = "td_cargo"
    /\ cargo_next < MaxTransfers
    /\ cargo_state' = [cargo_state EXCEPT ![cargo_next] = "pending"]
    /\ cargo_next' = cargo_next + 1
    /\ c_tx' = [c_tx EXCEPT ![c] = cargo_next]
    /\ Goto(c, "td_id")
    /\ UNCHANGED <<jobs, manager, scheduler, m_shutting_down, cargo_signal,
                   args, c_id>>

\* Mutant of TransferId: the size of the map is taken for the next id.
TransferIdFromSize(c) ==
    /\ pc[c] = "td_id"
    /\ current_id < MaxTransfers
    /\ current_id' = current_id + 1
    /\ c_id' = [c_id EXCEPT ![c] = Cardinality(m_transfer)]
    /\ Goto(c, "td_emplace")
    /\ UNCHANGED <<jobs, m_transfer, m_handle, m_qos, m_measured_bandwidth,
                   scheduler, m_shutting_down, cargo, args, c_tx>>

\* transfer_manager::create() draws the id outside the lock ...
TransferId(c) ==
    /\ pc[c] = "td_id"
    /\ current_id < MaxTransfers
    /\ current_id' = current_id + 1
    /\ c_id' = [c_id EXCEPT ![c] = current_id]
    /\ Goto(c, "td_emplace")
    /\ UNCHANGED <<jobs, m_transfer, m_handle, m_qos, m_measured_bandwidth,
                   scheduler, m_shutting_down, cargo, args, c_tx>>

\* ... and emplaces the metadata under it, once the scheduler lets go.
TransferEmplace(c) ==
    LET id == c_id[c] IN
    /\ pc[c] = "td_emplace"
    /\ ~locked
    /\ IF id \notin m_transfer
       THEN /\ m_transfer' = m_transfer \cup {id}
            /\ m_handle' = [m_handle EXCEPT ![id] = c_tx[c]]
            /\ m_qos' = [m_qos EXCEPT ![id] = c_qos[c]]
            /\ m_measured_bandwidth' = [m_measured_bandwidth EXCEPT ![id] = -1]
            /\ IF c_wait[c] THEN Goto(c, "qt_job") ELSE Return(c, "success")
       ELSE /\ Return(c, "entity_exists")
            /\ UNCHANGED <<m_transfer, m_handle, m_qos, m_measured_bandwidth>>
    /\ UNCHANGED <<jobs, current_id, scheduler, m_shutting_down, cargo, args,
                   c_tx, c_id>>

----------------------------------------------------------------------------
(* The handler of ADM_query_transfer and the client's wait loop around it. *)

\* The wait loop takes no_such_entity, whatever is missing, for the end of
\* the transfer.
WaitResult(ec) == IF ec = "no_such_entity" THEN "success" ELSE ec

QueryFindJob(c) ==
    LET ec == CheckJob(c_job[c]) IN
    /\ pc[c] = "qt_job"
    /\ IF ec = "success" THEN Goto(c, "qt_find")
                         ELSE Return(c, WaitResult(ec))
    /\ UNCHANGED <<jobs, manager, scheduler, m_shutting_down, cargo, args,
                   c_tx, c_id>>

\* transfer_manager::find() under the shared lock.
QueryFindTransfer(c) ==
    /\ pc[c] = "qt_find"
    /\ ~locked
    /\ IF c_id[c] \in m_transfer
       THEN Goto(c, "qt_status")
       ELSE Return(c, WaitResult("no_such_entity"))
    /\ UNCHANGED <<jobs, manager, scheduler, m_shutting_down, cargo, args,
                   c_tx, c_id>>

\* Mutant of QueryStatus: a queued transfer ends the wait.
QueryStatusQueuedEnds(c) ==
    /\ pc[c] = "qt_status"
    /\ IF cargo_state[m_handle[c_id[c]]] = "running"
       THEN Goto(c, "qt_job")
       ELSE Return(c, "success")
    /\ UNCHANGED <<jobs, manager, scheduler, m_shutting_down, cargo, args,
                   c_tx, c_id>>

\* Cargo is asked through the metadata found, outside the lock.  The client
\* sleeps and asks again while the transfer is queued or running.
QueryStatus(c) ==
    /\ pc[c] = "qt_status"
    /\ IF cargo_state[m_handle[c_id[c]]] \in {"pending", "running"}
       THEN Goto(c, "qt_job")
       ELSE Return(c, "success")
    /\ UNCHANGED <<jobs, manager, scheduler, m_shutting_down, cargo, args,
                   c_tx, c_id>>

\* ADM_remove_job, at any time (see ScordRegistry).
RemoveJob(j) ==
    /\ j \in jobs
    /\ jobs' = jobs \ {j}
    /\ UNCHANGED <<manager, scheduler, m_shutting_down, cargo, client>>

----------------------------------------------------------------------------
(* The scheduler thread, rpc_server::scheduler_update().                   *)

\* Mutant of bw_control: the test for speeding up comes first.
bw_control_swapped(bw, qos) ==
    IF 9 * bw < 10 * qos THEN -1 ELSE IF 11 * bw > 10 * qos THEN 1 ELSE 0

\* The signal for a measured bandwidth and a limit, with the threshold of
\* 0.1: +1 slows the transfer down, -1 speeds it up, 0 is no signal.
bw_control(bw, qos) ==
    IF 11 * bw > 10 * qos THEN 1 ELSE IF 9 * bw < 10 * qos THEN -1 ELSE 0

\* Mutant of SchedLoop: the shutdown flag is not looked at.
SchedLoopForever ==
    /\ spc = "loop" /\ v_ids = {}
    /\ spc' = "lock"
    /\ UNCHANGED <<jobs, manager, locked, todo, cur, v_ids, m_shutting_down,
                   cargo, client>>

\* while(!m_shutting_down) { sleep(1); ...
SchedLoop ==
    /\ spc = "loop" /\ v_ids = {}
    /\ spc' = IF m_shutting_down THEN "done" ELSE "lock"
    /\ UNCHANGED <<jobs, manager, locked, todo, cur, v_ids, m_shutting_down,
                   cargo, client>>

\* The lock is taken and the map copied.
SchedLock ==
    /\ spc = "lock" /\ ~locked
    /\ locked' = TRUE
    /\ todo' = m_transfer
    /\ spc' = "scan"
    /\ UNCHANGED <<jobs, manager, cur, v_ids, m_shutting_down, cargo, client>>

\* Mutant of Ended: a transfer that has not started counts as over.
EndedPending(state) == state \in Over \cup {"pending"}

\* Mutant of Ended: a failed transfer is kept.
EndedCompleted(state) == state = "completed"

\* The states whose transfers are put aside for removal.
Ended(state) == state \in Over

\* One transfer of the copy: Cargo is asked for its status.
SchedStatus(id) ==
    LET state == cargo_state[m_handle[id]] IN
    /\ spc = "scan"
    /\ id \in todo
    /\ todo' = todo \ {id}
    /\ v_ids' = IF Ended(state) THEN v_ids \cup {id} ELSE v_ids
    /\ \/ /\ state # "running"
          /\ UNCHANGED <<m_measured_bandwidth, spc, cur>>
       \/ /\ state = "running"
          /\ \E bw \in Bandwidths :
                /\ m_measured_bandwidth' =
                       [m_measured_bandwidth EXCEPT ![id] = bw]
                /\ IF m_qos[id] = None \/ bw = -1
                   THEN UNCHANGED <<spc, cur>>
                   ELSE spc' = "control" /\ cur' = id
    /\ UNCHANGED <<jobs, current_id, m_transfer, m_handle, m_qos, locked,
                   m_shutting_down, cargo_state, cargo_next, cargo_signal,
                   client>>

\* The signal is sent, if there is one to send.
SchedControl ==
    LET signal == bw_control(m_measured_bandwidth[cur], m_qos[cur]) IN
    /\ spc = "control"
    /\ cargo_signal' = IF signal = 0 THEN cargo_signal
                       ELSE [cargo_signal EXCEPT ![m_handle[cur]] = signal]
    /\ spc' = "scan"
    /\ cur' = None
    /\ UNCHANGED <<jobs, manager, locked, todo, v_ids, m_shutting_down,
                   cargo_state, cargo_next, client>>

\* Mutant of SchedUnlock: the lock is kept.
SchedUnlockForgotten ==
    /\ spc = "scan" /\ todo = {}
    /\ spc' = "loop"
    /\ UNCHANGED <<jobs, manager, locked, todo, cur, v_ids, m_shutting_down,
                   cargo, client>>

SchedUnlock ==
    /\ spc = "scan" /\ todo = {}
    /\ locked' = FALSE
    /\ spc' = "loop"
    /\ UNCHANGED <<jobs, manager, todo, cur, v_ids, m_shutting_down, cargo,
                   client>>

\* transfer_manager::remove(), each in a critical section of its own.
SchedRemove(id) ==
    /\ spc = "loop" /\ ~locked
    /\ id \in v_ids
    /\ m_transfer' = m_transfer \ {id}
    /\ v_ids' = v_ids \ {id}
    /\ UNCHANGED <<jobs, current_id, m_handle, m_qos, m_measured_bandwidth,
                   locked, spc, todo, cur, m_shutting_down, cargo, client>>

\* network::server::shutdown(), from the signal handler.
Shutdown ==
    /\ ~m_shutting_down
    /\ m_shutting_down' = TRUE
    /\ UNCHANGED <<jobs, manager, scheduler, cargo, client>>

----------------------------------------------------------------------------
(* Cargo: a transfer starts, and completes or fails.                       *)

CargoStart(t) ==
    /\ cargo_state[t] = "pending"
    /\ cargo_state' = [cargo_state EXCEPT ![t] = "running"]
    /\ UNCHANGED <<jobs, manager, scheduler, m_shutting_down, cargo_next,
                   cargo_signal, client>>

CargoEnd(t) ==
    /\ \E state \in Over :
           /\ \/ cargo_state[t] = "running"
              \/ cargo_state[t] = "pending" /\ state = "failed"
           /\ cargo_state' = [cargo_state EXCEPT ![t] = state]
    /\ UNCHANGED <<jobs, manager, scheduler, m_shutting_down, cargo_next,
                   cargo_signal, client>>

----------------------------------------------------------------------------

ClientStep(c) ==
    \/ CallFails(c)
    \/ TransferFindJob(c)
    \/ TransferCargo(c)
    \/ TransferId(c)
    \/ TransferEmplace(c)
    \/ QueryFindJob(c)
    \/ QueryFindTransfer(c)
    \/ QueryStatus(c)

SchedulerStep ==
    \/ SchedLoop
    \/ SchedLock
    \/ \E id \in Ids : SchedStatus(id)
    \/ SchedControl
    \/ SchedUnlock
    \/ \E id \in Ids : SchedRemove(id)

CargoStep(t) == CargoStart(t) \/ CargoEnd(t)

Next ==
    \/ \E c \in Clients : Call(c) \/ ClientStep(c)
    \/ \E j \in Jobs : RemoveJob(j)
    \/ SchedulerStep
    \/ Shutdown
    \/ \E t \in Txs : CargoStep(t)

Spec == Init /\ [][Next]_vars

\* A handler waiting for the lock is woken when the scheduler releases it,
\* and the scheduler then sleeps for a second: strong fairness.  The
\* scheduler's stream runs nothing else, and Cargo answers its calls.  A
\* transfer Cargo has accepted ends at some point: this is Cargo's promise.
FairSpec ==
    /\ Spec
    /\ \A c \in Clients : SF_vars(ClientStep(c))
    /\ WF_vars(SchedulerStep)
    /\ \A t \in Txs : WF_vars(CargoEnd(t))

----------------------------------------------------------------------------
(* Properties.                                                             *)

\* A transfer that scord has registered stays registered until it is over
\* in Cargo: neither the removal outside the lock nor an id drawn outside it
\* loses a transfer that still runs (rpc_server.cpp:963-1014).
LiveTransferRegistered ==
    \A id \in Ids :
        (m_handle[id] # None /\ id \notin m_transfer)
            => cargo_state[m_handle[id]] \in Over

\* The transfer id a client waits for stands for the Cargo transfer that
\* was started for its call (transfer_manager.hpp:45-68,
\* rpc_server.cpp:853-872).
OwnTransfer ==
    \A c \in Clients :
        pc[c] \in {"qt_job", "qt_find", "qt_status"} =>
            c_tx[c] # None /\ m_handle[c_id[c]] = c_tx[c]

\* When a waiting ADM_transfer_datasets() returns success, its transfer is
\* over, or the job has been removed meanwhile: taking no_such_entity for
\* success is right about the former (c_wrapper.cpp:254-281).
SuccessMeansOver ==
    \A c \in Clients :
        (pc[c] = "idle" /\ ret[c] = "success" /\ c_wait[c]) =>
            \/ c_job[c] \notin jobs
            \/ c_tx[c] # None /\ cargo_state[c_tx[c]] \in Over

\* The last signal of a transfer is to speed up only if the last bandwidth
\* measured for it was below its limit (rpc_server.cpp:986-1007).
SpeedUpOnlyBelowLimit ==
    \A id \in m_transfer :
        (spc # "control" /\ cargo_signal[m_handle[id]] = -1
           /\ m_measured_bandwidth[id] # -1)
            => m_measured_bandwidth[id] < m_qos[id]

\* A client that waits gets its answer, unless the daemon is shut down: the
\* scheduler's long critical sections do not starve it.
WaitingClientReturns ==
    \A c \in Clients : pc[c] # "idle" ~> (pc[c] = "idle" \/ m_shutting_down)

\* A transfer that is over leaves the transfer manager, so that the map does
\* not grow for ever (rpc_server.cpp:1010-1013).
EndedTransferCollected ==
    \A id \in Ids :
        (id \in m_transfer /\ cargo_state[m_handle[id]] \in Over)
            ~> (id \notin m_transfer \/ m_shutting_down)

\* A shutdown ends the scheduler, which the prefinalize callback joins
\* (rpc_server.cpp:106-111).
SchedulerStops == m_shutting_down ~> spc = "done"

----------------------------------------------------------------------------
(* The inductive invariant.                                                *)

\* Where each client is, its locals are set, and the ids drawn are its own.
ClientLocals ==
    \A c \in Clients :
        /\ pc[c] \in {"td_id", "td_emplace"} =>
              c_tx[c] \in Txs /\ cargo_state[c_tx[c]] # "none"
        /\ pc[c] = "td_emplace" =>
              /\ c_id[c] \in Ids /\ c_id[c] < current_id
              /\ m_handle[c_id[c]] = None
              /\ \A d \in Clients \ {c} :
                    pc[d] = "td_emplace" => c_id[d] # c_id[c]
        /\ pc[c] \in {"qt_job", "qt_find", "qt_status"} => c_id[c] \in Ids

\* Registered transfers have metadata, made from a drawn id; what the
\* scheduler holds is registered, and what it will remove is over.
SchedulerHolds ==
    /\ \A id \in m_transfer : m_handle[id] # None
    /\ \A id \in Ids : m_handle[id] # None => id < current_id
    /\ todo \subseteq m_transfer
    /\ todo # {} => locked
    /\ spc \in {"scan", "control"} <=> locked
    /\ \A id \in v_ids :
          m_handle[id] # None /\ cargo_state[m_handle[id]] \in Over
    /\ spc = "control" => cur \in Ids /\ m_handle[cur] # None

\* Cargo numbers its transfers in the order it accepts them, and scord
\* registers accepted ones only.
CargoAccepted ==
    /\ \A t \in Txs : t >= cargo_next => cargo_state[t] = "none"
    /\ \A id \in Ids :
          m_handle[id] # None => cargo_state[m_handle[id]] # "none"

\* The inductive invariant of the transfer manager, its scheduler and its
\* clients: removals are decided under the lock and carried out after it,
\* which is sound because what they rest on is stable (rpc_server.cpp:963).
TransferInv ==
    /\ TypeOK
    /\ ClientLocals
    /\ SchedulerHolds
    /\ CargoAccepted
    /\ LiveTransferRegistered
    /\ OwnTransfer
    /\ SuccessMeansOver

----------------------------------------------------------------------------
(* What the repository says of the program and the code does not do.       *)

\* "adhoc storage transfer failed" is what the Slurm plugin reports unless
\* the waiting call returns ADM_SUCCESS (slurmadmcli.c:666-670): success
\* means that the data has been transferred.
WaitSuccessMeansCompleted ==
    \A c \in Clients :
        (pc[c] = "idle" /\ ret[c] = "success" /\ c_wait[c])
            => cargo_state[c_tx[c]] = "completed"
============================================================================
