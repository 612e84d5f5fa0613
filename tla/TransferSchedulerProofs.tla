---------------------- MODULE TransferSchedulerProofs ----------------------
(***************************************************************************)
(* Proofs about TransferScheduler, for any number of clients, jobs and     *)
(* transfers.  The argument is the inductive invariant TransferInv.  What  *)
(* makes the removal of transfers outside the lock sound is that "over" is *)
(* a stable state of a Cargo transfer and that ids are never drawn twice.  *)
(***************************************************************************)
EXTENDS TransferScheduler, TLAPS

\* The initial state satisfies the invariant.
LEMMA InitInv == Init => TransferInv
<1> SUFFICES ASSUME Init PROVE TransferInv
  OBVIOUS
<1>a. 0 \in 0 .. MaxTransfers
  BY TransferAssumption
<1>1. TypeOK
  BY <1>a DEF Init, TypeOK, CargoStates, ClientSteps
<1>2. ClientLocals /\ OwnTransfer /\ SuccessMeansOver
  BY DEF Init, ClientLocals, OwnTransfer, SuccessMeansOver
<1>3. SchedulerHolds /\ CargoAccepted /\ LiveTransferRegistered
  BY DEF Init, SchedulerHolds, CargoAccepted, LiveTransferRegistered
<1> QED
  BY <1>1, <1>2, <1>3 DEF TransferInv

\* A new call preserves the invariant: its locals are reset.
LEMMA CallInv ==
    ASSUME TransferInv, NEW c \in Clients, Call(c)
    PROVE  TransferInv'
<1> USE DEF TransferInv, Call, manager, scheduler, cargo
<1>1. ClientLocals'
  BY DEF TypeOK, ClientLocals
<1>2. OwnTransfer'
  BY DEF TypeOK, OwnTransfer
<1>3. SuccessMeansOver'
  BY DEF TypeOK, SuccessMeansOver
<1>4. SchedulerHolds' /\ CargoAccepted' /\ LiveTransferRegistered'
  BY DEF SchedulerHolds, CargoAccepted, LiveTransferRegistered
<1>5. TypeOK'
  BY DEF TypeOK, ErrorCodes, ClientSteps
<1> QED
  BY <1>1, <1>2, <1>3, <1>4, <1>5

\* A call that cannot reach the server returns an error, not success.
LEMMA CallFailsInv ==
    ASSUME TransferInv, NEW c \in Clients, CallFails(c)
    PROVE  TransferInv'
<1> USE DEF TransferInv, CallFails, Return, manager, scheduler, cargo, args
<1>1. ClientLocals'
  BY DEF TypeOK, ClientLocals
<1>2. OwnTransfer'
  BY DEF TypeOK, OwnTransfer
<1>3. SuccessMeansOver'
  BY DEF TypeOK, SuccessMeansOver
<1>4. SchedulerHolds' /\ CargoAccepted' /\ LiveTransferRegistered'
  BY DEF SchedulerHolds, CargoAccepted, LiveTransferRegistered
<1>5. TypeOK'
  BY DEF TypeOK, ErrorCodes, ClientSteps
<1> QED
  BY <1>1, <1>2, <1>3, <1>4, <1>5

\* Checking the job of a transfer preserves the invariant.
LEMMA TransferFindJobInv ==
    ASSUME TransferInv, NEW c \in Clients, TransferFindJob(c)
    PROVE  TransferInv'
<1> USE DEF TransferInv, TransferFindJob, CheckJob, Goto, Return, manager, scheduler, cargo, args
<1>1. ClientLocals'
  BY DEF TypeOK, ClientLocals
<1>2. OwnTransfer'
  BY DEF TypeOK, OwnTransfer
<1>3. SuccessMeansOver'
  BY DEF TypeOK, SuccessMeansOver
<1>4. SchedulerHolds' /\ CargoAccepted' /\ LiveTransferRegistered'
  BY DEF SchedulerHolds, CargoAccepted, LiveTransferRegistered
<1>5. TypeOK'
  BY DEF TypeOK, ErrorCodes, ClientSteps
<1> QED
  BY <1>1, <1>2, <1>3, <1>4, <1>5

\* Starting a transfer in Cargo preserves the invariant: no transfer that was
\* over starts again.
LEMMA TransferCargoInv ==
    ASSUME TransferInv, NEW c \in Clients, TransferCargo(c)
    PROVE  TransferInv'
<1> USE DEF TransferInv, TransferCargo, Goto, manager, scheduler, args
<1>1. cargo_state[cargo_next] = "none" /\ cargo_next \in Txs
  BY TransferAssumption DEF TypeOK, CargoAccepted, Txs, Ids
<1>2. ClientLocals'
  BY <1>1 DEF TypeOK, ClientLocals
<1>3. OwnTransfer' /\ SuccessMeansOver'
  BY <1>1 DEF TypeOK, OwnTransfer, SuccessMeansOver, Over
<1>4. SchedulerHolds' /\ LiveTransferRegistered'
  BY <1>1 DEF TypeOK, SchedulerHolds, LiveTransferRegistered, Over
<1>5. CargoAccepted'
  BY <1>1 DEF TypeOK, CargoAccepted, Txs, Ids
<1>6. TypeOK'
  BY <1>1, TransferAssumption DEF TypeOK, CargoStates, ClientSteps
<1> QED
  BY <1>2, <1>3, <1>4, <1>5, <1>6

\* Drawing a transfer id preserves the invariant: it is at the counter, above
\* every id in use.
LEMMA TransferIdInv ==
    ASSUME TransferInv, NEW c \in Clients, TransferId(c)
    PROVE  TransferInv'
<1> USE DEF TransferInv, TransferId, Goto, scheduler, cargo, args
<1>1. current_id \in Ids /\ m_handle[current_id] = None
  BY TransferAssumption DEF TypeOK, SchedulerHolds, Ids
<1>2. ClientLocals'
  BY <1>1 DEF TypeOK, ClientLocals, Ids
<1>3. OwnTransfer' /\ SuccessMeansOver'
  BY DEF TypeOK, OwnTransfer, SuccessMeansOver
<1>4. SchedulerHolds'
  BY DEF TypeOK, SchedulerHolds, Ids
<1>5. CargoAccepted' /\ LiveTransferRegistered'
  BY DEF CargoAccepted, LiveTransferRegistered
<1>6. TypeOK'
  BY <1>1, TransferAssumption DEF TypeOK, ClientSteps
<1> QED
  BY <1>2, <1>3, <1>4, <1>5, <1>6

\* Registering a transfer preserves the invariant: its id is fresh.
LEMMA TransferEmplaceInv ==
    ASSUME TransferInv, NEW c \in Clients, TransferEmplace(c)
    PROVE  TransferInv'
<1> DEFINE id == c_id[c]
<1> USE DEF TransferInv, scheduler, cargo, args
<1>1. /\ pc[c] = "td_emplace" /\ ~locked
      /\ id \in Ids /\ id < current_id /\ m_handle[id] = None
      /\ c_tx[c] \in Txs /\ cargo_state[c_tx[c]] # "none"
      /\ id \notin m_transfer
      /\ \A d \in Clients \ {c} : pc[d] = "td_emplace" => c_id[d] # id
  BY DEF TransferEmplace, ClientLocals, SchedulerHolds
<1>2. /\ m_transfer' = m_transfer \cup {id}
      /\ m_handle' = [m_handle EXCEPT ![id] = c_tx[c]]
      /\ m_qos' = [m_qos EXCEPT ![id] = c_qos[c]]
      /\ m_measured_bandwidth' = [m_measured_bandwidth EXCEPT ![id] = -1]
      /\ UNCHANGED <<jobs, current_id, scheduler, m_shutting_down, cargo, args,
                     c_tx, c_id>>
  BY <1>1 DEF TransferEmplace
<1>3. \/ c_wait[c] /\ Goto(c, "qt_job")
      \/ ~c_wait[c] /\ Return(c, "success")
  BY <1>1 DEF TransferEmplace
<1>4. c_tx[c] # None
  BY <1>1, TransferAssumption DEF Txs, Ids
<1> HIDE DEF id
<1>5. TypeOK'
  <2>1. pc' \in [Clients -> ClientSteps] /\ ret' \in [Clients -> ErrorCodes \cup {None}]
    BY <1>3 DEF TypeOK, Goto, Return, ClientSteps, ErrorCodes
  <2>2. m_transfer' \subseteq Ids /\ m_handle' \in [Ids -> Txs \cup {None}]
    BY <1>1, <1>2 DEF TypeOK
  <2>3. m_qos' \in [Ids -> Limits \cup {None}]
    BY <1>1, <1>2 DEF TypeOK
  <2>4. m_measured_bandwidth' \in [Ids -> Bandwidths \cup {-1}]
    BY <1>1, <1>2 DEF TypeOK
  <2> QED
    BY <1>2, <2>1, <2>2, <2>3, <2>4 DEF TypeOK
<1>6. ClientLocals'
  BY <1>1, <1>2, <1>3 DEF TypeOK, ClientLocals, Goto, Return, id
<1>7. SchedulerHolds'
  BY <1>1, <1>2, <1>4 DEF TypeOK, SchedulerHolds
<1>8. CargoAccepted' /\ LiveTransferRegistered'
  BY <1>1, <1>2 DEF TypeOK, CargoAccepted, LiveTransferRegistered
<1>9. OwnTransfer'
  BY <1>1, <1>2, <1>3, <1>4 DEF TypeOK, ClientLocals, OwnTransfer, Goto, Return, id
<1>10. SuccessMeansOver'
  BY <1>1, <1>2, <1>3 DEF TypeOK, SuccessMeansOver, Goto, Return
<1> QED
  BY <1>5, <1>6, <1>7, <1>8, <1>9, <1>10

\* A poll whose job is gone returns success, which the invariant allows.
LEMMA QueryFindJobInv ==
    ASSUME TransferInv, NEW c \in Clients, QueryFindJob(c)
    PROVE  TransferInv'
<1> USE DEF TransferInv, QueryFindJob, CheckJob, Goto, Return, WaitResult, manager, scheduler, cargo, args
<1>1. ClientLocals'
  BY DEF TypeOK, ClientLocals
<1>2. OwnTransfer'
  BY DEF TypeOK, OwnTransfer
<1>3. SuccessMeansOver'
  BY DEF TypeOK, SuccessMeansOver
<1>4. SchedulerHolds' /\ CargoAccepted' /\ LiveTransferRegistered'
  BY DEF SchedulerHolds, CargoAccepted, LiveTransferRegistered
<1>5. TypeOK'
  BY DEF TypeOK, ErrorCodes, ClientSteps
<1> QED
  BY <1>1, <1>2, <1>3, <1>4, <1>5

\* A poll that finds no transfer returns success: the transfer is over.
LEMMA QueryFindTransferInv ==
    ASSUME TransferInv, NEW c \in Clients, QueryFindTransfer(c)
    PROVE  TransferInv'
<1> USE DEF TransferInv, QueryFindTransfer, Goto, Return, WaitResult, manager, scheduler, cargo, args
<1>1. ClientLocals'
  BY DEF TypeOK, ClientLocals
<1>2. OwnTransfer'
  BY DEF TypeOK, OwnTransfer
<1>3. SuccessMeansOver'
  BY DEF TypeOK, SuccessMeansOver, OwnTransfer, ClientLocals, LiveTransferRegistered
<1>4. SchedulerHolds' /\ CargoAccepted' /\ LiveTransferRegistered'
  BY DEF SchedulerHolds, CargoAccepted, LiveTransferRegistered
<1>5. TypeOK'
  BY DEF TypeOK, ErrorCodes, ClientSteps
<1> QED
  BY <1>1, <1>2, <1>3, <1>4, <1>5

\* A poll that reads a final status returns success: the transfer is over.
LEMMA QueryStatusInv ==
    ASSUME TransferInv, NEW c \in Clients, QueryStatus(c)
    PROVE  TransferInv'
<1> USE DEF TransferInv, QueryStatus, Goto, Return, manager, scheduler, cargo, args
<1>1. ClientLocals'
  BY DEF TypeOK, ClientLocals
<1>2. OwnTransfer'
  BY DEF TypeOK, OwnTransfer
<1>3. SuccessMeansOver'
  BY DEF TypeOK, SuccessMeansOver, OwnTransfer, ClientLocals, CargoAccepted, CargoStates, Over
<1>4. SchedulerHolds' /\ CargoAccepted' /\ LiveTransferRegistered'
  BY DEF SchedulerHolds, CargoAccepted, LiveTransferRegistered
<1>5. TypeOK'
  BY DEF TypeOK, ErrorCodes, ClientSteps
<1> QED
  BY <1>1, <1>2, <1>3, <1>4, <1>5

\* Removing a job preserves the invariant.
LEMMA RemoveJobInv ==
    ASSUME TransferInv, NEW j \in Jobs, RemoveJob(j)
    PROVE  TransferInv'
<1> USE DEF TransferInv, RemoveJob, manager, scheduler, cargo, client, args
<1>1. ClientLocals' /\ OwnTransfer' /\ SuccessMeansOver'
  BY DEF ClientLocals, OwnTransfer, SuccessMeansOver
<1>2. SchedulerHolds' /\ CargoAccepted' /\ LiveTransferRegistered'
  BY DEF SchedulerHolds, CargoAccepted, LiveTransferRegistered
<1>3. TypeOK'
  BY DEF TypeOK
<1> QED
  BY <1>1, <1>2, <1>3

\* The head of the scheduler's loop preserves the invariant.
LEMMA SchedLoopInv ==
    ASSUME TransferInv, SchedLoop
    PROVE  TransferInv'
<1> USE DEF TransferInv, SchedLoop, manager, cargo, client, args
<1>1. ClientLocals' /\ OwnTransfer' /\ SuccessMeansOver'
  BY DEF ClientLocals, OwnTransfer, SuccessMeansOver
<1>2. SchedulerHolds' /\ CargoAccepted' /\ LiveTransferRegistered'
  BY DEF TypeOK, SchedulerHolds, CargoAccepted, LiveTransferRegistered
<1>3. TypeOK'
  BY DEF TypeOK
<1> QED
  BY <1>1, <1>2, <1>3

\* Copying the map under the lock preserves the invariant.
LEMMA SchedLockInv ==
    ASSUME TransferInv, SchedLock
    PROVE  TransferInv'
<1> USE DEF TransferInv, SchedLock, manager, cargo, client, args
<1>1. ClientLocals' /\ OwnTransfer' /\ SuccessMeansOver'
  BY DEF ClientLocals, OwnTransfer, SuccessMeansOver
<1>2. SchedulerHolds' /\ CargoAccepted' /\ LiveTransferRegistered'
  BY DEF TypeOK, SchedulerHolds, CargoAccepted, LiveTransferRegistered
<1>3. TypeOK'
  BY DEF TypeOK
<1> QED
  BY <1>1, <1>2, <1>3

\* Looking at one transfer preserves the invariant: it is put aside only if
\* it is over.
LEMMA SchedStatusInv ==
    ASSUME TransferInv, NEW id \in Ids, SchedStatus(id)
    PROVE  TransferInv'
<1> USE DEF TransferInv, SchedStatus, Ended, client, args
<1>1. ClientLocals' /\ OwnTransfer' /\ SuccessMeansOver'
  BY DEF ClientLocals, OwnTransfer, SuccessMeansOver
<1>2. SchedulerHolds'
  BY DEF TypeOK, SchedulerHolds
<1>3. CargoAccepted' /\ LiveTransferRegistered'
  BY DEF CargoAccepted, LiveTransferRegistered
<1>4. TypeOK'
  BY DEF TypeOK
<1> QED
  BY <1>1, <1>2, <1>3, <1>4

\* Sending a signal preserves the invariant.
LEMMA SchedControlInv ==
    ASSUME TransferInv, SchedControl
    PROVE  TransferInv'
<1> USE DEF TransferInv, SchedControl, bw_control, manager, client, args
<1>1. ClientLocals' /\ OwnTransfer' /\ SuccessMeansOver'
  BY DEF ClientLocals, OwnTransfer, SuccessMeansOver
<1>2. SchedulerHolds' /\ CargoAccepted' /\ LiveTransferRegistered'
  BY DEF TypeOK, SchedulerHolds, CargoAccepted, LiveTransferRegistered
<1>3. TypeOK'
  BY DEF TypeOK
<1> QED
  BY <1>1, <1>2, <1>3

\* Releasing the lock preserves the invariant.
LEMMA SchedUnlockInv ==
    ASSUME TransferInv, SchedUnlock
    PROVE  TransferInv'
<1> USE DEF TransferInv, SchedUnlock, manager, cargo, client, args
<1>1. ClientLocals' /\ OwnTransfer' /\ SuccessMeansOver'
  BY DEF ClientLocals, OwnTransfer, SuccessMeansOver
<1>2. SchedulerHolds' /\ CargoAccepted' /\ LiveTransferRegistered'
  BY DEF TypeOK, SchedulerHolds, CargoAccepted, LiveTransferRegistered
<1>3. TypeOK'
  BY DEF TypeOK
<1> QED
  BY <1>1, <1>2, <1>3

\* Removing a transfer preserves the invariant: it is over since the
\* scheduler put it aside.
LEMMA SchedRemoveInv ==
    ASSUME TransferInv, NEW id \in Ids, SchedRemove(id)
    PROVE  TransferInv'
<1> USE DEF TransferInv, SchedRemove, cargo, client, args
<1>1. ClientLocals' /\ OwnTransfer' /\ SuccessMeansOver'
  BY DEF ClientLocals, OwnTransfer, SuccessMeansOver
<1>2. SchedulerHolds'
  BY DEF TypeOK, SchedulerHolds
<1>3. CargoAccepted' /\ LiveTransferRegistered'
  BY DEF TypeOK, CargoAccepted, SchedulerHolds, LiveTransferRegistered
<1>4. TypeOK'
  BY DEF TypeOK
<1> QED
  BY <1>1, <1>2, <1>3, <1>4

\* A shutdown preserves the invariant.
LEMMA ShutdownInv ==
    ASSUME TransferInv, Shutdown
    PROVE  TransferInv'
<1> USE DEF TransferInv, Shutdown, manager, scheduler, cargo, client, args
<1>1. ClientLocals' /\ OwnTransfer' /\ SuccessMeansOver'
  BY DEF ClientLocals, OwnTransfer, SuccessMeansOver
<1>2. SchedulerHolds' /\ CargoAccepted' /\ LiveTransferRegistered'
  BY DEF SchedulerHolds, CargoAccepted, LiveTransferRegistered
<1>3. TypeOK'
  BY DEF TypeOK
<1> QED
  BY <1>1, <1>2, <1>3

\* A transfer that starts preserves the invariant: it was not over.
LEMMA CargoStartInv ==
    ASSUME TransferInv, NEW t \in Txs, CargoStart(t)
    PROVE  TransferInv'
<1> USE DEF TransferInv, manager, scheduler, client, args
<1>1. \A u \in Txs : /\ cargo_state[u] # "none" => cargo_state'[u] # "none"
                     /\ cargo_state[u] = "none" => cargo_state'[u] = "none"
                     /\ cargo_state[u] \in Over => cargo_state'[u] \in Over
  BY DEF CargoStart, TypeOK, Over
<1>2. UNCHANGED <<jobs, manager, scheduler, cargo_next, client>>
  BY DEF CargoStart
<1>3. ClientLocals' /\ OwnTransfer'
  BY <1>1, <1>2 DEF ClientLocals, OwnTransfer
<1>4. SuccessMeansOver'
  BY <1>1, <1>2 DEF TypeOK, SuccessMeansOver
<1>5. SchedulerHolds' /\ LiveTransferRegistered'
  BY <1>1, <1>2 DEF TypeOK, SchedulerHolds, LiveTransferRegistered
<1>6. CargoAccepted'
  BY <1>1, <1>2 DEF TypeOK, CargoAccepted
<1>7. TypeOK'
  BY DEF CargoStart, TypeOK, CargoStates
<1> QED
  BY <1>3, <1>4, <1>5, <1>6, <1>7

\* A transfer that ends preserves the invariant.
LEMMA CargoEndInv ==
    ASSUME TransferInv, NEW t \in Txs, CargoEnd(t)
    PROVE  TransferInv'
<1> USE DEF TransferInv, manager, scheduler, client, args
<1>1. \A u \in Txs : /\ cargo_state[u] # "none" => cargo_state'[u] # "none"
                     /\ cargo_state[u] = "none" => cargo_state'[u] = "none"
                     /\ cargo_state[u] \in Over => cargo_state'[u] \in Over
  BY DEF CargoEnd, TypeOK, Over
<1>2. UNCHANGED <<jobs, manager, scheduler, cargo_next, client>>
  BY DEF CargoEnd
<1>3. ClientLocals' /\ OwnTransfer'
  BY <1>1, <1>2 DEF ClientLocals, OwnTransfer
<1>4. SuccessMeansOver'
  BY <1>1, <1>2 DEF TypeOK, SuccessMeansOver
<1>5. SchedulerHolds' /\ LiveTransferRegistered'
  BY <1>1, <1>2 DEF TypeOK, SchedulerHolds, LiveTransferRegistered
<1>6. CargoAccepted'
  BY <1>1, <1>2 DEF TypeOK, CargoAccepted
<1>7. TypeOK'
  BY DEF CargoEnd, TypeOK, CargoStates, Over
<1> QED
  BY <1>3, <1>4, <1>5, <1>6, <1>7

\* A step in which nothing changes preserves the invariant.
LEMMA StutterInv == TransferInv /\ UNCHANGED vars => TransferInv'
<1> SUFFICES ASSUME TransferInv, UNCHANGED vars PROVE TransferInv'
  OBVIOUS
<1> USE DEF TransferInv, vars, manager, scheduler, cargo, client, args
<1>1. TypeOK'
  BY DEF TypeOK
<1>2. ClientLocals' /\ OwnTransfer' /\ SuccessMeansOver'
  BY DEF ClientLocals, OwnTransfer, SuccessMeansOver
<1>3. SchedulerHolds' /\ CargoAccepted' /\ LiveTransferRegistered'
  BY DEF SchedulerHolds, CargoAccepted, LiveTransferRegistered
<1> QED
  BY <1>1, <1>2, <1>3

\* Every step of the daemon, its clients and Cargo preserves the invariant.
LEMMA NextInv == TransferInv /\ [Next]_vars => TransferInv'
<1> SUFFICES ASSUME TransferInv, [Next]_vars PROVE TransferInv'
  OBVIOUS
<1>1. ASSUME NEW c \in Clients, Call(c) \/ ClientStep(c) PROVE TransferInv'
  BY <1>1, CallInv, CallFailsInv, TransferFindJobInv, TransferCargoInv, TransferIdInv,
     TransferEmplaceInv, QueryFindJobInv, QueryFindTransferInv, QueryStatusInv
     DEF ClientStep
<1>2. ASSUME NEW j \in Jobs, RemoveJob(j) PROVE TransferInv'
  BY <1>2, RemoveJobInv
<1>3. ASSUME SchedulerStep PROVE TransferInv'
  BY <1>3, SchedLoopInv, SchedLockInv, SchedStatusInv, SchedControlInv,
     SchedUnlockInv, SchedRemoveInv DEF SchedulerStep
<1>4. ASSUME NEW t \in Txs, CargoStep(t) PROVE TransferInv'
  BY <1>4, CargoStartInv, CargoEndInv DEF CargoStep
<1> QED
  BY <1>1, <1>2, <1>3, <1>4, ShutdownInv, StutterInv DEF Next

\* The inductive invariant holds in every reachable state, for any number of
\* clients, jobs and transfers.
THEOREM TransferInvariant == Spec => []TransferInv
<1> QED
  BY InitInv, NextInv, PTL DEF Spec

\* The variables of the transfer manager, the scheduler and the clients have
\* their types in every reachable state.
THEOREM TransferTypes == Spec => []TypeOK
<1>1. TransferInv => TypeOK
  BY DEF TransferInv
<1> QED
  BY <1>1, TransferInvariant, PTL

\* A transfer that is not over in Cargo is never dropped from the transfer
\* manager (rpc_server.cpp:963-1014).
THEOREM TransferNotLost == Spec => []LiveTransferRegistered
<1>1. TransferInv => LiveTransferRegistered
  BY DEF TransferInv
<1> QED
  BY <1>1, TransferInvariant, PTL

\* A client always polls the Cargo transfer of its own call
\* (transfer_manager.hpp:45-68).
THEOREM TransferIsOwn == Spec => []OwnTransfer
<1>1. TransferInv => OwnTransfer
  BY DEF TransferInv
<1> QED
  BY <1>1, TransferInvariant, PTL

\* Success of a waiting ADM_transfer_datasets() means that the transfer is
\* over, as long as the job is registered (c_wrapper.cpp:254-281).
THEOREM TransferWait == Spec => []SuccessMeansOver
<1>1. TransferInv => SuccessMeansOver
  BY DEF TransferInv
<1> QED
  BY <1>1, TransferInvariant, PTL

\* The scheduler's decision for every bandwidth and limit: above the limit
\* it is always to slow down, and to speed up only strictly below the limit
\* (rpc_server.cpp:1001-1007).
THEOREM ControlDecision ==
    ASSUME NEW bw \in Nat, NEW qos \in Nat
    PROVE  /\ bw > qos => bw_control(bw, qos) = 1
           /\ bw_control(bw, qos) = -1 => bw < qos
           /\ bw_control(bw, qos) = 0 => bw = 0 /\ qos = 0
BY DEF bw_control

----------------------------------------------------------------------------
(* The bandwidth control.  Beside TransferInv it needs that a signal reaches *)
(* the transfer whose bandwidth it answers: no two ids have one handle.      *)

\* A Cargo transfer belongs to one id, or to the call that has yet to register
\* it.
Accepting(c) == pc[c] \in {"td_id", "td_emplace"}
HandlesApart ==
    /\ \A i, j \in Ids : i # j /\ m_handle[i] # None => m_handle[i] # m_handle[j]
    /\ \A c \in Clients : Accepting(c) => \A i \in Ids : m_handle[i] # c_tx[c]
    /\ \A c, d \in Clients :
          c # d /\ Accepting(c) /\ Accepting(d) => c_tx[c] # c_tx[d]

\* Only a transfer that has a limit was ever sent a signal, and none was told
\* to speed up to a limit of 0.
SignalsHaveLimits ==
    \A t \in Txs : cargo_signal[t] # 0 =>
        \E i \in Ids : /\ m_handle[i] = t /\ m_qos[i] # None
                       /\ cargo_signal[t] = -1 => m_qos[i] > 0

\* The transfer about to be controlled has a limit and a bandwidth.
ControlHasLimit ==
    spc = "control" => m_qos[cur] # None /\ m_measured_bandwidth[cur] # -1

\* The property, of every id but the one about to be controlled.
SpeedUps ==
    \A i \in Ids :
        /\ m_handle[i] # None /\ cargo_signal[m_handle[i]] = -1
        /\ m_measured_bandwidth[i] # -1
        /\ ~(spc = "control" /\ cur = i)
        => m_qos[i] # None /\ m_measured_bandwidth[i] < m_qos[i]

SpeedInv == HandlesApart /\ SignalsHaveLimits /\ ControlHasLimit /\ SpeedUps

\* No transfer has the id None.
LEMMA NoneIsNoTransfer == None \notin Txs /\ Txs \subseteq Nat
  BY TransferAssumption DEF Txs, Ids

\* No transfer has been measured or signalled to begin with.
LEMMA InitSpeed == Init => SpeedInv
  BY DEF Init, SpeedInv, HandlesApart, Accepting, SignalsHaveLimits,
         ControlHasLimit, SpeedUps

\* A step that leaves the metadata and the signals alone, and accepts no
\* transfer.
LEMMA AsideSpeed ==
    ASSUME SpeedInv,
           UNCHANGED <<m_handle, m_qos, m_measured_bandwidth, cargo_signal>>,
           \A c \in Clients : Accepting(c)' => Accepting(c) /\ c_tx'[c] = c_tx[c],
           spc' = "control" <=> spc = "control", spc = "control" => cur' = cur
    PROVE  SpeedInv'
<1>1. HandlesApart'
  BY DEF SpeedInv, HandlesApart
<1>2. SignalsHaveLimits'
  BY DEF SpeedInv, SignalsHaveLimits
<1>3. ControlHasLimit'
  BY DEF SpeedInv, ControlHasLimit
<1>4. SpeedUps'
  BY DEF SpeedInv, SpeedUps
<1>. QED BY <1>1, <1>2, <1>3, <1>4 DEF SpeedInv

\* The clients' steps that accept nothing.
LEMMA ClientSpeed ==
    ASSUME TransferInv, SpeedInv, NEW c \in Clients,
           \/ Call(c) \/ CallFails(c) \/ TransferFindJob(c) \/ TransferId(c)
           \/ QueryFindJob(c) \/ QueryFindTransfer(c) \/ QueryStatus(c)
    PROVE  SpeedInv'
<1>1. UNCHANGED <<m_handle, m_qos, m_measured_bandwidth, cargo_signal, spc, cur>>
  BY DEF Call, CallFails, TransferFindJob, TransferId, QueryFindJob,
         QueryFindTransfer, QueryStatus, manager, scheduler, cargo
<1>2. ASSUME NEW d \in Clients, Accepting(d)'
      PROVE  Accepting(d) /\ c_tx'[d] = c_tx[d]
  BY <1>2 DEF TransferInv, TypeOK, Accepting, Goto, Return, Call, CallFails,
         TransferFindJob, TransferId, QueryFindJob, QueryFindTransfer, QueryStatus
<1>. QED BY <1>1, <1>2, AsideSpeed

\* The scheduler's steps outside the control, and those of everybody else.
LEMMA OtherSpeed ==
    ASSUME TransferInv, SpeedInv,
           \/ \E j \in Jobs : RemoveJob(j)
           \/ SchedLoop \/ SchedLock \/ SchedUnlock \/ Shutdown
           \/ \E id \in Ids : SchedRemove(id)
           \/ \E t \in Txs : CargoStep(t)
           \/ UNCHANGED vars
    PROVE  SpeedInv'
<1>1. /\ UNCHANGED <<m_handle, m_qos, m_measured_bandwidth, cargo_signal, cur, client>>
      /\ spc' = "control" <=> spc = "control"
  BY DEF RemoveJob, SchedLoop, SchedLock, SchedUnlock, Shutdown, SchedRemove,
         CargoStep, CargoStart, CargoEnd, manager, scheduler, cargo, vars
<1>2. \A c \in Clients : Accepting(c)' => Accepting(c) /\ c_tx'[c] = c_tx[c]
  BY <1>1 DEF client, Accepting
<1>. QED BY <1>1, <1>2, AsideSpeed

\* Cargo numbers a transfer it accepts as it has numbered none before.
LEMMA TransferCargoSpeed ==
    ASSUME TransferInv, SpeedInv, NEW c \in Clients, TransferCargo(c)
    PROVE  SpeedInv'
<1>1. /\ UNCHANGED <<m_handle, m_qos, m_measured_bandwidth, cargo_signal, spc, cur>>
      /\ pc \in [Clients -> ClientSteps] /\ c_tx \in [Clients -> Txs \cup {None}]
      /\ c_tx' = [c_tx EXCEPT ![c] = cargo_next]
      /\ pc' = [pc EXCEPT ![c] = "td_id"]
  BY DEF TransferCargo, Goto, manager, scheduler, TransferInv, TypeOK
<1>a. cargo_next \in Nat /\ cargo_next \in Txs
  BY TransferAssumption DEF TransferCargo, TransferInv, TypeOK, Txs, Ids
<1>b. m_handle \in [Ids -> Txs \cup {None}]
  BY DEF TransferInv, TypeOK
<1>2. /\ \A i \in Ids : m_handle[i] # cargo_next
      /\ \A d \in Clients : Accepting(d) => c_tx[d] # cargo_next
  <2>1. cargo_state[cargo_next] = "none"
    BY <1>a DEF TransferInv, CargoAccepted
  <2>2. ASSUME NEW i \in Ids PROVE m_handle[i] # cargo_next
    <3>1. m_handle[i] = None => m_handle[i] # cargo_next
      BY <1>a, NoneIsNoTransfer
    <3>2. m_handle[i] # None => cargo_state[m_handle[i]] # "none"
      BY DEF TransferInv, CargoAccepted
    <3>. QED BY <2>1, <3>1, <3>2
  <2>3. \A d \in Clients : Accepting(d) => c_tx[d] # cargo_next
    BY <2>1 DEF TransferInv, ClientLocals, Accepting
  <2>. QED BY <2>2, <2>3
<1>3. \A d \in Clients : d # c /\ Accepting(d)' => Accepting(d) /\ c_tx'[d] = c_tx[d]
  BY <1>1 DEF Accepting
<1>4. c_tx'[c] = cargo_next
  BY <1>1
<1>5. HandlesApart'
  <2>1. \A d \in Clients : Accepting(d)' => \A i \in Ids : m_handle'[i] # c_tx'[d]
    BY <1>1, <1>2, <1>3, <1>4 DEF SpeedInv, HandlesApart
  <2>2. \A b, d \in Clients :
            b # d /\ Accepting(b)' /\ Accepting(d)' => c_tx'[b] # c_tx'[d]
    BY <1>2, <1>3, <1>4 DEF SpeedInv, HandlesApart
  <2>. QED BY <1>1, <2>1, <2>2 DEF SpeedInv, HandlesApart
<1>6. SignalsHaveLimits' /\ ControlHasLimit' /\ SpeedUps'
  BY <1>1 DEF SpeedInv, SignalsHaveLimits, ControlHasLimit, SpeedUps
<1>. QED BY <1>5, <1>6 DEF SpeedInv

\* A transfer that is registered has no bandwidth yet, and was sent nothing.
LEMMA TransferEmplaceSpeed ==
    ASSUME TransferInv, SpeedInv, NEW c \in Clients, TransferEmplace(c)
    PROVE  SpeedInv'
<1>. DEFINE id == c_id[c]
<1>1. /\ pc[c] = "td_emplace" /\ UNCHANGED <<cargo_signal, spc, cur, c_tx>>
      /\ pc \in [Clients -> ClientSteps] /\ m_handle \in [Ids -> Txs \cup {None}]
      /\ m_qos \in [Ids -> Limits \cup {None}]
      /\ m_measured_bandwidth \in [Ids -> Bandwidths \cup {-1}]
      /\ id \in Ids /\ m_handle[id] = None
      /\ spc = "control" => cur \in Ids /\ m_handle[cur] # None
  BY DEF TransferEmplace, scheduler, cargo, TransferInv, TypeOK, ClientLocals,
         SchedulerHolds
<1>2. ~Accepting(c)' /\ \A d \in Clients \ {c} : Accepting(d)' <=> Accepting(d)
  BY <1>1 DEF TransferEmplace, Goto, Return, Accepting
<1>3. CASE id \in m_transfer
  <2>1. UNCHANGED <<m_handle, m_qos, m_measured_bandwidth>>
    BY <1>3 DEF TransferEmplace
  <2>. QED BY <1>1, <1>2, <2>1, AsideSpeed
<1>4. CASE id \notin m_transfer
  <2>1. /\ m_handle' = [m_handle EXCEPT ![id] = c_tx[c]]
        /\ m_qos' = [m_qos EXCEPT ![id] = c_qos[c]]
        /\ m_measured_bandwidth' = [m_measured_bandwidth EXCEPT ![id] = -1]
    BY <1>4 DEF TransferEmplace
  <2>2. Accepting(c) /\ \A i \in Ids : m_handle[i] # c_tx[c]
    BY <1>1 DEF Accepting, SpeedInv, HandlesApart
  <2>3. HandlesApart'
    BY <1>1, <1>2, <2>1, <2>2 DEF SpeedInv, HandlesApart
  <2>4. SignalsHaveLimits'
    <3>1. ASSUME NEW t \in Txs, cargo_signal[t] # 0
          PROVE  \E i \in Ids : /\ m_handle'[i] = t /\ m_qos'[i] # None
                                /\ cargo_signal[t] = -1 => m_qos'[i] > 0
      <4>1. PICK i \in Ids : /\ m_handle[i] = t /\ m_qos[i] # None
                             /\ cargo_signal[t] = -1 => m_qos[i] > 0
        BY <3>1 DEF SpeedInv, SignalsHaveLimits
      <4>2. i # id
        BY <1>1, <4>1, NoneIsNoTransfer
      <4>. QED BY <1>1, <2>1, <4>1, <4>2
    <3>. QED BY <1>1, <3>1 DEF SignalsHaveLimits
  <2>5. ControlHasLimit'
    BY <1>1, <2>1 DEF SpeedInv, ControlHasLimit
  <2>6. SpeedUps'
    BY <1>1, <2>1 DEF SpeedInv, SpeedUps
  <2>. QED BY <2>3, <2>4, <2>5, <2>6 DEF SpeedInv
<1>. QED BY <1>3, <1>4

\* A new bandwidth leads to the control, or there is no limit and no signal.
LEMMA SchedStatusSpeed ==
    ASSUME TransferInv, SpeedInv, NEW id \in Ids, SchedStatus(id)
    PROVE  SpeedInv'
<1>1. /\ spc = "scan" /\ UNCHANGED <<m_handle, m_qos, cargo_signal, client>>
      /\ m_handle \in [Ids -> Txs \cup {None}]
      /\ m_measured_bandwidth \in [Ids -> Bandwidths \cup {-1}]
  BY DEF SchedStatus, TransferInv, TypeOK
<1>2. HandlesApart' /\ SignalsHaveLimits'
  BY <1>1 DEF SpeedInv, HandlesApart, SignalsHaveLimits, Accepting, client
<1>3. CASE UNCHANGED <<m_measured_bandwidth, spc, cur>>
  BY <1>1, <1>2, <1>3 DEF SpeedInv, ControlHasLimit, SpeedUps
<1>4. ASSUME NEW bw \in Bandwidths,
             m_measured_bandwidth' = [m_measured_bandwidth EXCEPT ![id] = bw],
             m_qos[id] = None \/ bw = -1, UNCHANGED <<spc, cur>>
      PROVE  SpeedInv'
  <2>1. m_qos[id] = None /\ m_handle[id] # None => cargo_signal[m_handle[id]] = 0
    BY <1>1 DEF SpeedInv, HandlesApart, SignalsHaveLimits
  <2>2. ControlHasLimit'
    BY <1>1, <1>4 DEF ControlHasLimit
  <2>3. SpeedUps'
    BY <1>1, <1>4, <2>1 DEF SpeedInv, SpeedUps
  <2>. QED BY <1>2, <2>2, <2>3 DEF SpeedInv
<1>5. ASSUME NEW bw \in Bandwidths,
             m_measured_bandwidth' = [m_measured_bandwidth EXCEPT ![id] = bw],
             m_qos[id] # None, bw # -1, spc' = "control", cur' = id
      PROVE  SpeedInv'
  <2>1. ControlHasLimit'
    BY <1>1, <1>5 DEF ControlHasLimit
  <2>2. SpeedUps'
    BY <1>1, <1>5 DEF SpeedInv, SpeedUps
  <2>. QED BY <1>2, <2>1, <2>2 DEF SpeedInv
<1>. QED BY <1>3, <1>4, <1>5 DEF SchedStatus

\* The signal goes to the one transfer whose bandwidth was looked at.
LEMMA SchedControlSpeed ==
    ASSUME TransferInv, SpeedInv, SchedControl
    PROVE  SpeedInv'
<1>. DEFINE bw == m_measured_bandwidth[cur]
            qos == m_qos[cur]
            t == m_handle[cur]
            signal == bw_control(bw, qos)
<1>1. /\ spc = "control" /\ spc' = "scan"
      /\ UNCHANGED <<m_handle, m_qos, m_measured_bandwidth, client>>
      /\ cargo_signal' = IF signal = 0 THEN cargo_signal
                         ELSE [cargo_signal EXCEPT ![t] = signal]
  BY DEF SchedControl, manager
<1>2. /\ cur \in Ids /\ t \in Txs /\ cargo_signal \in [Txs -> {-1, 0, 1}]
      /\ m_handle \in [Ids -> Txs \cup {None}]
      /\ bw \in Nat /\ qos \in Nat /\ qos # None
  <2>1. /\ cur \in Ids /\ t # None
        /\ m_handle \in [Ids -> Txs \cup {None}]
        /\ cargo_signal \in [Txs -> {-1, 0, 1}]
        /\ m_qos \in [Ids -> Limits \cup {None}]
        /\ m_measured_bandwidth \in [Ids -> Bandwidths \cup {-1}]
    BY <1>1 DEF TransferInv, TypeOK, SchedulerHolds
  <2>2. qos # None /\ bw # -1
    BY <1>1 DEF SpeedInv, ControlHasLimit
  <2>. QED BY <2>1, <2>2, TransferAssumption
<1>3. signal = -1 => bw < qos
  BY <1>2, ControlDecision
<1>4. HandlesApart'
  BY <1>1 DEF SpeedInv, HandlesApart, Accepting, client
<1>5. SignalsHaveLimits'
  <2>1. ASSUME NEW u \in Txs, cargo_signal'[u] # 0
        PROVE  \E i \in Ids : /\ m_handle[i] = u /\ m_qos[i] # None
                              /\ cargo_signal'[u] = -1 => m_qos[i] > 0
    <3>1. CASE u = t /\ signal # 0
      BY <1>1, <1>2, <1>3, <3>1
    <3>2. CASE u # t \/ signal = 0
      <4>1. cargo_signal'[u] = cargo_signal[u]
        BY <1>1, <1>2, <3>2
      <4>. QED BY <2>1, <4>1 DEF SpeedInv, SignalsHaveLimits
    <3>. QED BY <3>1, <3>2
  <2>. QED BY <1>1, <2>1 DEF SignalsHaveLimits
<1>6. ControlHasLimit'
  BY <1>1 DEF ControlHasLimit
<1>7. SpeedUps'
  <2>1. ASSUME NEW i \in Ids, i # cur, m_handle[i] # None
        PROVE  m_handle[i] # t /\ cargo_signal'[m_handle[i]] = cargo_signal[m_handle[i]]
    BY <1>1, <1>2, <2>1 DEF SpeedInv, HandlesApart
  <2>2. cargo_signal'[t] = -1 => bw < qos \/ (signal = 0 /\ cargo_signal[t] = -1)
    BY <1>1, <1>2, <1>3
  <2>3. signal = 0 => ~(cargo_signal[t] = -1)
    <3>1. signal = 0 => qos = 0
      BY <1>2, ControlDecision
    <3>2. cargo_signal[t] = -1 => qos > 0
      <4>1. SUFFICES ASSUME cargo_signal[t] = -1 PROVE qos > 0
        OBVIOUS
      <4>2. PICK i \in Ids : m_handle[i] = t /\ m_qos[i] > 0
        BY <1>2, <4>1 DEF SpeedInv, SignalsHaveLimits
      <4>3. m_handle[i] # None
        BY <1>2, <4>2, NoneIsNoTransfer
      <4>4. i = cur
        BY <2>1, <4>2, <4>3
      <4>. QED BY <4>2, <4>4
    <3>. QED BY <1>2, <3>1, <3>2
  <2>. QED BY <1>1, <1>2, <2>1, <2>2, <2>3 DEF SpeedInv, SpeedUps
<1>. QED BY <1>4, <1>5, <1>6, <1>7 DEF SpeedInv

\* Every step of clients, Cargo and the scheduler preserves the invariant.
LEMMA NextSpeed == TransferInv /\ SpeedInv /\ [Next]_vars => SpeedInv'
<1>. SUFFICES ASSUME TransferInv, SpeedInv, [Next]_vars PROVE SpeedInv'
  OBVIOUS
<1>1. ASSUME NEW c \in Clients, Call(c) \/ ClientStep(c) PROVE SpeedInv'
  BY <1>1, ClientSpeed, TransferCargoSpeed, TransferEmplaceSpeed DEF ClientStep
<1>2. CASE SchedulerStep
  BY <1>2, OtherSpeed, SchedStatusSpeed, SchedControlSpeed DEF SchedulerStep
<1>. QED BY <1>1, <1>2, OtherSpeed DEF Next

\* A transfer whose bandwidth has reached its limit is not told to go faster,
\* whatever the limits, the bandwidths and the transfers beside it
\* (rpc_server.cpp:986-1007).
THEOREM TransferSpeedUp == Spec => []SpeedUpOnlyBelowLimit
<1>1. TransferInv /\ SpeedInv => SpeedUpOnlyBelowLimit
  BY DEF TransferInv, TypeOK, SchedulerHolds, SpeedInv, SpeedUps, SpeedUpOnlyBelowLimit
<1>. QED BY <1>1, InitSpeed, NextSpeed, TransferInvariant, PTL DEF Spec
=============================================================================
