----------------------- MODULE AdhocLifecycleProofs -----------------------
(***************************************************************************)
(* Proofs about AdhocLifecycle, for any number of handlers, instances and  *)
(* sizes, with faults or without: an instance is started at most once, and *)
(* at most one deployment of it is answered with success.                  *)
(***************************************************************************)
EXTENDS AdhocLifecycle, TLAPS

\* The initial state satisfies the invariant.
LEMMA InitInv == Init => LifecycleInv
<1> SUFFICES ASSUME Init PROVE LifecycleInv
  OBVIOUS
<1>1. TypeOK
  BY LifecycleAssumption DEF Init, TypeOK
<1>2. OnePlace /\ StartupAtMostOnce /\ DirectoryGuards
  BY DEF Init, OnePlace, StartupAtMostOnce, DirectoryGuards
<1>3. OneDeployer
  BY DEF Init, OneDeployer, Deployed
<1> QED
  BY <1>1, <1>2, <1>3 DEF LifecycleInv

----------------------------------------------------------------------------
(* What the steps of the handlers have in common.                          *)

\* What a step of a handler may do to the registry.
RegistryTyped ==
    /\ m_adhoc_storages' \subseteq Adhocs
    /\ m_resources' \in [Adhocs -> Sizes]
    /\ has_client' \in [Adhocs -> BOOLEAN]
    /\ alive' \in BOOLEAN

\* Handler h ends with answer r, and no request of its is left anywhere.
Ends(h, r) ==
    /\ pc' = [pc EXCEPT ![h] = "idle"]
    /\ msg' = [msg EXCEPT ![h] = None]
    /\ resp' = [resp EXCEPT ![h] = r]
    /\ update_failed' \in [Adhocs -> BOOLEAN]
    /\ net' = net \ {h}
    /\ late' \subseteq Requests
    /\ reply' = [reply EXCEPT ![h] = None]
    /\ ctl_from' = IF ctl_from = h THEN None ELSE ctl_from
    /\ UNCHANGED <<overlapped, ctl_pc, ctl_msg, node>>

\* The answers Respond and Throw leave behind have their type, and so has
\* the record of failed updates.
LEMMA EndTypes ==
    ASSUME TypeOK, NEW rpc \in Rpcs, NEW a \in Adhocs, NEW ec \in ErrorCodes
    PROVE  /\ [rpc |-> rpc, adhoc |-> a, ec |-> ec] \in Responses
           /\ NoteUpdate(rpc, a, ec # "success")
                 => update_failed' \in [Adhocs -> BOOLEAN]
           /\ NoteUpdate(rpc, a, TRUE) => update_failed' \in [Adhocs -> BOOLEAN]
<1>1. [rpc |-> rpc, adhoc |-> a, ec |-> ec] \in Responses
  BY DEF Responses
<1>2. ASSUME NEW b \in BOOLEAN, NoteUpdate(rpc, a, b)
      PROVE  update_failed' \in [Adhocs -> BOOLEAN]
  BY <1>2 DEF TypeOK, NoteUpdate
<1>3. (ec # "success") \in BOOLEAN
  OBVIOUS
<1> QED
  BY <1>1, <1>2, <1>3

\* A handler that ends preserves the invariant, if it claims to have deployed
\* an instance only when it was told so.
LEMMA EndsInv ==
    ASSUME LifecycleInv, RegistryTyped, NEW h \in Handlers,
           NEW r \in Responses \cup {None}, Ends(h, r),
           (r # None /\ r.rpc = "deploy" /\ r.ec = "success")
              => Deployed(h, r.adhoc)
    PROVE  LifecycleInv'
<1> USE NoneIsNoRequest, LifecycleAssumption DEF LifecycleInv, Ends, node
<1>1. TypeOK'
  BY DEF TypeOK, RegistryTyped
<1>2. OnePlace'
  BY DEF TypeOK, OnePlace
<1>3. StartupAtMostOnce' /\ DirectoryGuards'
  BY DEF StartupAtMostOnce, DirectoryGuards
<1>4. ASSUME NEW g \in Handlers, NEW a \in Adhocs, Deployed(g, a)'
      PROVE  Deployed(g, a)
  <2>1. CASE g = h
    BY <1>4, <2>1 DEF TypeOK, Deployed
  <2>2. CASE g # h
    BY <1>4, <2>2 DEF TypeOK, Deployed
  <2> QED
    BY <2>1, <2>2
<1>5. OneDeployer'
  BY <1>4 DEF OneDeployer
<1> QED
  BY <1>1, <1>2, <1>3, <1>5

\* An idle handler has nothing on the network: ending at once is no
\* different from answering.
LEMMA IdleHandler ==
    ASSUME LifecycleInv, NEW h \in Handlers, pc[h] \in {"idle", "lookup"}
    PROVE  /\ net \ {h} = net /\ late \subseteq Requests
           /\ [reply EXCEPT ![h] = None] = reply
           /\ ctl_from # h
<1> USE DEF LifecycleInv, TypeOK, OnePlace
<1>1. h \notin net /\ reply[h] = None
  OBVIOUS
<1>2. ctl_from # h
  BY LifecycleAssumption
<1>3. [reply EXCEPT ![h] = None] = reply
  BY <1>1
<1> QED
  BY <1>1, <1>2, <1>3

\* A handler that starts on a request preserves the invariant.
LEMMA ContactInv ==
    ASSUME LifecycleInv, m_adhoc_storages' \subseteq Adhocs,
           m_resources' \in [Adhocs -> Sizes], has_client' = has_client,
           NEW h \in Handlers, pc[h] = "idle",
           NEW rpc \in Rpcs, NEW a \in Adhocs, NEW n \in Sizes,
           Contact(h, rpc, a, n), UNCHANGED <<network, ctl, node>>
    PROVE  LifecycleInv'
<1> USE NoneIsNoRequest, LifecycleAssumption DEF LifecycleInv, Contact, network, ctl, node
<1>0. [rpc |-> rpc, adhoc |-> a, nodes |-> n] \in Requests
  BY DEF Requests
<1>1. TypeOK'
  <2>1. overlapped' \in [Adhocs -> BOOLEAN]
    BY DEF TypeOK, NoteOverlap
  <2> QED
    BY <1>0, <2>1 DEF TypeOK
<1>2. OnePlace'
  BY <1>0 DEF TypeOK, OnePlace
<1>3. StartupAtMostOnce' /\ DirectoryGuards'
  BY DEF StartupAtMostOnce, DirectoryGuards
<1>4. ASSUME NEW g \in Handlers, NEW b \in Adhocs, Deployed(g, b)'
      PROVE  Deployed(g, b)
  <2>0. reply[h] # "success"
    BY DEF OnePlace, ErrorCodes
  <2>1. CASE g = h
    BY <1>4, <2>0, <2>1 DEF TypeOK, Deployed
  <2>2. CASE g # h
    BY <1>4, <2>2 DEF TypeOK, Deployed
  <2> QED
    BY <2>1, <2>2
<1>5. OneDeployer'
  BY <1>4 DEF OneDeployer
<1> QED
  BY <1>1, <1>2, <1>3, <1>5

----------------------------------------------------------------------------
(* Requests.                                                               *)

\* A deploy request preserves the invariant.
LEMMA DeployInv ==
    ASSUME LifecycleInv, NEW h \in Handlers, NEW a \in Adhocs, Deploy(h, a)
    PROVE  LifecycleInv'
<1> DEFINE r == [rpc |-> "deploy", adhoc |-> a, ec |-> "no_such_entity"]
<1>1. pc[h] = "idle" /\ UNCHANGED <<network, ctl, node, m_adhoc_storages, m_resources, has_client>>
  BY DEF Deploy, Free
<1>2. CASE Contact(h, "deploy", a, m_resources[a])
  BY <1>1, <1>2, ContactInv DEF LifecycleInv, TypeOK, Rpcs
<1>3. CASE Respond(h, "deploy", a, "no_such_entity")
  <2>1. r \in Responses /\ update_failed' \in [Adhocs -> BOOLEAN]
    BY <1>3, EndTypes DEF LifecycleInv, Respond, Rpcs, ErrorCodes
  <2>2. Ends(h, r)
    BY <1>1, <1>3, <2>1, IdleHandler DEF Ends, Respond, network, ctl
  <2>3. RegistryTyped
    BY <1>1, <1>3 DEF RegistryTyped, LifecycleInv, TypeOK, Respond
  <2> QED
    BY <2>1, <2>2, <2>3, EndsInv
<1> QED
  BY <1>2, <1>3 DEF Deploy

\* A handler that throws before it contacts anyone preserves the invariant.
LEMMA ThrowInv ==
    ASSUME LifecycleInv, NEW h \in Handlers, NEW a \in Adhocs, NEW rpc \in Rpcs,
           pc[h] = "idle", Throw(h, rpc, a),
           UNCHANGED <<network, ctl, node, m_adhoc_storages, m_resources, has_client>>
    PROVE  LifecycleInv'
<1>1. update_failed' \in [Adhocs -> BOOLEAN]
  BY EndTypes DEF LifecycleInv, Throw, ErrorCodes
<1>2. Ends(h, None)
  BY <1>1, IdleHandler DEF Ends, Throw, network, ctl
<1>3. RegistryTyped
  BY DEF RegistryTyped, LifecycleInv, TypeOK, Throw
<1> QED
  BY <1>2, <1>3, EndsInv

\* An update request preserves the invariant.
LEMMA UpdateInv ==
    ASSUME LifecycleInv, NEW h \in Handlers, NEW a \in Adhocs, NEW n \in Sizes,
           Update(h, a, n)
    PROVE  LifecycleInv'
<1>1. pc[h] = "idle" /\ UNCHANGED <<network, ctl, node, m_adhoc_storages, has_client>>
  BY DEF Update, Free
<1>2. CASE a \in m_adhoc_storages
  <2>1. PICK rpc \in Rpcs : Contact(h, rpc, a, n)
    BY <1>2 DEF Update, Rpcs
  <2>2. m_resources' \in [Adhocs -> Sizes]
    BY <1>2 DEF Update, LifecycleInv, TypeOK
  <2> QED
    BY <1>1, <2>1, <2>2, ContactInv DEF LifecycleInv, TypeOK
<1>3. CASE a \notin m_adhoc_storages
  BY <1>1, <1>3, ThrowInv DEF Update, Rpcs
<1> QED
  BY <1>2, <1>3

\* A terminate request preserves the invariant.
LEMMA TerminateInv ==
    ASSUME LifecycleInv, NEW h \in Handlers, NEW a \in Adhocs, Terminate(h, a)
    PROVE  LifecycleInv'
<1>1. /\ pc[h] = "idle"
      /\ UNCHANGED <<network, ctl, node, m_adhoc_storages, m_resources, has_client>>
  BY DEF Terminate, Free
<1>2. CASE a \in m_adhoc_storages
  BY <1>1, <1>2, ContactInv DEF Terminate, LifecycleInv, TypeOK, Rpcs
<1>3. CASE a \notin m_adhoc_storages
  BY <1>1, <1>3, ThrowInv DEF Terminate, Rpcs
<1> QED
  BY <1>2, <1>3

\* Removing an instance from the registry preserves the invariant.
LEMMA RemoveAdhocInv ==
    ASSUME LifecycleInv, NEW a \in Adhocs, RemoveAdhoc(a)
    PROVE  LifecycleInv'
<1> USE DEF LifecycleInv, RemoveAdhoc, handler, network, ctl, node
<1>1. TypeOK'
  BY DEF TypeOK
<1>2. OnePlace' /\ StartupAtMostOnce' /\ DirectoryGuards'
  BY DEF OnePlace, StartupAtMostOnce, DirectoryGuards
<1>3. OneDeployer'
  BY DEF OneDeployer, Deployed
<1> QED
  BY <1>1, <1>2, <1>3

\* A new or removed client preserves the invariant.
LEMMA ClientChangesInv ==
    ASSUME LifecycleInv, NEW a \in Adhocs, ClientChanges(a)
    PROVE  LifecycleInv'
<1> USE DEF LifecycleInv, ClientChanges, handler, network, ctl, node
<1>1. TypeOK'
  BY DEF TypeOK
<1>2. OnePlace' /\ StartupAtMostOnce' /\ DirectoryGuards'
  BY DEF OnePlace, StartupAtMostOnce, DirectoryGuards
<1>3. OneDeployer'
  BY DEF OneDeployer, Deployed
<1> QED
  BY <1>1, <1>2, <1>3

----------------------------------------------------------------------------
(* Calls.                                                                  *)

\* A handler that cannot reach its controller ends with an answer that is no
\* success, or with none.
LEMMA UnreachableEnds ==
    ASSUME LifecycleInv, NEW h \in Handlers, pc[h] # "idle", Unreachable(h)
    PROVE  \E r \in Responses \cup {None} :
              /\ r # None => r.ec # "success"
              /\ pc' = [pc EXCEPT ![h] = "idle"]
              /\ msg' = [msg EXCEPT ![h] = None]
              /\ resp' = [resp EXCEPT ![h] = r]
              /\ update_failed' \in [Adhocs -> BOOLEAN]
              /\ overlapped' = overlapped
              /\ alive' \in BOOLEAN
<1>1. msg[h] \in Requests
  BY DEF LifecycleInv, TypeOK, OnePlace
<1>2. msg[h].rpc \in Rpcs /\ msg[h].adhoc \in Adhocs
  BY <1>1 DEF Requests
<1>3. CASE Throw(h, msg[h].rpc, msg[h].adhoc)
  <2>1. update_failed' \in [Adhocs -> BOOLEAN]
    BY <1>2, <1>3, EndTypes DEF LifecycleInv, Throw, ErrorCodes
  <2> WITNESS None \in Responses \cup {None}
  <2> QED
    BY <1>3, <2>1 DEF Throw
<1>4. CASE Respond(h, msg[h].rpc, msg[h].adhoc, "snafu")
  <2> DEFINE r == [rpc |-> msg[h].rpc, adhoc |-> msg[h].adhoc, ec |-> "snafu"]
  <2>1. r \in Responses /\ update_failed' \in [Adhocs -> BOOLEAN]
    BY <1>2, <1>4, EndTypes DEF LifecycleInv, Respond, ErrorCodes
  <2>2. alive' \in BOOLEAN
    BY <1>4 DEF LifecycleInv, TypeOK, Respond
  <2>3. r.ec # "success" /\ r \in Responses \cup {None}
    BY <2>1
  <2>4. /\ pc' = [pc EXCEPT ![h] = "idle"]
        /\ msg' = [msg EXCEPT ![h] = None]
        /\ resp' = [resp EXCEPT ![h] = r]
        /\ overlapped' = overlapped
    BY <1>4 DEF Respond
  <2> HIDE DEF r
  <2> QED
    BY <2>1, <2>2, <2>3, <2>4
<1> QED
  BY <1>3, <1>4 DEF Unreachable

\* A failed lookup preserves the invariant.
LEMMA LookupFailsInv ==
    ASSUME LifecycleInv, NEW h \in Handlers, LookupFails(h)
    PROVE  LifecycleInv'
<1>1. PICK r \in Responses \cup {None} :
         /\ r # None => r.ec # "success"
         /\ pc' = [pc EXCEPT ![h] = "idle"]
         /\ msg' = [msg EXCEPT ![h] = None]
         /\ resp' = [resp EXCEPT ![h] = r]
         /\ update_failed' \in [Adhocs -> BOOLEAN]
         /\ overlapped' = overlapped
         /\ alive' \in BOOLEAN
  BY UnreachableEnds DEF LookupFails
<1>2. Ends(h, r)
  BY <1>1, IdleHandler DEF LookupFails, Ends, network, ctl
<1>3. RegistryTyped
  BY <1>1 DEF LookupFails, RegistryTyped, LifecycleInv, TypeOK
<1> QED
  BY <1>1, <1>2, <1>3, EndsInv

\* A failed call preserves the invariant: whatever scord-ctl still does, its
\* answer reaches nobody.
LEMMA CallFailsInv ==
    ASSUME LifecycleInv, NEW h \in Handlers, CallFails(h)
    PROVE  LifecycleInv'
<1>1. PICK r \in Responses \cup {None} :
         /\ r # None => r.ec # "success"
         /\ pc' = [pc EXCEPT ![h] = "idle"]
         /\ msg' = [msg EXCEPT ![h] = None]
         /\ resp' = [resp EXCEPT ![h] = r]
         /\ update_failed' \in [Adhocs -> BOOLEAN]
         /\ overlapped' = overlapped
         /\ alive' \in BOOLEAN
  BY UnreachableEnds DEF CallFails
<1>2. late' \subseteq Requests
  BY DEF CallFails, LifecycleInv, TypeOK, OnePlace
<1>3. Ends(h, r)
  BY <1>1, <1>2 DEF CallFails, Ends
<1>4. RegistryTyped
  BY <1>1 DEF CallFails, RegistryTyped, LifecycleInv, TypeOK
<1> QED
  BY <1>1, <1>3, <1>4, EndsInv

\* Sending the request preserves the invariant.
LEMMA SendInv ==
    ASSUME LifecycleInv, NEW h \in Handlers, Send(h)
    PROVE  LifecycleInv'
<1> USE NoneIsNoRequest DEF LifecycleInv, Send, scord, ctl, node
<1>1. TypeOK'
  BY DEF TypeOK
<1>2. OnePlace'
  BY DEF TypeOK, OnePlace
<1>3. StartupAtMostOnce' /\ DirectoryGuards'
  BY DEF StartupAtMostOnce, DirectoryGuards
<1>4. OneDeployer'
  BY DEF OneDeployer, Deployed
<1> QED
  BY <1>1, <1>2, <1>3, <1>4

\* The return of a call preserves the invariant: the handler answers what it
\* was told.
LEMMA CallReturnsInv ==
    ASSUME LifecycleInv, NEW h \in Handlers, CallReturns(h)
    PROVE  LifecycleInv'
<1> DEFINE rpc == msg[h].rpc
           a == msg[h].adhoc
           r == [rpc |-> rpc, adhoc |-> a, ec |-> reply[h]]
<1>1. /\ pc[h] = "call" /\ reply[h] \in ErrorCodes /\ late \subseteq Requests
      /\ reply' = [reply EXCEPT ![h] = None]
      /\ UNCHANGED <<m_adhoc_storages, m_resources, has_client, net, late, ctl, node>>
  BY DEF CallReturns, LifecycleInv, TypeOK
<1>2. msg[h] \in Requests /\ rpc \in Rpcs /\ a \in Adhocs
  <2>1. msg[h] \in Requests
    BY <1>1 DEF LifecycleInv, TypeOK, OnePlace
  <2> QED
    BY <2>1 DEF Requests
<1>3. h \notin net /\ ctl_from # h
  BY <1>1, NoneIsNoRequest, LifecycleAssumption DEF LifecycleInv, OnePlace
<1> HIDE DEF rpc, a
<1>4. CASE Throw(h, rpc, a)
  <2>1. update_failed' \in [Adhocs -> BOOLEAN]
    BY <1>2, <1>4, EndTypes DEF LifecycleInv, Throw, ErrorCodes
  <2>2. Ends(h, None)
    BY <1>1, <1>3, <1>4, <2>1 DEF Ends, Throw, ctl
  <2>3. RegistryTyped
    BY <1>1, <1>4 DEF RegistryTyped, LifecycleInv, TypeOK, Throw
  <2> QED
    BY <2>2, <2>3, EndsInv
<1>5. CASE Respond(h, rpc, a, reply[h])
  <2>1. r \in Responses /\ update_failed' \in [Adhocs -> BOOLEAN]
    BY <1>1, <1>2, <1>5, EndTypes DEF LifecycleInv, Respond
  <2>2. Ends(h, r)
    BY <1>1, <1>3, <1>5, <2>1 DEF Ends, Respond, ctl
  <2>3. RegistryTyped
    BY <1>1, <1>5 DEF RegistryTyped, LifecycleInv, TypeOK, Respond
  <2>4. r.rpc = "deploy" /\ r.ec = "success" => Deployed(h, r.adhoc)
    BY <1>2, NoneIsNoRequest DEF Deployed, rpc, a
  <2> QED
    BY <2>1, <2>2, <2>3, <2>4, EndsInv
<1>6. CASE alive' = FALSE /\ UNCHANGED handler
  <2> USE DEF LifecycleInv, handler
  <2>1. TypeOK'
    BY <1>1, <1>6 DEF TypeOK, ctl, node
  <2>2. OnePlace'
    BY <1>1, <1>3, <1>6 DEF TypeOK, OnePlace, ctl
  <2>3. StartupAtMostOnce' /\ DirectoryGuards'
    BY <1>1 DEF StartupAtMostOnce, DirectoryGuards, ctl, node
  <2>4. ASSUME NEW g \in Handlers, NEW b \in Adhocs, Deployed(g, b)'
        PROVE  Deployed(g, b)
    BY <1>1, <1>6, <2>4, NoneIsNoRequest DEF TypeOK, Deployed, ErrorCodes
  <2>5. OneDeployer'
    BY <1>1, <2>4 DEF OneDeployer, node
  <2> QED
    BY <2>1, <2>2, <2>3, <2>5
<1> QED
  BY <1>4, <1>5, <1>6 DEF CallReturns, rpc, a

----------------------------------------------------------------------------
(* scord-ctl.                                                              *)

\* Abandoned requests that are no longer there do not matter.
LEMMA LateGoesInv ==
    ASSUME LifecycleInv, late' \subseteq late,
           UNCHANGED <<scord, handler, net, reply, ctl, node>>
    PROVE  LifecycleInv'
<1> USE DEF LifecycleInv, scord, handler, ctl, node
<1>1. TypeOK'
  BY DEF TypeOK
<1>2. OnePlace' /\ StartupAtMostOnce' /\ DirectoryGuards'
  BY DEF OnePlace, StartupAtMostOnce, DirectoryGuards
<1>3. OneDeployer'
  BY DEF OneDeployer, Deployed
<1> QED
  BY <1>1, <1>2, <1>3

\* A refused request preserves the invariant: its answer is no success.
LEMMA CtlRefuseInv ==
    ASSUME LifecycleInv, NEW h \in Handlers, CtlRefuse(h)
    PROVE  LifecycleInv'
<1> USE NoneIsNoRequest, LifecycleAssumption DEF LifecycleInv, CtlRefuse, scord, handler, ctl, node
<1>1. PICK ec \in ErrorCodes \ {"success"} : reply' = [reply EXCEPT ![h] = ec]
  BY DEF Refused, NoConfiguration, Answer, ErrorCodes
<1>2. TypeOK'
  BY <1>1 DEF TypeOK
<1>3. OnePlace'
  BY <1>1 DEF TypeOK, OnePlace
<1>4. StartupAtMostOnce' /\ DirectoryGuards'
  BY DEF StartupAtMostOnce, DirectoryGuards
<1>5. OneDeployer'
  BY <1>1 DEF TypeOK, OneDeployer, Deployed
<1> QED
  BY <1>2, <1>3, <1>4, <1>5

\* An accepted request preserves the invariant: a deploy finds no directory,
\* so its instance was never started, and leaves one.
LEMMA AcceptInv ==
    ASSUME LifecycleInv, ctl_pc = "idle", NEW m \in Requests,
           NEW from \in Handlers \cup {None}, Accept(m, from),
           net' \subseteq net, late' \subseteq late,
           from # None => from \in net \ net' /\ m = msg[from]
    PROVE  LifecycleInv'
<1> USE NoneIsNoRequest, LifecycleAssumption DEF LifecycleInv, Accept, scord, handler
<1>1. m # None /\ m.adhoc \in Adhocs
  BY DEF Requests
<1>2. TypeOK'
  BY <1>1 DEF TypeOK
<1>3. OnePlace'
  BY <1>1 DEF TypeOK, OnePlace
<1>4. m.rpc = "deploy" => m.adhoc \notin dirs
  BY DEF Refused, NoConfiguration
<1>5. DirectoryGuards'
  <2>1. m.rpc = "deploy" => startups[m.adhoc] = 0
    BY <1>1, <1>4 DEF TypeOK, DirectoryGuards
  <2> QED
    BY <1>1, <2>1 DEF TypeOK, DirectoryGuards
<1>6. StartupAtMostOnce' /\ OneDeployer'
  BY DEF StartupAtMostOnce, OneDeployer, Deployed
<1> QED
  BY <1>2, <1>3, <1>5, <1>6

\* So does one whose handler waits for it, and one that was given up.
LEMMA CtlAcceptInv ==
    ASSUME LifecycleInv, NEW h \in Handlers, CtlAccept(h)
    PROVE  LifecycleInv'
<1>1. msg[h] \in Requests
  BY DEF CtlAccept, LifecycleInv, TypeOK, OnePlace
<1>2. /\ ctl_pc = "idle" /\ Accept(msg[h], h) /\ h \in net
      /\ net' = net \ {h} /\ late' = late
  BY DEF CtlAccept
<1> QED
  BY <1>1, <1>2, AcceptInv

LEMMA CtlTakeLateInv ==
    ASSUME LifecycleInv, NEW m \in late, CtlTakeLate(m)
    PROVE  LifecycleInv'
<1>1. /\ m \in Requests /\ ctl_pc = "idle"
      /\ late' = late \ {m} /\ net' = net
  BY DEF CtlTakeLate, LifecycleInv, TypeOK
<1>2. CASE Accept(m, None)
  BY <1>1, <1>2, AcceptInv
<1>3. CASE UNCHANGED <<scord, handler, reply, ctl, node>>
  BY <1>1, <1>3, LateGoesInv
<1> QED
  BY <1>2, <1>3 DEF CtlTakeLate

\* The end of a request in scord-ctl, with answer ec or with none, preserves
\* the invariant if a success means that the command was run.
LEMMA CtlEndsInv ==
    ASSUME LifecycleInv, ctl_pc = "exec", NEW ec \in ErrorCodes,
           Answer(ctl_from, ec) \/ UNCHANGED reply,
           ScriptEffect(ctl_msg) \/ UNCHANGED service_nodes,
           \/ CountStartup(ctl_msg)
           \/ UNCHANGED startups /\ ec # "success",
           CtlIdle, late' \subseteq late, UNCHANGED <<scord, handler, net, dirs>>
    PROVE  LifecycleInv'
<1> USE NoneIsNoRequest, LifecycleAssumption DEF LifecycleInv, CtlIdle, scord, handler
<1>1. /\ ctl_msg \in Requests /\ ctl_msg # None
      /\ ctl_msg.adhoc \in Adhocs /\ ctl_msg.nodes \in Sizes
  BY DEF TypeOK, OnePlace, Requests
<1>2. reply' \in [Handlers -> ErrorCodes \cup {None}]
  BY DEF TypeOK, Answer
<1>3. service_nodes' \in [Adhocs -> Sizes \cup {0}]
  BY <1>1 DEF TypeOK, ScriptEffect
<1>4. /\ startups' \in [Adhocs -> 0 .. 1]
      /\ \A a \in Adhocs : startups[a] = 1 => startups'[a] = 1
      /\ \A a \in Adhocs : startups'[a] >= 1 => a \in dirs
      /\ (ctl_msg.rpc = "deploy" /\ ec = "success") => startups'[ctl_msg.adhoc] = 1
  <2>1. startups \in [Adhocs -> 0 .. 1]
    BY DEF TypeOK, StartupAtMostOnce
  <2>2. CASE CountStartup(ctl_msg)
    BY <1>1, <2>1, <2>2 DEF CountStartup, DirectoryGuards
  <2>3. CASE UNCHANGED startups /\ ec # "success"
    BY <2>1, <2>3 DEF DirectoryGuards
  <2> QED
    BY <2>2, <2>3
<1>5. TypeOK'
  <2>1. startups' \in [Adhocs -> 0 .. 2]
    BY <1>4
  <2> QED
    BY <1>2, <1>3, <2>1 DEF TypeOK
<1>6. OnePlace'
  BY DEF TypeOK, OnePlace, Answer
<1>7. StartupAtMostOnce' /\ DirectoryGuards'
  BY <1>4 DEF StartupAtMostOnce, DirectoryGuards
<1>8. ASSUME NEW g \in Handlers, NEW a \in Adhocs, Deployed(g, a)', ~ Deployed(g, a)
      PROVE  /\ g = ctl_from /\ ctl_msg.rpc = "deploy" /\ ctl_msg.adhoc = a
             /\ ec = "success"
  BY <1>8 DEF TypeOK, Deployed, OnePlace, Answer
<1>9. ASSUME NEW a \in Adhocs, ctl_msg.rpc = "deploy", ctl_msg.adhoc = a
      PROVE  \A g \in Handlers : ~ Deployed(g, a)
  BY <1>1, <1>9 DEF OneDeployer, DirectoryGuards
<1>10. OneDeployer'
  <2> SUFFICES ASSUME NEW a \in Adhocs, NEW h \in Handlers, Deployed(h, a)'
               PROVE  /\ startups'[a] = 1
                      /\ \A g \in Handlers : Deployed(g, a)' => g = h
    BY DEF OneDeployer
  <2>1. CASE Deployed(h, a)
    <3>1. startups'[a] = 1 /\ \A g \in Handlers : Deployed(g, a) => g = h
      BY <1>4, <2>1 DEF OneDeployer
    <3> QED
      BY <1>8, <1>9, <2>1, <3>1
  <2>2. CASE ~ Deployed(h, a)
    BY <1>4, <1>8, <1>9, <2>2
  <2> QED
    BY <2>1, <2>2
<1> QED
  BY <1>5, <1>6, <1>7, <1>10

\* A command that runs, fails or is cut short preserves the invariant.
LEMMA CtlRunInv ==
    ASSUME LifecycleInv, CtlExec \/ CtlExecFails \/ CtlCrash
    PROVE  LifecycleInv'
<1>1. CASE CtlExec
  BY <1>1, CtlEndsInv DEF CtlExec, ErrorCodes
<1>2. CASE CtlExecFails
  BY <1>2, CtlEndsInv DEF CtlExecFails, ErrorCodes
<1>3. CASE CtlCrash
  BY <1>3, CtlEndsInv DEF CtlCrash, ErrorCodes
<1> QED
  BY <1>1, <1>2, <1>3

----------------------------------------------------------------------------

\* A step in which nothing changes preserves the invariant.
LEMMA StutterInv == LifecycleInv /\ UNCHANGED vars => LifecycleInv'
<1> SUFFICES ASSUME LifecycleInv, UNCHANGED vars PROVE LifecycleInv'
  OBVIOUS
<1> USE DEF LifecycleInv, vars, scord, handler, network, ctl, node
<1>1. TypeOK'
  BY DEF TypeOK
<1>2. OnePlace' /\ StartupAtMostOnce' /\ DirectoryGuards'
  BY DEF OnePlace, StartupAtMostOnce, DirectoryGuards
<1>3. OneDeployer'
  BY DEF OneDeployer, Deployed
<1> QED
  BY <1>1, <1>2, <1>3

\* Every step of the two daemons and their environment preserves it.
LEMMA NextInv == LifecycleInv /\ [Next]_vars => LifecycleInv'
<1> SUFFICES ASSUME LifecycleInv, [Next]_vars PROVE LifecycleInv'
  OBVIOUS
<1>1. ASSUME NEW h \in Handlers, NEW a \in Adhocs, Request(h, a)
      PROVE  LifecycleInv'
  BY <1>1, DeployInv, UpdateInv, TerminateInv DEF Request
<1>2. ASSUME NEW h \in Handlers, HandlerStep(h) PROVE LifecycleInv'
  BY <1>2, LookupFailsInv, SendInv, CallFailsInv, CallReturnsInv DEF HandlerStep
<1>3. ASSUME CtlStep PROVE LifecycleInv'
  BY <1>3, CtlRefuseInv, CtlAcceptInv, CtlTakeLateInv, CtlRunInv DEF CtlStep
<1> QED
  BY <1>1, <1>2, <1>3, RemoveAdhocInv, ClientChangesInv, CtlRunInv, StutterInv
     DEF Next

\* The inductive invariant holds in every reachable state, for any number of
\* handlers and instances, with faults or without.
THEOREM LifecycleInvariant == Spec => []LifecycleInv
<1> QED
  BY InitInv, NextInv, PTL DEF Spec

\* The variables of scord, scord-ctl and the network between them have their
\* types in every reachable state.
THEOREM LifecycleTypes == Spec => []TypeOK
<1>1. LifecycleInv => TypeOK
  BY DEF LifecycleInv
<1> QED
  BY <1>1, LifecycleInvariant, PTL

\* The startup command of an instance is run at most once, despite repeated,
\* lost and abandoned calls and restarts of scord-ctl
\* (scord-ctl/rpc_server.cpp:147-161).
THEOREM StartedAtMostOnce == Spec => []StartupAtMostOnce
<1>1. LifecycleInv => StartupAtMostOnce
  BY DEF LifecycleInv
<1> QED
  BY <1>1, LifecycleInvariant, PTL

\* A deployment answered with success ran the startup command, and no other
\* answer claims to have (rpc_server.cpp:565-579).
THEOREM DeploymentsAreReal == Spec => []DeploySuccessIsReal
<1>1. LifecycleInv => DeploySuccessIsReal
  <2> SUFFICES ASSUME LifecycleInv, NEW h \in Handlers,
                      resp[h] # None, resp[h].rpc = "deploy",
                      resp[h].ec = "success"
               PROVE  /\ startups[resp[h].adhoc] = 1
                      /\ \A g \in Handlers \ {h} :
                           (/\ resp[g] # None /\ resp[g].rpc = "deploy"
                            /\ resp[g].adhoc = resp[h].adhoc)
                              => resp[g].ec # "success"
    BY DEF DeploySuccessIsReal
  <2>1. resp[h].adhoc \in Adhocs
    BY DEF LifecycleInv, TypeOK, Responses
  <2>2. Deployed(h, resp[h].adhoc)
    BY DEF Deployed
  <2> QED
    BY <2>1, <2>2 DEF LifecycleInv, OneDeployer, Deployed
<1> QED
  BY <1>1, LifecycleInvariant, PTL

----------------------------------------------------------------------------
(* What scord records and what the service has.                            *)

\* Handler h has a request for instance a.
Asks(h, a) == msg[h] # None /\ msg[h].adhoc = a

\* It has an update for it.
UpdatesIt(h, a) == Asks(h, a) /\ msg[h].rpc \in Updates

\* The service, once scord-ctl is done with what it serves and with what was
\* given up, is down or has the nodes scord records.
Agrees(a) ==
    /\ service_nodes[a] \in {0, m_resources[a]}
    /\ (ctl_msg # None /\ ctl_msg.adhoc = a) => ctl_msg.nodes = m_resources[a]
    /\ \A m \in late : m.adhoc = a => m.nodes = m_resources[a]

\* One request at a time is for the instance, and it asks for the nodes that
\* are recorded.  Meanwhile none that was given up is left in the queue.
OneRequest(a) ==
    \A h \in Handlers : Asks(h, a) =>
        /\ msg[h].nodes = m_resources[a]
        /\ \A m \in late : m.adhoc # a
        /\ \A g \in Handlers : Asks(g, a) => g = h

\* From the success of an update on, and unless the last one failed, the
\* service agrees with the record.
RecordFits(a) ==
    /\ \A h \in Handlers : UpdatesIt(h, a) /\ reply[h] = "success" => Agrees(a)
    /\ (\A h \in Handlers : ~ UpdatesIt(h, a)) => update_failed[a] \/ Agrees(a)

\* The inductive invariant behind ResizeAgrees: a request that scord gave up
\* may still be served.  What scord-ctl has begun it ends before the next
\* update, since it serves one request at a time; one that it has not begun
\* counts as overlapping (rpc_server.cpp:419-488).
ResizeInv ==
    \A a \in Adhocs : ~ overlapped[a] => OneRequest(a) /\ RecordFits(a)

\* In the initial state nothing runs.
LEMMA InitResize == Init => ResizeInv
<1> QED
  BY DEF Init, ResizeInv, OneRequest, RecordFits, Agrees, Asks, UpdatesIt

\* A request has its type, whoever has it.
LEMMA RequestTypes ==
    ASSUME LifecycleInv
    PROVE  /\ \A h \in Handlers : pc[h] # "idle" =>
                 /\ msg[h] # None /\ msg[h] \in Requests
                 /\ msg[h].rpc \in Rpcs /\ msg[h].adhoc \in Adhocs
                 /\ msg[h].nodes \in Sizes
           /\ ctl_pc = "exec" =>
                 /\ ctl_msg # None /\ ctl_msg \in Requests
                 /\ ctl_msg.rpc \in Rpcs /\ ctl_msg.adhoc \in Adhocs
                 /\ ctl_msg.nodes \in Sizes
<1>1. ASSUME NEW m \in Requests
      PROVE  m.rpc \in Rpcs /\ m.adhoc \in Adhocs /\ m.nodes \in Sizes
  BY DEF Requests
<1> QED
  BY <1>1 DEF LifecycleInv, TypeOK, OnePlace

\* A step that moves no request and brings no success preserves the invariant.
LEMMA RestResize ==
    ASSUME LifecycleInv, ResizeInv,
           UNCHANGED <<m_resources, msg, update_failed, overlapped, ctl_msg,
                       service_nodes>>,
           late' \subseteq late,
           \A h \in Handlers : reply'[h] = "success" => reply[h] = "success"
    PROVE  ResizeInv'
<1> QED
  BY DEF ResizeInv, OneRequest, RecordFits, Agrees, Asks, UpdatesIt

\* A handler that ends preserves the invariant, also when it leaves its
\* request in the queue: an update that was not successful is noted to have
\* failed, and only a successful one clears that.
LEMMA EndResize ==
    ASSUME LifecycleInv, ResizeInv, NEW h \in Handlers,
           msg' = [msg EXCEPT ![h] = None],
           reply' = [reply EXCEPT ![h] = None],
           \A a \in Adhocs : UpdatesIt(h, a) =>
              update_failed'[a] \/ reply[h] = "success",
           \A a \in Adhocs : update_failed[a] =>
              update_failed'[a] \/ (UpdatesIt(h, a) /\ reply[h] = "success"),
           \A m \in late' : m \in late \/ (msg[h] # None /\ m = msg[h]),
           UNCHANGED <<m_resources, overlapped, ctl_msg, service_nodes>>
    PROVE  ResizeInv'
<1> SUFFICES ASSUME NEW a \in Adhocs, ~ overlapped'[a]
             PROVE  OneRequest(a)' /\ RecordFits(a)'
  BY DEF ResizeInv
<1>1. OneRequest(a) /\ RecordFits(a) /\ (Agrees(a) => Agrees(a)')
  BY DEF ResizeInv, Agrees, OneRequest, Asks
<1>2. ~ Asks(h, a)' /\ ~ UpdatesIt(h, a)'
  BY DEF LifecycleInv, TypeOK, Asks, UpdatesIt
<1>3. ASSUME NEW g \in Handlers, g # h
      PROVE  /\ msg'[g] = msg[g] /\ reply'[g] = reply[g]
             /\ Asks(g, a)' <=> Asks(g, a)
             /\ UpdatesIt(g, a)' <=> UpdatesIt(g, a)
  BY <1>3 DEF LifecycleInv, TypeOK, Asks, UpdatesIt
<1>4. OneRequest(a)'
  <2> SUFFICES ASSUME NEW g \in Handlers, Asks(g, a)'
               PROVE  /\ msg'[g].nodes = m_resources'[a]
                      /\ \A m \in late' : m.adhoc # a
                      /\ \A k \in Handlers : Asks(k, a)' => k = g
    BY DEF OneRequest
  <2>1. g # h /\ Asks(g, a) /\ ~ Asks(h, a)
    BY <1>1, <1>2, <1>3 DEF OneRequest
  <2>2. \A m \in late' : m.adhoc # a
    BY <1>1, <2>1 DEF OneRequest, Asks
  <2> QED
    BY <1>1, <1>2, <1>3, <2>1, <2>2 DEF OneRequest
<1>5. ASSUME NEW g \in Handlers, UpdatesIt(g, a)', reply'[g] = "success"
      PROVE  Agrees(a)'
  BY <1>1, <1>2, <1>3, <1>5 DEF RecordFits
<1>6. ASSUME \A g \in Handlers : ~ UpdatesIt(g, a)'
      PROVE  update_failed'[a] \/ Agrees(a)'
  <2>1. CASE UpdatesIt(h, a)
    BY <1>1, <2>1 DEF RecordFits
  <2>2. CASE ~ UpdatesIt(h, a)
    BY <1>1, <1>3, <1>6, <2>2 DEF RecordFits
  <2> QED
    BY <2>1, <2>2
<1> QED
  BY <1>4, <1>5, <1>6 DEF RecordFits

\* A handler that starts on a request preserves the invariant: either the
\* request meets another, or it is the only one for its instance.
LEMMA ContactResize ==
    ASSUME LifecycleInv, ResizeInv, NEW h \in Handlers, pc[h] = "idle",
           NEW rpc \in Rpcs, NEW a \in Adhocs, NEW n \in Sizes,
           Contact(h, rpc, a, n),
           m_resources' = [m_resources EXCEPT ![a] = n],
           rpc \in Updates \/ n = m_resources[a],
           UNCHANGED <<network, ctl, node>>
    PROVE  ResizeInv'
<1> SUFFICES ASSUME NEW b \in Adhocs, ~ overlapped'[b]
             PROVE  OneRequest(b)' /\ RecordFits(b)'
  BY DEF ResizeInv
<1>1. /\ msg' = [msg EXCEPT ![h] = [rpc |-> rpc, adhoc |-> a, nodes |-> n]]
      /\ UNCHANGED <<update_failed, late, reply, ctl_msg, service_nodes>>
  BY DEF Contact, network, ctl, node
<1>2. [rpc |-> rpc, adhoc |-> a, nodes |-> n] \in Requests
  BY DEF Requests
<1>3. /\ msg'[h] = [rpc |-> rpc, adhoc |-> a, nodes |-> n]
      /\ msg'[h] # None /\ msg[h] = None /\ reply[h] # "success"
  BY <1>1, <1>2, NoneIsNoRequest DEF LifecycleInv, TypeOK, OnePlace, ErrorCodes
<1>4. \A g \in Handlers \ {h} : msg'[g] = msg[g]
  BY <1>1 DEF LifecycleInv, TypeOK
<1>5. CASE b # a
  <2>1. OneRequest(b) /\ RecordFits(b) /\ m_resources'[b] = m_resources[b]
    BY <1>5 DEF ResizeInv, Contact, NoteOverlap, LifecycleInv, TypeOK
  <2>2. Agrees(b)' <=> Agrees(b)
    BY <1>1, <2>1 DEF Agrees
  <2>3. \A g \in Handlers : /\ Asks(g, b)' <=> Asks(g, b)
                            /\ UpdatesIt(g, b)' <=> UpdatesIt(g, b)
                            /\ Asks(g, b) => msg'[g] = msg[g]
    BY <1>3, <1>4, <1>5 DEF Asks, UpdatesIt
  <2>4. OneRequest(b)'
    BY <1>1, <2>1, <2>3 DEF OneRequest
  <2>5. RecordFits(b)'
    BY <1>1, <2>1, <2>2, <2>3 DEF RecordFits
  <2> QED
    BY <2>4, <2>5
<1>6. CASE b = a
  <2>1. /\ \A g \in Handlers : ~ Asks(g, a)
        /\ \A m \in late : m.adhoc # a
        /\ rpc \notin Updates => ~ overlapped[a]
    BY <1>6 DEF Contact, NoteOverlap, Underway, Asks, LifecycleInv, TypeOK
  <2>2. m_resources'[a] = n
    BY DEF LifecycleInv, TypeOK
  <2>3. \A g \in Handlers : Asks(g, a)' => g = h
    BY <1>4, <2>1 DEF Asks
  <2>4. OneRequest(a)'
    BY <1>1, <1>3, <2>1, <2>2, <2>3 DEF OneRequest
  <2>5. ASSUME NEW g \in Handlers, UpdatesIt(g, a)' PROVE reply'[g] # "success"
    BY <1>1, <1>3, <2>3, <2>5 DEF UpdatesIt
  <2>6. ASSUME \A g \in Handlers : ~ UpdatesIt(g, a)'
        PROVE  update_failed'[a] \/ Agrees(a)'
    <3>1. rpc \notin Updates /\ m_resources'[a] = m_resources[a]
      BY <1>3, <2>2, <2>6 DEF UpdatesIt, Asks
    <3>2. RecordFits(a) /\ \A g \in Handlers : ~ UpdatesIt(g, a)
      BY <2>1, <3>1 DEF ResizeInv, UpdatesIt
    <3> QED
      BY <1>1, <3>1, <3>2 DEF RecordFits, Agrees
  <2> QED
    BY <1>6, <2>4, <2>5, <2>6 DEF RecordFits
<1> QED
  BY <1>5, <1>6

\* What a handler's end notes of the last update, by the way it ends.
LEMMA EndNotes ==
    ASSUME LifecycleInv, NEW h \in Handlers, NEW rpc \in Rpcs, NEW a \in Adhocs,
           NEW ec \in ErrorCodes, NEW failed \in BOOLEAN,
           NoteUpdate(rpc, a, failed),
           \A b \in Adhocs : UpdatesIt(h, b) => rpc \in Updates /\ b = a,
           \A b \in Adhocs : UpdatesIt(h, b) => failed \/ reply[h] = "success",
           rpc \in Updates /\ ~ failed
              => UpdatesIt(h, a) /\ reply[h] = "success"
    PROVE  /\ \A b \in Adhocs : UpdatesIt(h, b) =>
                 update_failed'[b] \/ reply[h] = "success"
           /\ \A b \in Adhocs : update_failed[b] =>
                 update_failed'[b] \/ (UpdatesIt(h, b) /\ reply[h] = "success")
<1>1. CASE rpc \in Updates
  BY <1>1 DEF NoteUpdate, LifecycleInv, TypeOK
<1>2. CASE rpc \notin Updates
  BY <1>2 DEF NoteUpdate
<1> QED
  BY <1>1, <1>2

\* An idle handler has no update.
LEMMA IdleAsksNothing ==
    ASSUME LifecycleInv, NEW h \in Handlers, pc[h] = "idle"
    PROVE  msg[h] = None /\ \A b \in Adhocs : ~ UpdatesIt(h, b)
<1> QED
  BY DEF LifecycleInv, OnePlace, UpdatesIt, Asks

\* A handler that ends before it contacts anyone preserves the invariant.
LEMMA EndAtOnceResize ==
    ASSUME LifecycleInv, ResizeInv, NEW h \in Handlers, pc[h] = "idle",
           NEW a \in Adhocs, NEW rpc \in Rpcs,
           \/ Throw(h, rpc, a)
           \/ rpc \notin Updates /\ Respond(h, rpc, a, "no_such_entity"),
           UNCHANGED <<network, ctl, node, m_resources>>
    PROVE  ResizeInv'
<1>1. /\ msg' = [msg EXCEPT ![h] = None] /\ reply' = [reply EXCEPT ![h] = None]
      /\ UNCHANGED <<m_resources, overlapped, late, ctl_msg, service_nodes>>
  BY IdleHandler DEF Throw, Respond, network, ctl, node
<1>2. PICK failed \in BOOLEAN :
         NoteUpdate(rpc, a, failed) /\ (rpc \in Updates => failed)
  BY DEF Throw, Respond
<1>3. "snafu" \in ErrorCodes
  BY DEF ErrorCodes
<1>4. /\ \A b \in Adhocs : UpdatesIt(h, b) =>
            update_failed'[b] \/ reply[h] = "success"
      /\ \A b \in Adhocs : update_failed[b] =>
            update_failed'[b] \/ (UpdatesIt(h, b) /\ reply[h] = "success")
  BY <1>2, <1>3, IdleAsksNothing, EndNotes
<1> QED
  BY <1>1, <1>4, EndResize

\* Requests preserve the invariant.
LEMMA RequestResize ==
    ASSUME LifecycleInv, ResizeInv, NEW h \in Handlers, NEW a \in Adhocs,
           Request(h, a)
    PROVE  ResizeInv'
<1>1. m_resources \in [Adhocs -> Sizes]
  BY DEF LifecycleInv, TypeOK
<1>2. m_resources = [m_resources EXCEPT ![a] = m_resources[a]] /\ m_resources[a] \in Sizes
  BY <1>1
<1>3. CASE Deploy(h, a)
  <2>1. pc[h] = "idle" /\ UNCHANGED <<network, ctl, node, m_resources>>
    BY <1>3 DEF Deploy, Free
  <2>2. CASE Contact(h, "deploy", a, m_resources[a])
    BY <1>2, <2>1, <2>2, ContactResize DEF Rpcs
  <2>3. CASE Respond(h, "deploy", a, "no_such_entity")
    BY <2>1, <2>3, EndAtOnceResize DEF Rpcs, Updates
  <2> QED
    BY <1>3, <2>2, <2>3 DEF Deploy
<1>4. ASSUME NEW n \in Sizes, Update(h, a, n) PROVE ResizeInv'
  <2>1. pc[h] = "idle" /\ UNCHANGED <<network, ctl, node>>
    BY <1>4 DEF Update, Free
  <2>2. CASE a \in m_adhoc_storages
    <3>1. /\ m_resources' = [m_resources EXCEPT ![a] = n]
          /\ Contact(h, "expand", a, n) \/ Contact(h, "shrink", a, n)
      BY <1>4, <2>2 DEF Update
    <3> QED
      BY <2>1, <3>1, ContactResize DEF Rpcs, Updates
  <2>3. CASE a \notin m_adhoc_storages
    BY <1>4, <2>1, <2>3, EndAtOnceResize DEF Update, Rpcs
  <2> QED
    BY <2>2, <2>3
<1>5. CASE Terminate(h, a)
  <2>1. pc[h] = "idle" /\ UNCHANGED <<network, ctl, node, m_resources>>
    BY <1>5 DEF Terminate, Free
  <2>2. CASE Contact(h, "terminate", a, m_resources[a])
    BY <1>2, <2>1, <2>2, ContactResize DEF Rpcs
  <2>3. CASE Throw(h, "terminate", a)
    BY <2>1, <2>3, EndAtOnceResize DEF Rpcs
  <2> QED
    BY <1>5, <2>2, <2>3 DEF Terminate
<1> QED
  BY <1>3, <1>4, <1>5 DEF Request

\* The steps of a handler between its request and its end preserve the
\* invariant: only an update answered with success clears the mark of a
\* failed one.
LEMMA HandlerResize ==
    ASSUME LifecycleInv, ResizeInv, NEW h \in Handlers, HandlerStep(h)
    PROVE  ResizeInv'
<1> DEFINE rpc == msg[h].rpc
           a == msg[h].adhoc
<1>1. pc[h] # "idle" /\ rpc \in Rpcs /\ a \in Adhocs /\ msg[h] # None
  BY RequestTypes DEF HandlerStep, LookupFails, Send, CallFails, CallReturns
<1>2. \A b \in Adhocs : UpdatesIt(h, b) <=> rpc \in Updates /\ b = a
  BY <1>1 DEF UpdatesIt, Asks
<1>3. "snafu" \in ErrorCodes
  BY DEF ErrorCodes
<1> HIDE DEF rpc, a
\* An end that brings the mark up to date.
<1>4. ASSUME NEW failed \in BOOLEAN, NoteUpdate(rpc, a, failed),
             rpc \in Updates => (failed \/ reply[h] = "success"),
             msg' = [msg EXCEPT ![h] = None],
             reply' = [reply EXCEPT ![h] = None],
             \A m \in late' : m \in late \/ m = msg[h],
             UNCHANGED <<m_resources, overlapped, ctl_msg, service_nodes>>
      PROVE  ResizeInv'
  <2>1. /\ \A b \in Adhocs : UpdatesIt(h, b) =>
              update_failed'[b] \/ reply[h] = "success"
        /\ \A b \in Adhocs : update_failed[b] =>
              update_failed'[b] \/ (UpdatesIt(h, b) /\ reply[h] = "success")
    BY <1>1, <1>2, <1>3, <1>4, EndNotes
  <2> QED
    BY <1>1, <1>4, <2>1, EndResize
<1>5. CASE Send(h)
  BY <1>5, RestResize DEF Send, scord, ctl, node
<1>6. ASSUME Unreachable(h)
      PROVE  /\ msg' = [msg EXCEPT ![h] = None] /\ overlapped' = overlapped
             /\ \E failed \in BOOLEAN :
                   NoteUpdate(rpc, a, failed) /\ failed
  BY <1>6 DEF Unreachable, Throw, Respond, rpc, a
<1>7. CASE LookupFails(h)
  <2>1. reply' = [reply EXCEPT ![h] = None] /\ late' = late
    BY <1>7, IdleHandler DEF LookupFails, network
  <2> QED
    BY <1>4, <1>6, <1>7, <2>1 DEF LookupFails, ctl, node
<1>8. CASE CallFails(h)
  BY <1>4, <1>6, <1>8 DEF CallFails, node
<1>9. CASE CallReturns(h)
  <2>1. /\ reply' = [reply EXCEPT ![h] = None]
        /\ UNCHANGED <<m_resources, late, ctl_msg, service_nodes>>
    BY <1>9 DEF CallReturns, ctl, node
  <2>2. CASE Throw(h, rpc, a)
    BY <1>4, <2>1, <2>2 DEF Throw
  <2>3. CASE Respond(h, rpc, a, reply[h])
    <3>1. NoteUpdate(rpc, a, reply[h] # "success")
      BY <2>3 DEF Respond
    <3>2. (reply[h] # "success") \in BOOLEAN
      OBVIOUS
    <3> QED
      BY <1>4, <2>1, <2>3, <3>1, <3>2 DEF Respond
  <2>4. CASE UNCHANGED handler
    <3>1. \A g \in Handlers : reply'[g] = "success" => reply[g] = "success"
      BY <2>1, NoneIsNoRequest DEF LifecycleInv, TypeOK, ErrorCodes
    <3> QED
      BY <2>1, <2>4, <3>1, RestResize DEF handler
  <2> QED
    BY <1>9, <2>2, <2>3, <2>4 DEF CallReturns, rpc, a
<1> QED
  BY <1>5, <1>7, <1>8, <1>9 DEF HandlerStep

----------------------------------------------------------------------------
(* scord-ctl.                                                              *)

\* A request that is accepted asks for the nodes that are recorded, whether
\* its handler waits for it or gave it up, unless it met another.
LEMMA AcceptResize ==
    ASSUME LifecycleInv, ResizeInv, NEW m, NEW from, Accept(m, from),
           late' \subseteq late,
           m \in late \/ \E h \in Handlers : msg[h] # None /\ m = msg[h]
    PROVE  ResizeInv'
<1> SUFFICES ASSUME NEW a \in Adhocs, ~ overlapped'[a]
             PROVE  OneRequest(a)' /\ RecordFits(a)'
  BY DEF ResizeInv
<1>1. /\ UNCHANGED <<m_resources, msg, update_failed, overlapped, reply, service_nodes>>
      /\ ctl_msg' = m
  BY DEF Accept, scord, handler
<1>2. OneRequest(a) /\ RecordFits(a)
  BY <1>1 DEF ResizeInv
<1>3. /\ \A g \in Handlers : /\ Asks(g, a)' <=> Asks(g, a)
                             /\ UpdatesIt(g, a)' <=> UpdatesIt(g, a)
  BY <1>1 DEF Asks, UpdatesIt
<1>4. OneRequest(a)'
  BY <1>1, <1>2, <1>3 DEF OneRequest
<1>5. Agrees(a) => Agrees(a)'
  BY <1>1, <1>2 DEF Agrees, OneRequest, Asks
<1>6. RecordFits(a)'
  BY <1>1, <1>2, <1>3, <1>5 DEF RecordFits
<1> QED
  BY <1>4, <1>6

\* The end of a request in scord-ctl preserves the invariant: its script sets
\* the service to the nodes it was asked for, and only the success of an
\* update must agree with the record.
LEMMA CtlEndsResize ==
    ASSUME LifecycleInv, ResizeInv, ctl_pc = "exec", NEW ec \in ErrorCodes,
           Answer(ctl_from, ec) \/ UNCHANGED reply,
           \/ ScriptEffect(ctl_msg)
           \/ UNCHANGED service_nodes /\ ec # "success",
           CtlIdle, late' \subseteq late, UNCHANGED <<scord, handler>>
    PROVE  ResizeInv'
<1> SUFFICES ASSUME NEW a \in Adhocs, ~ overlapped'[a]
             PROVE  OneRequest(a)' /\ RecordFits(a)'
  BY DEF ResizeInv
<1>1. UNCHANGED <<m_resources, msg, update_failed, overlapped>> /\ ctl_msg' = None
  BY DEF CtlIdle, scord, handler
<1>2. OneRequest(a) /\ RecordFits(a)
  BY <1>1 DEF ResizeInv
<1>3. /\ \A g \in Handlers : /\ Asks(g, a)' <=> Asks(g, a)
                             /\ UpdatesIt(g, a)' <=> UpdatesIt(g, a)
  BY <1>1 DEF Asks, UpdatesIt
<1>4. OneRequest(a)'
  BY <1>1, <1>2, <1>3 DEF OneRequest
<1>5. /\ ctl_msg # None /\ ctl_msg.adhoc \in Adhocs
      /\ service_nodes \in [Adhocs -> Sizes \cup {0}]
  BY RequestTypes DEF LifecycleInv, TypeOK
<1>6. Agrees(a) => Agrees(a)'
  BY <1>1, <1>5 DEF Agrees, ScriptEffect
<1>7. ASSUME NEW g \in Handlers, UpdatesIt(g, a), reply'[g] = "success"
      PROVE  Agrees(a)'
  <2>1. CASE reply[g] = "success"
    BY <1>2, <1>6, <1>7, <2>1 DEF RecordFits
  <2>2. CASE reply[g] # "success"
    <3>1. g = ctl_from /\ ec = "success"
      BY <1>7, <2>2 DEF Answer, LifecycleInv, TypeOK
    <3>2. msg[g] = ctl_msg
      BY <3>1, LifecycleAssumption DEF LifecycleInv, OnePlace
    <3>3. /\ ctl_msg.adhoc = a /\ ctl_msg.nodes = m_resources[a]
          /\ \A m \in late' : m.adhoc # a
      BY <1>2, <1>7, <3>2 DEF OneRequest, UpdatesIt, Asks
    <3>4. service_nodes'[a] \in {0, ctl_msg.nodes}
      BY <1>5, <3>1, <3>3 DEF ScriptEffect
    <3> QED
      BY <1>1, <3>3, <3>4 DEF Agrees
  <2> QED
    BY <2>1, <2>2
<1>8. RecordFits(a)'
  BY <1>1, <1>2, <1>3, <1>6, <1>7 DEF RecordFits
<1> QED
  BY <1>4, <1>8

\* The steps of scord-ctl preserve the invariant.
LEMMA CtlResize ==
    ASSUME LifecycleInv, ResizeInv, CtlStep \/ CtlCrash
    PROVE  ResizeInv'
<1>1. ASSUME NEW h \in Handlers, CtlRefuse(h) PROVE ResizeInv'
  <2>1. PICK ec \in ErrorCodes \ {"success"} : reply' = [reply EXCEPT ![h] = ec]
    BY <1>1, LifecycleAssumption DEF CtlRefuse, Refused, NoConfiguration, Answer, ErrorCodes
  <2>2. \A g \in Handlers : reply'[g] = "success" => reply[g] = "success"
    BY <2>1 DEF LifecycleInv, TypeOK
  <2> QED
    BY <1>1, <2>2, RestResize DEF CtlRefuse, scord, handler, ctl, node
<1>2. CASE CtlExec
  BY <1>2, CtlEndsResize DEF CtlExec, ErrorCodes
<1>3. CASE CtlExecFails
  BY <1>3, CtlEndsResize DEF CtlExecFails, ErrorCodes
<1>4. CASE CtlCrash
  BY <1>4, CtlEndsResize DEF CtlCrash, ErrorCodes
<1>5. ASSUME NEW h \in Handlers, CtlAccept(h) PROVE ResizeInv'
  BY <1>5, AcceptResize DEF CtlAccept, LifecycleInv, OnePlace
<1>6. ASSUME NEW m \in late, CtlTakeLate(m) PROVE ResizeInv'
  <2>1. late' \subseteq late
    BY <1>6 DEF CtlTakeLate
  <2>2. CASE UNCHANGED <<scord, handler, reply, ctl, node>>
    BY <2>1, <2>2, RestResize DEF scord, handler, ctl, node
  <2>3. CASE Accept(m, None)
    BY <2>1, <2>3, AcceptResize
  <2> QED
    BY <1>6, <2>2, <2>3 DEF CtlTakeLate
<1> QED
  BY <1>1, <1>2, <1>3, <1>4, <1>5, <1>6 DEF CtlStep

\* Every step of the two daemons and their environment preserves it.
LEMMA NextResize == LifecycleInv /\ ResizeInv /\ [Next]_vars => ResizeInv'
<1> SUFFICES ASSUME LifecycleInv, ResizeInv, [Next]_vars PROVE ResizeInv'
  OBVIOUS
<1>1. ASSUME NEW a \in Adhocs, RemoveAdhoc(a) \/ ClientChanges(a)
      PROVE  ResizeInv'
  BY <1>1, RestResize
     DEF RemoveAdhoc, ClientChanges, handler, network, ctl, node
<1>2. CASE UNCHANGED vars
  BY <1>2, RestResize DEF vars, scord, handler, network, ctl, node
<1> QED
  BY <1>1, <1>2, RequestResize, HandlerResize, CtlResize DEF Next

\* A running service that is not being changed has the nodes scord records
\* for it, unless its last update failed or requests for it overlapped:
\* although scord records before it calls, calls are lost and scord-ctl
\* serves what was given up (rpc_server.cpp:419-488).
THEOREM ResizesAgree == Spec => []ResizeAgrees
<1>1. Spec => []ResizeInv
  BY InitResize, NextResize, LifecycleInvariant, PTL DEF Spec
<1>2. ResizeInv => ResizeAgrees
  BY LifecycleAssumption
     DEF ResizeInv, ResizeAgrees, RecordFits, Quiet, Underway, Agrees, UpdatesIt, Asks
<1> QED
  BY <1>1, <1>2, PTL

----------------------------------------------------------------------------
(* Requests without an answer, and what takes the daemon down.             *)

\* A handler that looks for scord-ctl in vain throws for an update, whose
\* failure is noted, and answers otherwise.
LEMMA InVain ==
    ASSUME LifecycleInv, NEW h \in Handlers, pc[h] # "idle", Unreachable(h)
    PROVE  /\ \A g \in Handlers \ {h} : msg'[g] = msg[g]
           /\ \/ resp'[h] # None /\ alive' = alive
              \/ msg[h].rpc \in Updates /\ update_failed'[msg[h].adhoc]
           /\ msg[h].adhoc \in Adhocs
<1>1. /\ msg[h].rpc \in Rpcs /\ msg[h].adhoc \in Adhocs
  BY RequestTypes
<1>2. /\ msg \in [Handlers -> Requests \cup {None}] /\ resp \in [Handlers -> Responses \cup {None}]
      /\ update_failed \in [Adhocs -> BOOLEAN]
  BY DEF LifecycleInv, TypeOK
<1>3. CASE msg[h].rpc \in Updates
  BY <1>1, <1>2, <1>3 DEF Unreachable, Throw, NoteUpdate
<1>4. CASE msg[h].rpc \notin Updates
  <2>1. [rpc |-> msg[h].rpc, adhoc |-> msg[h].adhoc, ec |-> "snafu"] \in Responses
    BY <1>1 DEF Responses, ErrorCodes
  <2> QED
    BY <1>1, <1>2, <1>4, <2>1, NoneIsNoRequest DEF Unreachable, Respond
<1> QED
  BY <1>1, <1>3, <1>4

\* A call that returns is answered, but where the job's record needs what is
\* gone.
LEMMA Returned ==
    ASSUME LifecycleInv, NEW h \in Handlers, CallReturns(h)
    PROVE  LET a == msg[h].adhoc IN
           /\ a \in Adhocs
           /\ \A g \in Handlers \ {h} : msg'[g] = msg[g]
           /\ \/ HasRedis /\ a \notin m_adhoc_storages
              \/ /\ HasRedis /\ ~has_client[a] /\ ~alive'
                 /\ UNCHANGED <<msg, resp, update_failed>>
              \/ resp'[h] # None /\ alive' = alive
<1>1. msg[h].rpc \in Rpcs /\ msg[h].adhoc \in Adhocs /\ reply[h] \in ErrorCodes
  BY RequestTypes DEF CallReturns, LifecycleInv, TypeOK
<1>2. msg \in [Handlers -> Requests \cup {None}] /\ resp \in [Handlers -> Responses \cup {None}]
  BY DEF LifecycleInv, TypeOK
<1>3. [rpc |-> msg[h].rpc, adhoc |-> msg[h].adhoc, ec |-> reply[h]] \in Responses
  BY <1>1 DEF Responses
<1>4. CASE Respond(h, msg[h].rpc, msg[h].adhoc, reply[h])
  BY <1>1, <1>2, <1>3, <1>4, NoneIsNoRequest DEF Respond
<1>5. CASE HasRedis /\ msg[h].adhoc \notin m_adhoc_storages /\ Throw(h, msg[h].rpc, msg[h].adhoc)
  BY <1>1, <1>2, <1>5 DEF Throw
<1>6. CASE HasRedis /\ ~has_client[msg[h].adhoc] /\ alive' = FALSE /\ UNCHANGED handler
  BY <1>1, <1>6 DEF handler
<1> QED
  BY <1>4, <1>5, <1>6 DEF CallReturns

\* The steps of the other parts leave the handlers of scord and their
\* daemon as they are.
LEMMA Elsewhere ==
    ASSUME CtlStep \/ CtlCrash
    PROVE  UNCHANGED <<scord, handler>>
BY DEF CtlStep, CtlRefuse, CtlAccept, CtlTakeLate, Accept, CtlExec, CtlExecFails, CtlCrash

\* What a step of a handler that had a request may leave without an answer.
AnswerOrReason ==
    \A h \in Handlers :
        LET a == msg[h].adhoc IN
        msg[h] # None /\ msg'[h] = None /\ resp'[h] = None =>
            \/ msg[h].rpc \in Updates /\ update_failed'[a]
            \/ HasRedis /\ a \notin m_adhoc_storages

\* Every step of a handler answers the request it ends, or has a reason.
LEMMA NextAnswers == LifecycleInv /\ [Next]_vars => AnswerOrReason
<1> SUFFICES ASSUME LifecycleInv, [Next]_vars PROVE AnswerOrReason
  OBVIOUS
<1>1. CASE UNCHANGED msg
  BY <1>1 DEF AnswerOrReason
<1>2. ASSUME NEW h \in Handlers, NEW a \in Adhocs, Request(h, a)
      PROVE  AnswerOrReason
  <2>1. msg[h] = None
    BY <1>2, IdleAsksNothing DEF Request, Deploy, Update, Terminate, Free
  <2>2. \A g \in Handlers \ {h} : msg'[g] = msg[g]
    BY <1>2
    DEF Request, Deploy, Update, Terminate, Contact, Respond, Throw, LifecycleInv, TypeOK
  <2> QED
    BY <2>1, <2>2 DEF AnswerOrReason
<1>3. ASSUME NEW h \in Handlers, LookupFails(h) \/ CallFails(h)
      PROVE  AnswerOrReason
  <2>1. pc[h] # "idle" /\ Unreachable(h)
    BY <1>3 DEF LookupFails, CallFails
  <2> QED
    BY <2>1, InVain DEF AnswerOrReason
<1>4. ASSUME NEW h \in Handlers, CallReturns(h)
      PROVE  AnswerOrReason
  BY <1>4, Returned DEF AnswerOrReason
<1>5. ASSUME NEW h \in Handlers, Send(h) PROVE UNCHANGED msg
  BY <1>5 DEF Send
<1>6. ASSUME NEW a \in Adhocs, RemoveAdhoc(a) \/ ClientChanges(a) PROVE UNCHANGED msg
  BY <1>6 DEF RemoveAdhoc, ClientChanges, handler
<1> QED
  BY <1>1, <1>2, <1>3, <1>4, <1>5, <1>6, Elsewhere
  DEF Next, HandlerStep, vars, handler

\* A request that waited for scord-ctl is answered, unless it is an update
\* that failed or its instance was removed before its job could be written to
\* Redis (rpc_server.cpp:488).
THEOREM AnswersAreKnown == Spec => AnswersAreSent
<1>1. LifecycleInv /\ [Next]_vars => [AnswerOrReason]_vars
  BY NextAnswers
<1>2. AnswersAreSent <=> [][AnswerOrReason]_vars
  BY PTL DEF AnswersAreSent, AnswerOrReason
<1> QED
  BY <1>1, <1>2, LifecycleInvariant, PTL DEF Spec

\* A step that takes the daemon down has one of the known reasons.
LEMMA NextCrash ==
    ASSUME LifecycleInv, CrashIsKnown, [Next]_vars
    PROVE  CrashIsKnown'
<1>1. CASE UNCHANGED <<scord, handler>>
  BY <1>1 DEF scord, handler, CrashIsKnown
<1>2. ASSUME NEW h \in Handlers, NEW a \in Adhocs, Request(h, a)
      PROVE  CrashIsKnown'
  <2>1. CASE a \notin m_adhoc_storages
    BY <1>2, <2>1 DEF Request, Deploy, Update, Terminate, CrashIsKnown
  <2>2. CASE a \in m_adhoc_storages
    BY <1>2, <2>2
    DEF Request, Deploy, Update, Terminate, Contact, Free, CrashIsKnown
  <2> QED
    BY <2>1, <2>2
<1>3. ASSUME NEW h \in Handlers, LookupFails(h) \/ CallFails(h)
      PROVE  CrashIsKnown'
  <2>1. pc[h] # "idle" /\ Unreachable(h) /\ alive
    BY <1>3 DEF LookupFails, CallFails
  <2>2. alive' \/ update_failed'[msg[h].adhoc]
    BY <2>1, InVain
  <2>3. msg[h].adhoc \in Adhocs
    BY <2>1, InVain
  <2> QED
    BY <2>2, <2>3 DEF CrashIsKnown
<1>4. ASSUME NEW h \in Handlers, CallReturns(h)
      PROVE  CrashIsKnown'
  <2>1. alive /\ UNCHANGED <<m_adhoc_storages, has_client>>
    BY <1>4 DEF CallReturns
  <2> QED
    BY <1>4, <2>1, Returned DEF CrashIsKnown
<1>5. ASSUME NEW h \in Handlers, Send(h) PROVE alive'
  BY <1>5 DEF Send, scord
<1>6. ASSUME NEW a \in Adhocs, RemoveAdhoc(a) \/ ClientChanges(a) PROVE alive'
  BY <1>6 DEF RemoveAdhoc, ClientChanges
<1> QED
  BY <1>1, <1>2, <1>3, <1>4, <1>5, <1>6, Elsewhere DEF Next, HandlerStep, vars, CrashIsKnown

\* The daemon goes down only over an instance that was removed, one whose last
\* update failed or, with Redis, one without a job (rpc_server.cpp:488 and
\* :599).
THEOREM CrashesAreKnown == Spec => []CrashIsKnown
<1>1. Init => CrashIsKnown
  BY DEF Init, CrashIsKnown
<1> QED
  BY <1>1, NextCrash, LifecycleInvariant, PTL DEF Spec

============================================================================
