--------------------------- MODULE AdhocLifecycle ---------------------------
(***************************************************************************)
(* The life of adhoc storage instances: scord's handlers for               *)
(* ADM_deploy_, ADM_update_ and ADM_terminate_adhoc_storage, and scord-ctl *)
(* on the other side of the network, which runs the service's scripts.     *)
(*                                                                         *)
(* Scord's handlers are ULTs on one stream: a handler runs until it waits  *)
(* for the network, first in lookup(), then in call().  What it sends is   *)
(* fixed before the lookup.  Scord-ctl serves one request at a time, as    *)
(* its handlers block their only stream in waitpid().  Directories and     *)
(* services outlive it.                                                    *)
(***************************************************************************)
EXTENDS Integers, FiniteSets

CONSTANTS
    Handlers,       \* handler ULTs of scord
    Adhocs,         \* adhoc storage instances (an id, with its uuid)
    Sizes,          \* numbers of nodes an instance may be given
    Unsupported,    \* instances whose type scord-ctl has no configuration for
    HasConfig,      \* scord-ctl has configurations for some types
    Faults,         \* TRUE: scripts, calls and scord-ctl may fail
    HasRedis,       \* m_redis is connected
    MaxLate,        \* bound: requests given up that may still be queued
    None

ASSUME LifecycleAssumption ==
    /\ Sizes \subseteq Nat \ {0}
    /\ Unsupported \subseteq Adhocs
    /\ HasConfig \in BOOLEAN
    /\ ~HasConfig => Unsupported = Adhocs
    /\ Faults \in BOOLEAN
    /\ HasRedis \in BOOLEAN
    /\ MaxLate \in Nat
    /\ None \notin Handlers
    /\ None \notin Adhocs

VARIABLES
    m_adhoc_storages,  \* registered instances
    m_resources,       \* nodes of each instance, as scord records them
    has_client,        \* a job is recorded in m_client_info
    alive,             \* FALSE once the scord daemon is gone
    pc,                \* where each handler waits
    msg,               \* the request each handler sends to scord-ctl
    resp,              \* the last answer of each handler
    update_failed,     \* the last update of the instance did not succeed
    overlapped,        \* a request met another, at the last update or since
    net,               \* handlers whose requests are on their way
    late,              \* requests on their way whose handlers gave up
                       \* (two equal ones count once)
    reply,             \* answers of scord-ctl on their way back
    ctl_pc,            \* what scord-ctl is doing
    ctl_msg,           \* the request it serves
    ctl_from,          \* the handler waiting for it, None if it gave up
    dirs,              \* working directories that exist
    service_nodes,     \* nodes of the running service, 0 if it is down
    startups           \* startup commands run for the instance (up to 2)

scord == <<m_adhoc_storages, m_resources, has_client, alive>>
handler == <<pc, msg, resp, update_failed, overlapped>>
network == <<net, late, reply>>
ctl == <<ctl_pc, ctl_msg, ctl_from>>
node == <<dirs, service_nodes, startups>>
vars == <<scord, handler, network, ctl, node>>

Rpcs == {"deploy", "expand", "shrink", "terminate"}
Updates == {"expand", "shrink"}
Requests == [rpc : Rpcs, adhoc : Adhocs, nodes : Sizes]
ErrorCodes == {"success", "no_such_entity", "snafu", "adhoc_type_unsupported",
               "adhoc_dir_exists", "adhoc_dir_create_failed",
               "subprocess_error"}
Responses == [rpc : Rpcs, adhoc : Adhocs, ec : ErrorCodes]

ASSUME NoneIsNoRequest == None \notin Requests \cup Responses \cup ErrorCodes

\* Every variable has its type.
TypeOK ==
    /\ m_adhoc_storages \subseteq Adhocs
    /\ m_resources \in [Adhocs -> Sizes]
    /\ has_client \in [Adhocs -> BOOLEAN]
    /\ alive \in BOOLEAN
    /\ pc \in [Handlers -> {"idle", "lookup", "call"}]
    /\ msg \in [Handlers -> Requests \cup {None}]
    /\ resp \in [Handlers -> Responses \cup {None}]
    /\ update_failed \in [Adhocs -> BOOLEAN]
    /\ overlapped \in [Adhocs -> BOOLEAN]
    /\ net \subseteq Handlers
    /\ late \subseteq Requests
    /\ reply \in [Handlers -> ErrorCodes \cup {None}]
    /\ ctl_pc \in {"idle", "exec"}
    /\ ctl_msg \in Requests \cup {None}
    /\ ctl_from \in Handlers \cup {None}
    /\ dirs \subseteq Adhocs
    /\ service_nodes \in [Adhocs -> Sizes \cup {0}]
    /\ startups \in [Adhocs -> 0 .. 2]

Init ==
    /\ m_adhoc_storages = Adhocs
    /\ m_resources \in [Adhocs -> Sizes]
    /\ has_client = [a \in Adhocs |-> FALSE]
    /\ alive = TRUE
    /\ pc = [h \in Handlers |-> "idle"]
    /\ msg = [h \in Handlers |-> None]
    /\ resp = [h \in Handlers |-> None]
    /\ update_failed = [a \in Adhocs |-> FALSE]
    /\ overlapped = [a \in Adhocs |-> FALSE]
    /\ net = {}
    /\ late = {}
    /\ reply = [h \in Handlers |-> None]
    /\ ctl_pc = "idle"
    /\ ctl_msg = None
    /\ ctl_from = None
    /\ dirs = {}
    /\ service_nodes = [a \in Adhocs |-> 0]
    /\ startups = [a \in Adhocs |-> 0]

----------------------------------------------------------------------------
(* How a handler of scord ends.                                            *)

\* Whether the last update of an instance failed, after an answer to rpc.
NoteUpdate(rpc, a, failed) ==
    update_failed' = IF rpc \in Updates
                     THEN [update_failed EXCEPT ![a] = failed]
                     ELSE update_failed

\* req.respond()
Respond(h, rpc, a, ec) ==
    /\ pc' = [pc EXCEPT ![h] = "idle"]
    /\ msg' = [msg EXCEPT ![h] = None]
    /\ resp' = [resp EXCEPT ![h] = [rpc |-> rpc, adhoc |-> a, ec |-> ec]]
    /\ NoteUpdate(rpc, a, ec # "success")
    /\ UNCHANGED <<alive, overlapped>>

\* .value() on an error throws out of the handler: no answer is sent, and
\* whether the daemon survives depends on the RPC library.
Throw(h, rpc, a) ==
    /\ pc' = [pc EXCEPT ![h] = "idle"]
    /\ msg' = [msg EXCEPT ![h] = None]
    /\ resp' = [resp EXCEPT ![h] = None]
    /\ NoteUpdate(rpc, a, TRUE)
    /\ alive' \in BOOLEAN
    /\ UNCHANGED overlapped

\* A request for the instance, also one that was given up, may reach
\* scord-ctl after the next one does.
Underway(a) ==
    \/ \E g \in Handlers : msg[g] # None /\ msg[g].adhoc = a
    \/ \E m \in late : m.adhoc = a

\* Whether the request for an instance meets another.
NoteOverlap(rpc, a) ==
    LET meets == Underway(a) IN
    overlapped' = [overlapped EXCEPT ![a] = meets \/ (@ /\ rpc \notin Updates)]

\* The handler goes and looks its controller up, with its request ready.
Contact(h, rpc, a, n) ==
    /\ pc' = [pc EXCEPT ![h] = "lookup"]
    /\ msg' = [msg EXCEPT ![h] = [rpc |-> rpc, adhoc |-> a, nodes |-> n]]
    /\ resp' = [resp EXCEPT ![h] = None]
    /\ NoteOverlap(rpc, a)
    /\ UNCHANGED <<alive, update_failed>>

Free(h) == alive /\ pc[h] = "idle"

----------------------------------------------------------------------------
(* The handlers of scord, up to where they wait for scord-ctl.             *)

Deploy(h, a) ==
    /\ Free(h)
    /\ IF a \in m_adhoc_storages
       THEN Contact(h, "deploy", a, m_resources[a])
       ELSE Respond(h, "deploy", a, "no_such_entity")
    /\ UNCHANGED <<m_adhoc_storages, m_resources, has_client, network, ctl,
                   node>>

\* Mutant of Update: the request carries the resources there were before.
UpdateLate(h, a, n) ==
    /\ Free(h)
    /\ a \in m_adhoc_storages
    /\ Contact(h, "shrink", a, m_resources[a])
    /\ m_resources' = [m_resources EXCEPT ![a] = n]
    /\ UNCHANGED <<m_adhoc_storages, has_client, network, ctl, node>>

\* scord records the new resources before it contacts the controller.  The
\* instance is expanded if it grows and shrunk otherwise.
Update(h, a, n) ==
    /\ Free(h)
    /\ \/ /\ a \in m_adhoc_storages
          /\ m_resources' = [m_resources EXCEPT ![a] = n]
          /\ Contact(h, IF n > m_resources[a] THEN "expand" ELSE "shrink", a, n)
       \/ /\ a \notin m_adhoc_storages
          /\ Throw(h, "shrink", a)
          /\ UNCHANGED m_resources
    /\ UNCHANGED <<m_adhoc_storages, has_client, network, ctl, node>>

Terminate(h, a) ==
    /\ Free(h)
    /\ \/ /\ a \in m_adhoc_storages
          /\ Contact(h, "terminate", a, m_resources[a])
       \/ /\ a \notin m_adhoc_storages
          /\ Throw(h, "terminate", a)
    /\ UNCHANGED <<m_adhoc_storages, m_resources, has_client, network, ctl,
                   node>>

\* ADM_remove_adhoc_storage (see ScordRegistry), at any time.
RemoveAdhoc(a) ==
    /\ alive
    /\ a \in m_adhoc_storages
    /\ m_adhoc_storages' = m_adhoc_storages \ {a}
    /\ UNCHANGED <<m_resources, has_client, alive, handler, network, ctl, node>>

\* A job registers with the instance or is removed (see ScordRegistry);
\* only the Redis record looks at it.
ClientChanges(a) ==
    /\ alive /\ HasRedis
    /\ has_client' = [has_client EXCEPT ![a] = ~@]
    /\ UNCHANGED <<m_adhoc_storages, m_resources, alive, handler, network, ctl,
                   node>>

----------------------------------------------------------------------------
(* Calling scord-ctl.                                                      *)

\* Mutant of Unreachable: the error of every request is taken with value().
UnreachableThrows(h) == Throw(h, msg[h].rpc, msg[h].adhoc)

\* No endpoint, or no answer: snafu, which update cannot answer with.
Unreachable(h) ==
    IF msg[h].rpc \in Updates
    THEN Throw(h, msg[h].rpc, msg[h].adhoc)
    ELSE Respond(h, msg[h].rpc, msg[h].adhoc, "snafu")

LookupFails(h) ==
    /\ alive /\ pc[h] = "lookup" /\ Faults
    /\ Unreachable(h)
    /\ UNCHANGED <<m_adhoc_storages, m_resources, has_client, network, ctl,
                   node>>

Send(h) ==
    /\ alive /\ pc[h] = "lookup"
    /\ net' = net \cup {h}
    /\ pc' = [pc EXCEPT ![h] = "call"]
    /\ UNCHANGED <<scord, msg, resp, update_failed, overlapped, late, reply, ctl,
                   node>>

\* call() fails: the request is lost, or scord-ctl has yet to serve it or is
\* still at it, or its answer is lost.  Nothing is cancelled.
CallFails(h) ==
    /\ alive /\ pc[h] = "call" /\ Faults
    /\ net' = net \ {h}
    /\ \/ UNCHANGED late
       \/ /\ h \in net /\ Cardinality(late) < MaxLate
          /\ late' = late \cup {msg[h]}
    /\ reply' = [reply EXCEPT ![h] = None]
    /\ ctl_from' = IF ctl_from = h THEN None ELSE ctl_from
    /\ Unreachable(h)
    /\ UNCHANGED <<m_adhoc_storages, m_resources, has_client, ctl_pc, ctl_msg,
                   node>>

\* call() returns.  After a success the job of the instance's client is
\* written to Redis: the instance must still be there, and have a client.
CallReturns(h) ==
    LET rpc == msg[h].rpc
        a   == msg[h].adhoc
        record == HasRedis /\ rpc \notin Updates /\ reply[h] = "success"
    IN
    /\ alive /\ pc[h] = "call" /\ reply[h] # None
    /\ reply' = [reply EXCEPT ![h] = None]
    /\ IF record /\ a \notin m_adhoc_storages
       THEN Throw(h, rpc, a)
       ELSE IF record /\ ~has_client[a]
       THEN alive' = FALSE /\ UNCHANGED handler
       ELSE Respond(h, rpc, a, reply[h])
    /\ UNCHANGED <<m_adhoc_storages, m_resources, has_client, net, late, ctl,
                   node>>

----------------------------------------------------------------------------
(* scord-ctl.                                                              *)

\* Mutant of Answer: a path that does not reach `respond`.
AnswerForgotten(from, ec) == UNCHANGED reply

\* The answer reaches the handler that waits for it, if one does.
Answer(from, ec) ==
    reply' = IF from = None THEN reply ELSE [reply EXCEPT ![from] = ec]

\* The error for a type that is not configured.
NoConfiguration == IF HasConfig THEN "adhoc_type_unsupported" ELSE "snafu"

\* Mutant of Refused: the check for an existing directory is dropped.
RefusedUnsupported(m, ec) ==
    m.adhoc \in Unsupported /\ ec = NoConfiguration

\* A request that ends before any command is run, and the answer to it.
Refused(m, ec) ==
    \/ m.adhoc \in Unsupported /\ ec = NoConfiguration
    \/ /\ m.adhoc \notin Unsupported
       /\ m.rpc = "deploy"
       /\ \/ m.adhoc \in dirs /\ ec = "adhoc_dir_exists"
          \/ m.adhoc \notin dirs /\ Faults /\ ec = "adhoc_dir_create_failed"

CtlRefuse(h) ==
    /\ ctl_pc = "idle" /\ h \in net
    /\ net' = net \ {h}
    /\ \E ec \in ErrorCodes : Refused(msg[h], ec) /\ Answer(h, ec)
    /\ UNCHANGED <<scord, handler, late, ctl, node>>

\* A request is accepted; deploy creates the working directory first.
Accept(m, from) ==
    /\ ~ Refused(m, NoConfiguration)
    /\ ~ Refused(m, "adhoc_dir_exists")
    /\ ctl_pc' = "exec" /\ ctl_msg' = m /\ ctl_from' = from
    /\ dirs' = IF m.rpc = "deploy" THEN dirs \cup {m.adhoc} ELSE dirs
    /\ UNCHANGED <<scord, handler, reply, service_nodes, startups>>

CtlAccept(h) ==
    /\ ctl_pc = "idle" /\ h \in net
    /\ net' = net \ {h}
    /\ Accept(msg[h], h)
    /\ UNCHANGED late

\* A request that its handler gave up is served all the same; the answer
\* reaches nobody.
CtlTakeLate(m) ==
    /\ ctl_pc = "idle" /\ m \in late
    /\ late' = late \ {m}
    /\ \/ /\ \E ec \in ErrorCodes : Refused(m, ec)
          /\ UNCHANGED <<scord, handler, reply, ctl, node>>
       \/ Accept(m, None)
    /\ UNCHANGED net

\* What the script of a request does to the service.
ScriptEffect(m) ==
    service_nodes' = [service_nodes EXCEPT ![m.adhoc] =
        IF m.rpc = "terminate" THEN 0
        ELSE IF m.rpc = "deploy" \/ @ # 0 THEN m.nodes
        ELSE 0]

\* command::exec() forks the script; a deploy counts as a startup.
CountStartup(m) ==
    startups' = IF m.rpc = "deploy" /\ startups[m.adhoc] < 2
                THEN [startups EXCEPT ![m.adhoc] = @ + 1]
                ELSE startups

CtlIdle == ctl_pc' = "idle" /\ ctl_msg' = None /\ ctl_from' = None

\* Mutant of CtlExec: a deployment is answered although its command did not
\* start.
CtlExecSkipped ==
    /\ ctl_pc = "exec"
    /\ UNCHANGED <<service_nodes, startups>>
    /\ Answer(ctl_from, "success")
    /\ CtlIdle
    /\ UNCHANGED <<scord, handler, net, late, dirs>>

CtlExec ==
    /\ ctl_pc = "exec"
    /\ ScriptEffect(ctl_msg)
    /\ CountStartup(ctl_msg)
    /\ Answer(ctl_from, "success")
    /\ CtlIdle
    /\ UNCHANGED <<scord, handler, net, late, dirs>>

\* The script fails, having done its work or not, or cannot be started.
\* The working directory stays.
CtlExecFails ==
    /\ ctl_pc = "exec" /\ Faults
    /\ \/ ScriptEffect(ctl_msg) /\ CountStartup(ctl_msg)
       \/ UNCHANGED <<service_nodes, startups>>
    /\ Answer(ctl_from, "subprocess_error")
    /\ CtlIdle
    /\ UNCHANGED <<scord, handler, net, late, dirs>>

\* scord-ctl dies while it serves a request and is started again.  What had
\* reached it is lost; the calls behind it fail.
CtlCrash ==
    /\ ctl_pc = "exec" /\ Faults
    /\ \/ ScriptEffect(ctl_msg) /\ CountStartup(ctl_msg)
       \/ UNCHANGED <<service_nodes, startups>>
    /\ CtlIdle
    /\ late' \in SUBSET late
    /\ UNCHANGED <<scord, handler, net, reply, dirs>>

----------------------------------------------------------------------------

Request(h, a) ==
    \/ Deploy(h, a)
    \/ \E n \in Sizes : Update(h, a, n)
    \/ Terminate(h, a)

HandlerStep(h) == LookupFails(h) \/ Send(h) \/ CallFails(h) \/ CallReturns(h)

CtlStep ==
    \/ \E h \in Handlers : CtlRefuse(h) \/ CtlAccept(h)
    \/ \E m \in late : CtlTakeLate(m)
    \/ CtlExec
    \/ CtlExecFails

Next ==
    \/ \E h \in Handlers, a \in Adhocs : Request(h, a)
    \/ \E a \in Adhocs : RemoveAdhoc(a) \/ ClientChanges(a)
    \/ \E h \in Handlers : HandlerStep(h)
    \/ CtlStep
    \/ CtlCrash

Spec == Init /\ [][Next]_vars

\* Both daemons run their handlers in FIFO order, and scord-ctl serves the
\* requests that reach it in some fair order.
FairSpec ==
    /\ Spec
    /\ \A h \in Handlers : WF_vars(HandlerStep(h))
    /\ WF_vars(CtlExec)
    /\ \A h \in Handlers : SF_vars(CtlRefuse(h) \/ CtlAccept(h))

----------------------------------------------------------------------------
(* Properties.                                                             *)

\* The startup command of an instance is run at most once, whatever calls
\* are repeated, lost or given up, and whenever scord-ctl restarts: the
\* working directory is the guard (scord-ctl/rpc_server.cpp:147-161).
StartupAtMostOnce == \A a \in Adhocs : startups[a] <= 1

\* A deployment is answered with success only if this very deployment ran
\* the startup command: never two for the same instance
\* (rpc_server.cpp:565-579, scord-ctl/rpc_server.cpp:172-181).
DeploySuccessIsReal ==
    \A h \in Handlers :
        (resp[h] # None /\ resp[h].rpc = "deploy" /\ resp[h].ec = "success") =>
            LET a == resp[h].adhoc IN
            /\ startups[a] = 1
            /\ \A g \in Handlers \ {h} :
                  (resp[g] # None /\ resp[g].rpc = "deploy" /\ resp[g].adhoc = a)
                      => resp[g].ec # "success"

\* No request for the instance is on its way or being served.
Quiet(a) ==
    /\ ~Underway(a)
    /\ ctl_msg # None => ctl_msg.adhoc # a

\* A running service that is not being changed has the nodes scord records
\* for it, unless the last update failed and its client could tell, or it or
\* a request since met another request for the instance, be it one that was
\* given up and is still queued.  This holds although scord records before it
\* calls, calls are lost and scord-ctl serves what was given up
\* (rpc_server.cpp:419-488).
ResizeAgrees ==
    \A a \in Adhocs :
        /\ Quiet(a) /\ ~update_failed[a] /\ ~overlapped[a]
        /\ service_nodes[a] # 0
        => service_nodes[a] = m_resources[a]

\* A request that waited for scord-ctl is answered, unless it is an update
\* that failed or, when its job goes to Redis, its instance was removed
\* meanwhile: then value() throws out of the handler (rpc_server.cpp:488).
AnswersAreSent ==
    [][\A h \in Handlers :
          LET a == msg[h].adhoc IN
          msg[h] # None /\ msg'[h] = None /\ resp'[h] = None =>
              \/ msg[h].rpc \in Updates /\ update_failed'[a]
              \/ HasRedis /\ a \notin m_adhoc_storages]_vars

\* The daemon goes down only over an instance that was removed, one whose
\* last update failed or, with Redis, one without a job: not over a deployment
\* or a termination that fails, or an answer that is lost (rpc_server.cpp:488
\* and :599).
CrashIsKnown ==
    ~alive => \E a \in Adhocs :
        \/ a \notin m_adhoc_storages
        \/ update_failed[a]
        \/ HasRedis /\ ~has_client[a]

\* Every request for an instance ends, unless the daemon goes down first:
\* the two daemons do not wait for each other for ever.
RequestsEnd == \A h \in Handlers : pc[h] # "idle" ~> (pc[h] = "idle" \/ ~alive)
----------------------------------------------------------------------------
(* The inductive invariant.                                                *)

\* A request is in one place: with its handler, on the network, with
\* scord-ctl or on its way back.
OnePlace ==
    /\ \A h \in Handlers :
          /\ pc[h] # "idle" <=> msg[h] # None
          /\ h \in net \/ reply[h] # None => pc[h] = "call"
          /\ h \in net => reply[h] = None
    /\ ctl_from # None =>
          /\ pc[ctl_from] = "call"
          /\ ctl_from \notin net
          /\ reply[ctl_from] = None
          /\ msg[ctl_from] = ctl_msg
    /\ ctl_pc = "exec" <=> ctl_msg # None
    /\ ctl_pc = "idle" => ctl_from = None

\* A startup command, run or about to be, has left its directory.
DirectoryGuards ==
    /\ \A a \in Adhocs : startups[a] >= 1 => a \in dirs
    /\ (ctl_msg # None /\ ctl_msg.rpc = "deploy") =>
          startups[ctl_msg.adhoc] = 0 /\ ctl_msg.adhoc \in dirs

\* Handler h has been told, or has answered, that it deployed instance a.
Deployed(h, a) ==
    \/ /\ msg[h] # None /\ msg[h].rpc = "deploy" /\ msg[h].adhoc = a
       /\ reply[h] = "success"
    \/ /\ resp[h] # None /\ resp[h].rpc = "deploy" /\ resp[h].adhoc = a
       /\ resp[h].ec = "success"

\* At most one handler has deployed an instance, and its command was run.
OneDeployer ==
    \A a \in Adhocs, h \in Handlers : Deployed(h, a) =>
        /\ startups[a] = 1
        /\ \A g \in Handlers : Deployed(g, a) => g = h

\* The inductive invariant: the directory guards the startup command, and
\* the one answer to the one command reaches at most one handler
\* (scord-ctl/rpc_server.cpp:147-194).
LifecycleInv ==
    /\ TypeOK
    /\ OnePlace
    /\ StartupAtMostOnce
    /\ DirectoryGuards
    /\ OneDeployer
============================================================================
