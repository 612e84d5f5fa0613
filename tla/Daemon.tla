------------------------------ MODULE Daemon ------------------------------
(***************************************************************************)
(* The life of the daemons: scord, which forks unless told to stay in the  *)
(* foreground, and scord-ctl, which does not.  A program writes its pid    *)
(* to a file, serves requests, and stops when a signal tells it to.  The   *)
(* requests of one of the programs (Server) are those of Managers: they    *)
(* live in its memory, and finalize() waits for them.                      *)
(***************************************************************************)
EXTENDS Sequences, ManagersConstants

CONSTANTS
    Programs,       \* programs that are started, in the same directory
    Server,         \* the one whose requests are modelled
    Modes,          \* how they are started
    PidString,      \* the pid of each process, as its digits
    StalePids,      \* what an earlier daemon may have left in the pidfile
    Faults          \* TRUE: processes may be killed and system calls fail

Procs == Programs \X {"main", "child"}

ASSUME DaemonAssumption ==
    /\ Server \in Programs
    /\ Modes \subseteq {"daemon", "foreground", "ctl", "ctl_pidfile"}
    /\ PidString \in [Procs -> Seq(Nat)]
    /\ StalePids \subseteq Seq(Nat) \cup {None}
    /\ Faults \in BOOLEAN
    /\ None \notin Seq(Nat) \cup Procs

VARIABLES
    m_jobs, m_slurm_to_scord, m_pfs_storages, current_id,   \* Managers
    readers, writer, hpc, req, id, resp, nh,
    mode,           \* how each program was started
    orphan,         \* programs whose parent is init when they are started
    pc,             \* what the main thread of each process does
    sched,          \* scheduler thread of each process
    shutting_down,  \* m_shutting_down of each process
    listener,       \* signal listener thread of each process
    pending,        \* processes with a signal not yet handled
    finalized,      \* processes whose network engine is finalized
    pidfile,        \* contents of the pidfile, None if there is none
    lock            \* the process that has the pidfile locked

memory == <<m_jobs, m_slurm_to_scord, m_pfs_storages, current_id,
            readers, writer, hpc, req, id, resp, nh>>
threads == <<sched, shutting_down, listener, pending, finalized>>
start == <<mode, orphan>>
file == <<pidfile, lock>>
vars == <<memory, start, pc, threads, file>>

H == INSTANCE Managers WITH pc <- hpc

Over == {"none", "new", "failed", "killed", "stopped", "exited"}
Steps == Over \cup {"run", "detach", "open", "lock", "write", "close",
                    "install", "serving", "teardown", "remove",
                    "parent", "parent_join"}
Alive(p) == pc[p] \notin Over
HasPidfile(d) == mode[d] \in {"daemon", "ctl_pidfile"}
IsScord(d) == mode[d] \in {"daemon", "foreground"}

\* Every variable has its type.
TypeOK ==
    /\ H!TypeOK
    /\ mode \in [Programs -> Modes]
    /\ orphan \subseteq Programs
    /\ pc \in [Procs -> Steps]
    /\ sched \in [Procs -> {"none", "running", "ended", "lost"}]
    /\ shutting_down \in [Procs -> BOOLEAN]
    /\ listener \in [Procs -> {"off", "waiting", "shutdown", "joined"}]
    /\ pending \subseteq Procs
    /\ finalized \subseteq Procs
    /\ pidfile \in Seq(Nat) \cup {None}
    /\ lock \in Procs \cup {None}

Init ==
    /\ H!Init
    /\ mode \in [Programs -> Modes]
    /\ orphan \in SUBSET {d \in Programs : mode[d] = "daemon"}
    /\ pc = [p \in Procs |-> IF p[2] = "main" THEN "new" ELSE "none"]
    /\ sched = [p \in Procs |-> "none"]
    /\ shutting_down = [p \in Procs |-> FALSE]
    /\ listener = [p \in Procs |-> "off"]
    /\ pending = {}
    /\ finalized = {}
    /\ pidfile \in IF \E d \in Programs : HasPidfile(d) THEN StalePids ELSE {None}
    /\ lock = None

----------------------------------------------------------------------------
(* Steps of a main thread.                                                 *)

At(p, step) == pc[p] = step
Goto(p, step) == pc' = [pc EXCEPT ![p] = step]

\* The memory of the server is gone with the process that served.
Forget ==
    /\ m_jobs' = [i \in {} |-> None]
    /\ m_slurm_to_scord' = [s \in {} |-> None]
    /\ m_pfs_storages' = [i \in {} |-> None]
    /\ current_id' = [m \in H!Mutexes |-> 0]
    /\ readers' = [m \in H!Mutexes |-> [h \in Handlers |-> 0]]
    /\ writer' = [m \in H!Mutexes |-> None]
    /\ hpc' = [h \in Handlers |-> "idle"]
    /\ req' = [h \in Handlers |-> None]
    /\ id' = [h \in Handlers |-> None]
    /\ resp' = [h \in Handlers |-> None]
    /\ nh' = [h \in Handlers |-> None]

\* A process ends: its threads with it, and its locks are released.
End(p, how) ==
    /\ Goto(p, how)
    /\ sched' = [sched EXCEPT ![p] = "none"]
    /\ listener' = [listener EXCEPT ![p] = "off"]
    /\ pending' = pending \ {p}
    /\ lock' = IF lock = p THEN None ELSE lock
    /\ IF p[1] = Server /\ pc[p] \in {"serving", "teardown", "remove"}
       THEN Forget ELSE UNCHANGED memory
    /\ UNCHANGED <<start, shutting_down, finalized>>

\* main(): the engine binds its address, which may fail, and scord starts its
\* scheduler thread, all before it forks.
Construct(p) ==
    /\ At(p, "new")
    /\ \/ /\ Goto(p, "run")
          /\ sched' = [sched EXCEPT ![p] = IF IsScord(p[1]) THEN "running"
                                                            ELSE "none"]
          /\ UNCHANGED <<memory, start, file, shutting_down, listener,
                         pending, finalized>>
       \/ Faults /\ End(p, "failed") /\ UNCHANGED pidfile

Child(p) == <<p[1], "child">>
AfterDaemonize(d) == IF HasPidfile(d) THEN "open" ELSE "install"

\* fork() copies the thread that calls it and no other one.
Fork(p) ==
    /\ At(p, "run") /\ mode[p[1]] = "daemon" /\ p[1] \notin orphan
    /\ pc' = [pc EXCEPT ![p] = "parent", ![Child(p)] = "detach"]
    /\ sched' = [sched EXCEPT ![Child(p)] = "lost"]
    /\ UNCHANGED <<memory, start, file, shutting_down, listener, pending,
                   finalized>>

\* A program that is not to be a daemon, or is one already, goes on itself.
StayInForeground(p) ==
    /\ At(p, "run")
    /\ mode[p[1]] = "daemon" => p[1] \in orphan
    /\ Goto(p, AfterDaemonize(p[1]))
    /\ UNCHANGED <<memory, start, file, threads>>

\* The child leaves its session, its standard streams and its directory.
Detach(p) ==
    /\ At(p, "detach")
    /\ Goto(p, AfterDaemonize(p[1]))
    /\ UNCHANGED <<memory, start, file, threads>>

\* The pid is written over the first bytes of the file.
Overwrite(old, new) == new \o SubSeq(old, Len(new) + 1, Len(old))

\* fork(), setsid(), open(), dup2(), chdir() or a step of write_pidfile()
\* fails: the process exits.  A write that fails may have written a part.
Fails(p) ==
    /\ Faults
    /\ \/ /\ pc[p] \in {"run", "detach", "open"}
          /\ pc[p] = "run" => mode[p[1]] = "daemon" /\ p[1] \notin orphan
          /\ UNCHANGED pidfile
       \/ /\ pc[p] = "write" /\ pidfile # None
          /\ \E n \in 0 .. Len(PidString[p]) - 1 :
                pidfile' = Overwrite(pidfile, SubSeq(PidString[p], 1, n))
    /\ End(p, "failed")

\* Mutant of ParentShutdown: the parent tears down what the child has set up.
ParentTeardown(p) ==
    /\ At(p, "parent")
    /\ shutting_down' = [shutting_down EXCEPT ![p] = TRUE]
    /\ pidfile' = None
    /\ Goto(p, "parent_join")
    /\ UNCHANGED <<memory, start, lock, sched, listener, pending, finalized>>

\* The parent shuts its own engine and scheduler down, and returns.
ParentShutdown(p) ==
    /\ At(p, "parent")
    /\ shutting_down' = [shutting_down EXCEPT ![p] = TRUE]
    /\ Goto(p, "parent_join")
    /\ UNCHANGED <<memory, start, file, sched, listener, pending, finalized>>

ParentExit(p) ==
    /\ At(p, "parent_join") /\ sched[p] = "ended"
    /\ End(p, "exited")
    /\ UNCHANGED pidfile

----------------------------------------------------------------------------
(* write_pidfile().                                                        *)

\* O_CREAT without O_TRUNC: what is in the file stays.
OpenPidfile(p) ==
    /\ At(p, "open")
    /\ pidfile' = IF pidfile = None THEN <<>> ELSE pidfile
    /\ Goto(p, "lock")
    /\ UNCHANGED <<memory, start, lock, threads>>

\* lockf(F_TLOCK): a process that does not get the lock gives up.
LockPidfile(p) ==
    /\ At(p, "lock")
    /\ IF lock = None
       THEN /\ lock' = p /\ Goto(p, "write")
            /\ UNCHANGED <<memory, start, threads, pidfile>>
       ELSE End(p, "failed") /\ UNCHANGED pidfile

\* Another daemon's teardown may have unlinked the file meanwhile: then the
\* pid goes to a file without a name (and no third program makes a new one).
WritePidfile(p) ==
    /\ At(p, "write")
    /\ pidfile' = IF pidfile = None THEN None
                  ELSE Overwrite(pidfile, PidString[p])
    /\ Goto(p, "close")
    /\ UNCHANGED <<memory, start, lock, threads>>

\* close() gives the lock back.
ClosePidfile(p) ==
    /\ At(p, "close")
    /\ lock' = None
    /\ Goto(p, "install")
    /\ UNCHANGED <<memory, start, pidfile, threads>>

----------------------------------------------------------------------------
(* Serving and stopping.                                                   *)

\* The listener thread is started; the main thread waits for finalize().
InstallSignalHandlers(p) ==
    /\ At(p, "install")
    /\ listener' = [listener EXCEPT ![p] = "waiting"]
    /\ Goto(p, "serving")
    /\ UNCHANGED <<memory, start, file, sched, shutting_down, pending, finalized>>

\* SIGTERM or SIGINT: a process that does not listen yet is killed.
Signal(p) ==
    /\ Alive(p)
    /\ IF listener[p] = "off" /\ pc[p] \notin {"remove"}
       THEN End(p, "killed") /\ UNCHANGED pidfile
       ELSE /\ pending' = pending \cup {p}
            /\ UNCHANGED <<memory, start, pc, file, sched, shutting_down,
                           listener, finalized>>

\* Mutant of HandleSignal: the flag is not set before the engine is finalized.
HandleSignalUnflagged(p) ==
    /\ listener[p] = "waiting" /\ p \in pending /\ p \notin finalized
    /\ pending' = pending \ {p}
    /\ listener' = [listener EXCEPT ![p] = "shutdown"]
    /\ UNCHANGED <<memory, start, pc, file, sched, shutting_down, finalized>>

\* signal_handler() calls shutdown() in the listener's thread.
HandleSignal(p) ==
    /\ listener[p] = "waiting" /\ p \in pending /\ p \notin finalized
    /\ pending' = pending \ {p}
    /\ shutting_down' = [shutting_down EXCEPT ![p] = TRUE]
    /\ listener' = [listener EXCEPT ![p] = "shutdown"]
    /\ UNCHANGED <<memory, start, pc, file, sched, finalized>>

\* A signal that is handled before the listener is stopped finalizes an
\* engine that is finalized already: the library may do nothing, or crash.
HandleLateSignal(p) ==
    /\ listener[p] = "waiting" /\ p \in pending /\ p \in finalized
    /\ \/ /\ pending' = pending \ {p}
          /\ UNCHANGED <<memory, start, pc, file, sched, shutting_down,
                         listener, finalized>>
       \/ End(p, "killed") /\ UNCHANGED pidfile

\* The scheduler leaves its loop when it sees the flag.
SchedulerEnds(p) ==
    /\ sched[p] = "running" /\ shutting_down[p]
    /\ sched' = [sched EXCEPT ![p] = "ended"]
    /\ UNCHANGED <<memory, start, pc, file, shutting_down, listener, pending,
                   finalized>>

\* Mutant of JoinScheduler: the callback does not wait for the thread.
JoinSchedulerLater(p) ==
    /\ listener[p] = "shutdown"
    /\ listener' = [listener EXCEPT ![p] = "joined"]
    /\ UNCHANGED <<memory, start, pc, file, sched, shutting_down, pending,
                   finalized>>

\* finalize(): the callback joins the scheduler thread,
JoinScheduler(p) ==
    /\ listener[p] = "shutdown"
    /\ sched[p] \in {"none", "ended"}
    /\ listener' = [listener EXCEPT ![p] = "joined"]
    /\ UNCHANGED <<memory, start, pc, file, sched, shutting_down, pending,
                   finalized>>

\* and then the engine waits for the handlers that have begun.
Finalize(p) ==
    /\ listener[p] = "joined"
    /\ p[1] = Server => H!Quiet
    /\ finalized' = finalized \cup {p}
    /\ listener' = [listener EXCEPT ![p] = "waiting"]
    /\ UNCHANGED <<memory, start, pc, file, sched, shutting_down, pending>>

\* teardown(): the listener is stopped; a daemon removes the pidfile,
\* whoever's pid it contains.
Teardown(p) ==
    /\ \/ /\ At(p, "serving") /\ p \in finalized
          /\ Goto(p, "teardown")
          /\ UNCHANGED listener
       \/ /\ At(p, "teardown")
          /\ listener' = [listener EXCEPT ![p] = "off"]
          /\ Goto(p, "remove")
    /\ UNCHANGED <<memory, start, file, sched, shutting_down, pending, finalized>>

RemovePidfile(p) ==
    /\ At(p, "remove")
    /\ pidfile' = IF mode[p[1]] = "daemon" THEN None ELSE pidfile
    /\ End(p, "stopped")

\* A crash, or a signal that cannot be handled.
Kill(p) == Faults /\ Alive(p) /\ End(p, "killed") /\ UNCHANGED pidfile

----------------------------------------------------------------------------
(* The server's handlers.                                                  *)

Serving(p) == pc[p] = "serving" /\ p \notin finalized
ServerServes == IsScord(Server) /\ \E p \in Procs : p[1] = Server /\ Serving(p)

\* Clients call whichever process of the server serves, whether or not the
\* command that started it has returned.
Receive(h, r) ==
    /\ ServerServes
    /\ H!Start(h, r)
    /\ UNCHANGED <<start, pc, threads, file>>

Handle(h) ==
    /\ ServerServes
    /\ H!Work(h)
    /\ UNCHANGED <<start, pc, threads, file>>

----------------------------------------------------------------------------
Main(p) ==
    \/ Construct(p) \/ Fork(p) \/ StayInForeground(p) \/ Detach(p)
    \/ ParentShutdown(p) \/ ParentExit(p)
    \/ OpenPidfile(p) \/ LockPidfile(p) \/ WritePidfile(p) \/ ClosePidfile(p)
    \/ InstallSignalHandlers(p) \/ Teardown(p) \/ RemovePidfile(p)

Listener(p) == HandleSignal(p) \/ HandleLateSignal(p) \/ JoinScheduler(p)
               \/ Finalize(p)

Environment(p) == Signal(p) \/ Fails(p) \/ Kill(p)

Next ==
    \/ \E p \in Procs :
          Main(p) \/ Listener(p) \/ SchedulerEnds(p) \/ Environment(p)
    \/ \E h \in Handlers : Handle(h) \/ \E r \in H!Requests : Receive(h, r)

Spec == Init /\ [][Next]_vars

\* Every thread of a process goes on; handlers that wait for a mutex get it.
Fairness ==
    /\ \A p \in Procs : /\ WF_vars(Main(p)) /\ WF_vars(Listener(p))
                        /\ WF_vars(SchedulerEnds(p))
    /\ \A h \in Handlers : WF_vars(Handle(h))

FairSpec == Spec /\ Fairness

----------------------------------------------------------------------------
(* Properties.                                                             *)

\* While no other program has been started, the pidfile names the process
\* that serves, and not the parent that forked it, from the moment it is
\* written until the daemon removes it - unless a longer pid was left there.
LoneDaemonPidfile ==
    \A p \in Procs :
        /\ HasPidfile(p[1])
        /\ pc[p] \in {"close", "install", "serving", "teardown", "remove"}
        /\ \A q \in Procs : q[1] # p[1] => pc[q] \in {"none", "new"}
        /\ \A s \in StalePids : s # None => Len(s) <= Len(PidString[p])
        => pidfile = PidString[p]

\* A process that was told to stop while it serves stops, also with requests
\* in the middle of the managers and whatever signals come after the first,
\* if it has its scheduler thread: a daemon that forked has lost it, and its
\* finalize() waits for ever.
StopsWhenTold ==
    \A p \in Procs :
        pc[p] = "serving" /\ p \in pending /\ sched[p] # "lost" ~> ~Alive(p)

\* A process finalizes its engine only once it has no scheduler thread left,
\* which works with the engine (rpc_server.cpp:106).  A scord that forked has
\* lost its thread without an end to wait for (rpc_server.cpp:82): it never
\* gets as far as removing its pidfile and stopping.
EngineOutlivesScheduler ==
    \A p \in Procs :
        /\ p \in finalized => sched[p] \in {"none", "ended"}
        /\ p[2] = "child" => pc[p] \notin {"teardown", "remove", "stopped"}

\* Every request that reached a handler ends, unless the server does.
RequestsReturn ==
    \A h \in Handlers : hpc[h] # "idle" ~> hpc[h] \in {"done", "idle"}

\* The managers do what AtomicManagers promises, as long as they live.
ImplementsAtomic == H!ImplementsAtomic

\* A job that query found in the Slurm index is still there when the nested
\* find() looks for it (job_manager.hpp:105-119).
NestedFindSucceeds == H!NestedFindSucceeds

\* A handler that waits for a mutex waits for handlers that go on, also when
\* query takes the mutex of the jobs twice (job_manager.hpp:112).
NoDeadlock == H!NoDeadlock

\* One daemon serves under a pidfile: "Failed to acquire lock on pidfile.
\* Another instance of this daemon may already be running"
\* (server.cpp:60-63).  The code gives the lock back when it closes the file
\* (server.cpp:79), so a second one does start: this is violated.
OneDaemonPerPidfile ==
    \A p, q \in Procs :
        /\ Serving(p) /\ HasPidfile(p[1])
        /\ Serving(q) /\ HasPidfile(q[1])
        => p = q
============================================================================
