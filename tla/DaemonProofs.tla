---------------------------- MODULE DaemonProofs ----------------------------
(***************************************************************************)
(* Proofs about Daemon, for any number of programs, of handlers and of     *)
(* requests, with crashes and failing system calls.  The memory of the     *)
(* server takes steps of Managers, whose theorems hold of it until it is   *)
(* forgotten; the pidfile depends on who has forked and who has started.   *)
(***************************************************************************)
EXTENDS Daemon, SequenceTheorems, TLAPS

\* The managers in the server's memory, with what is proved about them.
HP == INSTANCE ManagersAtomicity WITH pc <- hpc

----------------------------------------------------------------------------
(* Daemon has an instance of Managers of its own: it is the same.           *)

\* The sets of requests, answers and steps are the same.
LEMMA SameSets ==
    /\ H!Requests = HP!Requests /\ Requests = HP!Requests
    /\ H!Mutexes = HP!Mutexes /\ H!Ids = HP!Ids /\ H!Readers = HP!Readers
    /\ H!Responses = HP!Responses /\ H!Steps = HP!Steps /\ H!Job = HP!Job
    /\ H!Registrations = HP!Registrations
    /\ \A op : H!MutexOf(op) = HP!MutexOf(op)
BY DEF H!Requests, HP!Requests, Requests, H!Request, HP!Request, Request, H!Ids, HP!Ids, Ids,
       H!Mutexes, HP!Mutexes, H!Readers, HP!Readers, H!Responses, HP!Responses,
       H!Steps, HP!Steps, H!Job, HP!Job, H!Registrations, HP!Registrations,
       H!MutexOf, HP!MutexOf, H!JobOps, HP!JobOps

\* So are the initial states, the types and what query relies on,
LEMMA SameStates ==
    /\ H!Init <=> HP!Init
    /\ H!TypeOK <=> HP!TypeOK
    /\ H!NestedFindSucceeds <=> HP!NestedFindSucceeds
<1>1. H!Init <=> HP!Init
  BY SameSets DEF H!Init, HP!Init
<1>2. H!TypeOK <=> HP!TypeOK
  BY SameSets DEF H!TypeOK, HP!TypeOK
<1>3. H!NestedFindSucceeds <=> HP!NestedFindSucceeds
  BY DEF H!NestedFindSucceeds, HP!NestedFindSucceeds
<1> QED
  BY <1>1, <1>2, <1>3

\* the arrival of a request,
LEMMA SameStart ==
    ASSUME NEW h, NEW r
    PROVE  H!Start(h, r) <=> HP!Start(h, r)
<1>1. \A op : H!Asked(op) = HP!Asked(op)
  BY DEF H!Asked, HP!Asked, H!Op, HP!Op
<1>2. \A S : H!Cardinality(S) = HP!Cardinality(S)
  BY DEF H!Cardinality, HP!Cardinality
<1> QED
  BY SameSets, <1>1, <1>2 DEF H!Start, HP!Start, H!At, HP!At, H!Goto, HP!Goto,
    H!tables, HP!tables, H!locks, HP!locks

\* every step of a handler,
LEMMA SameWork ==
    ASSUME NEW h
    PROVE  H!Work(h) <=> HP!Work(h)
BY DEF H!Work, HP!Work, H!Draw, HP!Draw, H!Lock, HP!Lock, H!Unlock, HP!Unlock,
    H!CreateJob, HP!CreateJob, H!IndexJob, HP!IndexJob, H!RemoveJob, HP!RemoveJob,
    H!UnindexJob, HP!UnindexJob, H!UpdateJob, HP!UpdateJob, H!FindJob, HP!FindJob,
    H!LookupSlurm, HP!LookupSlurm, H!NestedLock, HP!NestedLock,
    H!NestedFind, HP!NestedFind, H!NestedUnlock, HP!NestedUnlock,
    H!CreatePfs, HP!CreatePfs, H!UpdatePfs, HP!UpdatePfs, H!RemovePfs, HP!RemovePfs,
    H!At, HP!At, H!Goto, HP!Goto, H!Result, HP!Result, H!Op, HP!Op,
    H!MutexOf, HP!MutexOf, H!JobOps, HP!JobOps, H!Readers, HP!Readers,
    H!rdlock, HP!rdlock, H!wrlock, HP!wrlock, H!unlock, HP!unlock,
    H!MayRead, HP!MayRead, H!MayWrite, HP!MayWrite,
    H!tables, HP!tables, H!locks, HP!locks, H!Emplace, HP!Emplace,
    H!Erase, HP!Erase, H!Find, HP!Find

\* the index as AtomicManagers sees it,
LEMMA SameIndex == H!AbstractIndex = HP!AbstractIndex
BY DEF H!AbstractIndex, HP!AbstractIndex, H!Halfway, HP!Halfway

\* before a step and after it,
LEMMA SameIndexNext == (H!AbstractIndex = HP!AbstractIndex)'
BY SameIndex, PTL

\* and the managers that are promised.
LEMMA SameAtomic ==
    /\ H!Atomic!Init <=> HP!Atomic!Init
    /\ H!Atomic!vars = HP!Atomic!vars
    /\ H!Atomic!Next <=> HP!Atomic!Next
<1>1. H!Atomic!Init <=> HP!Atomic!Init
  BY SameIndex DEF H!Atomic!Init, HP!Atomic!Init
<1>2. H!Atomic!vars = HP!Atomic!vars
  BY SameIndex DEF H!Atomic!vars, HP!Atomic!vars
<1>3. H!Atomic!Next <=> HP!Atomic!Next
  BY SameIndex, SameIndexNext, SameSets
  DEF H!Atomic!Next, HP!Atomic!Next, H!Atomic!Forget, HP!Atomic!Forget,
      H!Atomic!Ask, HP!Atomic!Ask, H!Atomic!Answer, HP!Atomic!Answer,
      H!Atomic!With, HP!Atomic!With, H!Atomic!Without, HP!Atomic!Without,
      H!Atomic!RegisterJob, HP!Atomic!RegisterJob, H!Atomic!RemoveJob, HP!Atomic!RemoveJob,
      H!Atomic!UpdateJob, HP!Atomic!UpdateJob, H!Atomic!RegisterPfs, HP!Atomic!RegisterPfs,
      H!Atomic!UpdatePfs, HP!Atomic!UpdatePfs, H!Atomic!RemovePfs, HP!Atomic!RemovePfs,
      H!Atomic!FindJob, HP!Atomic!FindJob, H!Atomic!Query, HP!Atomic!Query,
      H!Atomic!Missing, HP!Atomic!Missing
<1> QED
  BY <1>1, <1>2, <1>3

----------------------------------------------------------------------------
(* The memory of the server.                                               *)

ServerInv == HP!IInv /\ HP!AtomicInv

\* An empty memory is one in which the managers begin.
LEMMA MemoryInit == HP!Init => ServerInv /\ HP!Atomic!Init
<1>1. None \notin HP!Requests
  BY NoneIsNoRequest, SameSets
<1>2. HP!Init => HP!IInv
  BY <1>1, HP!InitIInv, ManagersAssumption
<1>3. HP!Init => HP!AtomicInv
  BY <1>1, HP!InitAtomicInv, ManagersAssumption
<1>4. HP!Init => HP!Atomic!Init
  BY <1>1, HP!InitAtomic, ManagersAssumption
<1> QED
  BY <1>2, <1>3, <1>4 DEF ServerInv

\* The memory is as it was at the start when the process that served is gone.
LEMMA MemoryForget ==
    ASSUME Forget
    PROVE  ServerInv' /\ H!Atomic!Next
<1>1. HP!Init'
  BY SameSets DEF Forget, HP!Init
<1>2. (HP!Init => ServerInv /\ HP!Atomic!Init)'
  BY MemoryInit, PTL
<1>3. HP!Atomic!Forget
  BY <1>1, <1>2 DEF HP!Atomic!Init, HP!Atomic!Forget
<1> QED
  BY <1>1, <1>2, <1>3, SameAtomic DEF HP!Atomic!Next

\* Otherwise the memory takes the steps of the managers.
LEMMA MemoryServes ==
    ASSUME ServerInv, [HP!Next]_(HP!vars)
    PROVE  ServerInv' /\ [H!Atomic!Next]_(H!Atomic!vars)
<1>1. None \notin HP!Requests
  BY NoneIsNoRequest, SameSets
<1>2. HP!IInv'
  BY <1>1, HP!NextIInv, ManagersAssumption DEF ServerInv
<1>3. HP!AtomicInv' /\ [HP!Atomic!Next]_(HP!Atomic!vars)
  BY <1>1, <1>2, HP!NextAtomic, ManagersAssumption DEF ServerInv
<1>4. H!Atomic!vars' = H!Atomic!vars <=> HP!Atomic!vars' = HP!Atomic!vars
  BY SameIndex, SameIndexNext DEF H!Atomic!vars, HP!Atomic!vars
<1> QED
  BY <1>2, <1>3, <1>4, SameAtomic DEF ServerInv

\* A step that leaves the memory alone is none of the managers.
LEMMA MemoryStays == UNCHANGED memory => UNCHANGED HP!vars
BY DEF memory, HP!vars, HP!tables, HP!locks, HP!locals

\* Every step of the daemons forgets the memory, leaves it, or serves.
LEMMA MemorySteps ==
    ASSUME [Next]_vars
    PROVE  Forget \/ [HP!Next]_(HP!vars)
<1>1. CASE UNCHANGED vars
  BY <1>1, MemoryStays DEF vars
<1>2. ASSUME NEW p \in Procs, Main(p)
      PROVE  Forget \/ UNCHANGED memory
  BY <1>2
  DEF Main, Construct, Fork, StayInForeground, Detach, ParentShutdown, ParentExit,
      OpenPidfile, LockPidfile, WritePidfile, ClosePidfile, InstallSignalHandlers,
      Teardown, RemovePidfile, End
<1>3. ASSUME NEW p \in Procs, Listener(p) \/ SchedulerEnds(p) \/ Environment(p)
      PROVE  Forget \/ UNCHANGED memory
  BY <1>3
  DEF Listener, HandleSignal, HandleLateSignal, JoinScheduler, Finalize, SchedulerEnds,
      Environment, Signal, Fails, Kill, End
<1>4. ASSUME NEW h \in Handlers, Handle(h)
      PROVE  HP!Next
  BY <1>4, SameWork DEF Handle, HP!Next
<1>5. ASSUME NEW h \in Handlers, NEW r \in H!Requests, Receive(h, r)
      PROVE  HP!Next
  BY <1>5, SameStart, SameSets DEF Receive, HP!Next
<1> QED
  BY <1>1, <1>2, <1>3, <1>4, <1>5, MemoryStays DEF Next

\* Every step of every process keeps the invariant of the managers, and is a
\* step of AtomicManagers or none.
LEMMA MemoryNext ==
    ServerInv /\ [Next]_vars => ServerInv' /\ [H!Atomic!Next]_(H!Atomic!vars)
BY MemorySteps, MemoryForget, MemoryServes

\* Requests under way when their daemon is told to stop, or killed, do not
\* disturb what query reads out of the Slurm index.
THEOREM DaemonNestedFindSafe == Spec => []NestedFindSucceeds
<1>1. Init => ServerInv
  BY MemoryInit, SameStates DEF Init
<1>2. ServerInv => NestedFindSucceeds
  BY SameStates DEF ServerInv, HP!IInv, NestedFindSucceeds
<1> QED
  BY <1>1, <1>2, MemoryNext, PTL DEF Spec

\* A request inside a daemon that waits for a mutex waits for requests that go
\* on, so that finalize(), which waits for all of them, is not in vain.
THEOREM DaemonNeverDeadlocks == Spec => []NoDeadlock
<1>1. Init => ServerInv
  BY MemoryInit, SameStates DEF Init
<1>2. H!NoDeadlock <=> HP!NoDeadlock
  BY DEF H!NoDeadlock, HP!NoDeadlock, H!Blocked, HP!Blocked, H!Holders, HP!Holders,
      H!MayRead, HP!MayRead, H!MayWrite, HP!MayWrite, H!Op, HP!Op,
      H!MutexOf, HP!MutexOf, H!JobOps, HP!JobOps, H!Readers, HP!Readers
<1>3. HP!IInv => HP!NoDeadlock
  <2>1. None \notin HP!Requests
    BY NoneIsNoRequest, SameSets
  <2> QED
    BY <2>1, HP!IInvNoDeadlock, ManagersAssumption
<1>4. ServerInv => NoDeadlock
  BY <1>2, <1>3 DEF ServerInv, NoDeadlock
<1> QED
  BY <1>1, <1>4, MemoryNext, PTL DEF Spec

\* The managers do what AtomicManagers promises until their daemon ends, with
\* requests in the middle of them or without.
THEOREM DaemonImplementsAtomic == Spec => ImplementsAtomic
<1>1. Init => ServerInv
  BY MemoryInit, SameStates DEF Init
<1>2. Init => H!Atomic!Init
  BY MemoryInit, SameStates, SameAtomic DEF Init
<1> QED
  BY <1>1, <1>2, MemoryNext, PTL
  DEF Spec, ImplementsAtomic, H!ImplementsAtomic, H!Atomic!Spec

----------------------------------------------------------------------------
(* Types of the threads and of the pidfile.                                *)

ThreadsOK ==
    /\ mode \in [Programs -> Modes]
    /\ orphan \subseteq Programs
    /\ pc \in [Procs -> Steps]
    /\ sched \in [Procs -> {"none", "running", "ended", "lost"}]
    /\ shutting_down \in [Procs -> BOOLEAN]
    /\ listener \in [Procs -> {"off", "waiting", "shutdown", "joined"}]
    /\ pending \subseteq Procs
    /\ finalized \subseteq Procs
FileOK ==
    /\ pidfile \in Seq(Nat) \cup {None}
    /\ lock \in Procs \cup {None}

\* What write_pidfile() makes of a file: the new digits, and those of the old
\* ones that they do not cover.
LEMMA OverwriteIs ==
    ASSUME NEW old \in Seq(Nat), NEW new \in Seq(Nat)
    PROVE  /\ Overwrite(old, new) \in Seq(Nat)
           /\ Len(old) <= Len(new) => Overwrite(old, new) = new
<1>1. SubSeq(old, Len(new) + 1, Len(old)) \in Seq(Nat)
  BY LenProperties, SubSeqProperties
<1>2. Len(old) <= Len(new) => SubSeq(old, Len(new) + 1, Len(old)) = <<>>
  BY LenProperties, SubSeqEmpty
<1>3. new \o <<>> = new
  BY ConcatEmptySeq
<1> QED
  BY <1>1, <1>2, <1>3, ConcatProperties DEF Overwrite

\* What a writer of the pidfile leaves of a longer pid is digits again.
LEMMA PartIs ==
    ASSUME NEW s \in Seq(Nat), NEW n \in 0 .. Len(s) - 1
    PROVE  SubSeq(s, 1, n) \in Seq(Nat)
<1>1. Len(s) \in Nat /\ \A i \in 1 .. n : s[i] \in Nat
  BY LenProperties
<1> QED
  BY <1>1, SubSeqProperties


\* A process is a program with its part in it; its pid is digits.
LEMMA ProcIs ==
    ASSUME NEW p \in Procs
    PROVE  /\ p = <<p[1], p[2]>> /\ p[1] \in Programs /\ p[2] \in {"main", "child"}
           /\ Child(p) = <<p[1], "child">> /\ Child(p) \in Procs
           /\ PidString[p] \in Seq(Nat)
BY DaemonAssumption DEF Child, Procs

\* A listener works for a process that serves.
ListenersFit == \A p \in Procs : listener[p] # "off" => pc[p] \in {"serving", "teardown"}

\* A child is there once its parent has forked, and the parent stops then.
Forked ==
    \A d \in Programs :
        /\ pc[<<d, "child">>] \notin {"new", "run"}
        /\ pc[<<d, "child">>] # "none" =>
              pc[<<d, "main">>] \in {"parent", "parent_join", "exited", "killed"}

\* A process that is about to fork is not a child.
LEMMA ForkerIsMain ==
    ASSUME Forked, NEW p \in Procs, pc[p] = "run"
    PROVE  p[2] = "main" /\ p[1] \in Programs /\ pc[<<p[1], "child">>] = "none"
<1>1. p = <<p[1], p[2]>> /\ p[1] \in Programs /\ p[2] \in {"main", "child"}
  BY ProcIs
<1>2. p # <<p[1], "child">>
  BY <1>1 DEF Forked
<1>3. p[2] = "main" /\ p = <<p[1], "main">>
  BY <1>1, <1>2
<1> QED
  BY <1>1, <1>3 DEF Forked

\* A process that ends, wherever it was: its threads and its lock go with it.
LEMMA EndTypes ==
    ASSUME ThreadsOK, ListenersFit, NEW p \in Procs, NEW how \in Over, End(p, how)
    PROVE  /\ ThreadsOK' /\ ListenersFit' /\ UNCHANGED mode
           /\ pc' = [pc EXCEPT ![p] = how] /\ lock' \in {lock, None}
<1>1. /\ pc' = [pc EXCEPT ![p] = how] /\ listener' = [listener EXCEPT ![p] = "off"]
      /\ UNCHANGED <<mode, orphan, shutting_down, finalized>>
      /\ sched' = [sched EXCEPT ![p] = "none"] /\ pending' = pending \ {p}
      /\ lock' \in {lock, None}
  BY DEF End, Goto, start
<1>2. ThreadsOK'
  BY <1>1 DEF ThreadsOK, Steps
<1>3. ListenersFit'
  BY <1>1 DEF ThreadsOK, ListenersFit
<1> QED
  BY <1>1, <1>2, <1>3

\* How a step of a process moves its main thread, and what it does to the
\* pidfile meanwhile.
Stays == UNCHANGED <<pc, pidfile>>
Forks(p) == /\ pc[p] = "run"
            /\ pc' = [pc EXCEPT ![p] = "parent", ![Child(p)] = "detach"]
            /\ UNCHANGED pidfile
Moves(p, from, to) == pc[p] \in from /\ pc' = [pc EXCEPT ![p] = to]
Starts(p) ==
    /\ \/ Moves(p, {"new"}, "run")
       \/ Moves(p, {"run", "detach"}, AfterDaemonize(p[1]))
       \/ Moves(p, {"parent"}, "parent_join")
       \/ Moves(p, {"lock"}, "write")
       \/ Moves(p, {"close"}, "install") \/ Moves(p, {"install"}, "serving")
       \/ Moves(p, {"serving"}, "teardown") \/ Moves(p, {"teardown"}, "remove")
    /\ UNCHANGED pidfile
Opens(p) == /\ Moves(p, {"open"}, "lock")
            /\ pidfile' = IF pidfile = None THEN <<>> ELSE pidfile
Writes(p) == /\ Moves(p, {"write"}, "close")
             /\ pidfile' = IF pidfile = None THEN None
                           ELSE Overwrite(pidfile, PidString[p])
Ends(p) ==
    \/ /\ \/ Moves(p, {"new", "run", "detach", "open", "lock"}, "failed")
          \/ Moves(p, {"parent_join"}, "exited")
          \/ Moves(p, Steps \ Over, "killed")
       /\ UNCHANGED pidfile
    \/ Moves(p, {"write"}, "failed") /\ pidfile' \in Seq(Nat)
    \/ Moves(p, {"remove"}, "stopped") /\ pidfile' \in {pidfile, None}
ProcessStep(p) == Stays \/ Forks(p) \/ Starts(p) \/ Opens(p) \/ Writes(p) \/ Ends(p)

TypedStep(p) == ThreadsOK' /\ ListenersFit' /\ FileOK' /\ UNCHANGED mode /\ ProcessStep(p)

\* A step that ends a process.
LEMMA EndStep ==
    ASSUME ThreadsOK, ListenersFit, FileOK, NEW p \in Procs, NEW how \in Over,
           End(p, how), pidfile' \in Seq(Nat) \cup {None}, pc' = [pc EXCEPT ![p] = how] => Ends(p)
    PROVE  TypedStep(p)
<1>1. /\ ThreadsOK' /\ ListenersFit' /\ UNCHANGED mode
      /\ pc' = [pc EXCEPT ![p] = how] /\ lock' \in {lock, None}
  BY EndTypes
<1> QED
  BY <1>1 DEF TypedStep, ProcessStep, FileOK

\* The constructor starts a process, with a scheduler thread in scord.
LEMMA ConstructStep ==
    ASSUME ThreadsOK, ListenersFit, FileOK, NEW p \in Procs, Construct(p)
    PROVE  TypedStep(p)
<1>1. CASE \E how \in Over : End(p, how) /\ how = "failed" /\ UNCHANGED pidfile
  BY <1>1, EndStep DEF Construct, At, Ends, Moves, FileOK
<1>2. CASE Goto(p, "run") /\ UNCHANGED <<mode, orphan, pidfile, lock, shutting_down, listener, pending, finalized>>
           /\ sched' = [sched EXCEPT ![p] = IF IsScord(p[1]) THEN "running" ELSE "none"]
  <2>1. ThreadsOK' /\ ListenersFit'
    BY <1>2 DEF Construct, At, Goto, ThreadsOK, ListenersFit, Steps
  <2> QED
    BY <1>2, <2>1 DEF Construct, At, Goto, TypedStep, ProcessStep, Starts, Moves, FileOK
<1> QED
  BY <1>1, <1>2 DEF Construct, start, file, Over

\* The steps of a main thread that goes on.
LEMMA StartingSteps ==
    ASSUME ThreadsOK, ListenersFit, FileOK, NEW p \in Procs,
           \/ StayInForeground(p) \/ Detach(p) \/ ClosePidfile(p)
           \/ InstallSignalHandlers(p) \/ Teardown(p) \/ ParentShutdown(p)
    PROVE  TypedStep(p)
<1>1. /\ UNCHANGED <<mode, orphan, pidfile, sched, pending, finalized>>
      /\ lock' \in {lock, None}
      /\ shutting_down' \in {shutting_down, [shutting_down EXCEPT ![p] = TRUE]}
  BY DEF StayInForeground, Detach, ClosePidfile, InstallSignalHandlers, Teardown,
         ParentShutdown, start, file, threads
<1>2. Starts(p)
  BY <1>1 DEF StayInForeground, Detach, ClosePidfile, InstallSignalHandlers, Teardown,
              ParentShutdown, Starts, Moves, At, Goto
<1>3. ThreadsOK'
  BY <1>1 DEF StayInForeground, Detach, ClosePidfile, InstallSignalHandlers, Teardown,
              ParentShutdown, AfterDaemonize, ThreadsOK, Goto, Steps, threads
<1>4. ListenersFit'
  BY <1>1 DEF StayInForeground, Detach, ClosePidfile, InstallSignalHandlers, Teardown,
              ParentShutdown, ThreadsOK, ListenersFit, At, Goto, threads
<1> QED
  BY <1>1, <1>2, <1>3, <1>4 DEF TypedStep, ProcessStep, FileOK

\* A fork leaves the parent with nothing to do but exit.
LEMMA ForkStep ==
    ASSUME ThreadsOK, ListenersFit, FileOK, Forked, NEW p \in Procs, Fork(p)
    PROVE  TypedStep(p)
<1>1. /\ Child(p) \in Procs /\ Child(p) # p /\ pc[p] = "run" /\ pc[Child(p)] = "none"
  <2>1. Child(p) \in Procs /\ Child(p) = <<p[1], "child">> /\ pc[p] = "run"
    BY ProcIs DEF Fork, At
  <2> QED
    BY <2>1, ForkerIsMain, ProcIs
<1>2. ThreadsOK'
  BY <1>1 DEF Fork, ThreadsOK, Steps, start
<1>3. ListenersFit'
  BY <1>1 DEF Fork, ThreadsOK, ListenersFit
<1> QED
  BY <1>1, <1>2, <1>3 DEF Fork, At, TypedStep, ProcessStep, Forks, FileOK, start, file

\* What write_pidfile() does to the file, or it ends the process.
LEMMA PidfileStep ==
    ASSUME ThreadsOK, ListenersFit, FileOK, NEW p \in Procs,
           OpenPidfile(p) \/ WritePidfile(p) \/ LockPidfile(p)
    PROVE  TypedStep(p)
<1>1. PidString[p] \in Seq(Nat) /\ <<>> \in Seq(Nat) /\ p # None
  BY ProcIs, EmptySeq, DaemonAssumption
<1>2. CASE End(p, "failed") /\ UNCHANGED pidfile /\ At(p, "lock")
  BY <1>2, EndStep DEF At, Over, Ends, Moves, FileOK
<1>3. CASE /\ \/ (Opens(p) \/ Writes(p)) /\ lock' = lock
              \/ Starts(p) /\ Moves(p, {"lock"}, "write") /\ lock' = p
           /\ UNCHANGED <<mode, orphan, threads>>
  <2>1. ThreadsOK' /\ ListenersFit'
    BY <1>3 DEF Opens, Writes, Moves, ThreadsOK, ListenersFit, Steps, threads
  <2>2. pidfile' \in Seq(Nat) \cup {None}
    BY <1>1, <1>3, OverwriteIs DEF Opens, Writes, Starts, FileOK
  <2> QED
    BY <1>3, <2>1, <2>2 DEF TypedStep, ProcessStep, FileOK
<1> QED
  BY <1>2, <1>3
  DEF OpenPidfile, WritePidfile, LockPidfile, At, Goto, Opens, Writes, Starts, Moves, start

\* The steps of the other threads leave the main thread where it is.
LEMMA OtherThreadsStep ==
    ASSUME ThreadsOK, ListenersFit, FileOK, NEW p \in Procs,
           UNCHANGED <<memory, start, pc, file>>,
           \/ sched[p] = "running" /\ sched' = [sched EXCEPT ![p] = "ended"]
           \/ UNCHANGED sched,
           shutting_down' \in {shutting_down, [shutting_down EXCEPT ![p] = TRUE]},
           \/ UNCHANGED listener
           \/ /\ listener[p] # "off"
              /\ \/ listener' = [listener EXCEPT ![p] = "waiting"]
                 \/ listener' = [listener EXCEPT ![p] = "shutdown"]
                 \/ listener' = [listener EXCEPT ![p] = "joined"],
           pending' \subseteq pending \cup {p}, finalized' \subseteq finalized \cup {p}
    PROVE  TypedStep(p)
<1>1. ThreadsOK'
  BY DEF ThreadsOK, start
<1>2. ListenersFit'
  BY DEF ThreadsOK, ListenersFit
<1> QED
  BY <1>1, <1>2 DEF TypedStep, ProcessStep, Stays, FileOK, start, file

\* The shutdown, in the listener's thread, moves no main thread.
LEMMA ListenerStep ==
    ASSUME ThreadsOK, ListenersFit, FileOK, NEW p \in Procs,
           HandleSignal(p) \/ JoinScheduler(p) \/ Finalize(p) \/ SchedulerEnds(p)
    PROVE  TypedStep(p)
<1>1. CASE HandleSignal(p)
  BY <1>1, OtherThreadsStep DEF HandleSignal
<1>2. CASE JoinScheduler(p)
  BY <1>2, OtherThreadsStep DEF JoinScheduler
<1>3. CASE Finalize(p)
  BY <1>3, OtherThreadsStep DEF Finalize
<1>4. CASE SchedulerEnds(p)
  BY <1>4, OtherThreadsStep DEF SchedulerEnds
<1> QED
  BY <1>1, <1>2, <1>3, <1>4

\* A signal ends a process that does not listen, or may end one that has
\* finalized its engine.
LEMMA SignalStep ==
    ASSUME ThreadsOK, ListenersFit, FileOK, NEW p \in Procs,
           Signal(p) \/ HandleLateSignal(p) \/ Kill(p)
    PROVE  TypedStep(p)
<1>1. pc[p] \in Steps \ Over
  BY DEF Signal, HandleLateSignal, Kill, Alive, ThreadsOK, ListenersFit, Steps, Over
<1>2. CASE End(p, "killed") /\ UNCHANGED pidfile
  BY <1>1, <1>2, EndStep DEF Over, Ends, Moves, FileOK
<1>3. CASE pending' \in {pending \cup {p}, pending \ {p}}
           /\ UNCHANGED <<memory, start, pc, file, sched, shutting_down, listener, finalized>>
  BY <1>3, OtherThreadsStep
<1> QED
  BY <1>2, <1>3 DEF Signal, HandleLateSignal, Kill

\* Steps after which the process is over.
LEMMA LastStep ==
    ASSUME ThreadsOK, ListenersFit, FileOK, NEW p \in Procs,
           ParentExit(p) \/ RemovePidfile(p) \/ Fails(p)
    PROVE  TypedStep(p)
<1>1. CASE ParentExit(p)
  BY <1>1, EndStep DEF ParentExit, At, Over, Ends, Moves, FileOK
<1>2. CASE RemovePidfile(p)
  BY <1>2, EndStep DEF RemovePidfile, At, Over, Ends, Moves, FileOK
<1>3. CASE Fails(p)
  <2>1. CASE pc[p] \in {"run", "detach", "open"} /\ UNCHANGED pidfile
    BY <1>3, <2>1, EndStep DEF Fails, Over, Ends, Moves, FileOK
  <2>2. ASSUME pc[p] = "write", pidfile # None, NEW n \in 0 .. Len(PidString[p]) - 1,
               pidfile' = Overwrite(pidfile, SubSeq(PidString[p], 1, n))
        PROVE  TypedStep(p)
    <3>1. pidfile' \in Seq(Nat)
      BY <2>2, ProcIs, PartIs, OverwriteIs DEF FileOK
    <3> QED
      BY <1>3, <2>2, <3>1, EndStep DEF Fails, Over, Ends, Moves
  <2> QED
    BY <1>3, <2>1, <2>2 DEF Fails
<1> QED
  BY <1>1, <1>2, <1>3

\* Every step but those of the server's handlers is one of a process.
LEMMA ProcessSteps ==
    ASSUME ThreadsOK, ListenersFit, FileOK, Forked, [Next]_vars
    PROVE  \/ ThreadsOK' /\ ListenersFit' /\ FileOK' /\ UNCHANGED mode /\ Stays
           \/ \E p \in Procs : TypedStep(p)
<1>1. CASE UNCHANGED vars
  BY <1>1 DEF vars, ThreadsOK, ListenersFit, FileOK, Stays, start, threads, file
<1>2. ASSUME NEW p \in Procs, Main(p)
      PROVE  TypedStep(p)
  BY <1>2, ConstructStep, ForkStep, StartingSteps, PidfileStep, LastStep DEF Main
<1>3. ASSUME NEW p \in Procs, Listener(p) \/ SchedulerEnds(p) \/ Environment(p)
      PROVE  TypedStep(p)
  BY <1>3, ListenerStep, SignalStep, LastStep DEF Listener, Environment
<1>4. ASSUME NEW h \in Handlers, Handle(h) \/ \E r \in H!Requests : Receive(h, r)
      PROVE  ThreadsOK' /\ ListenersFit' /\ FileOK' /\ UNCHANGED mode /\ Stays
  BY <1>4 DEF Handle, Receive, ThreadsOK, ListenersFit, FileOK, Stays, start, threads, file
<1> QED
  BY <1>1, <1>2, <1>3, <1>4 DEF Next

----------------------------------------------------------------------------
(* The scheduler threads.                                                  *)

\* A process that finalizes has joined its scheduler thread, a child has none
\* to join, and the main thread stops only once the engine is finalized.
SchedulerFits(p) ==
    /\ listener[p] = "joined" \/ p \in finalized => sched[p] \in {"none", "ended"}
    /\ p \in finalized => pc[p] \notin {"none", "new"}
    /\ pc[p] \in {"teardown", "remove", "stopped"} => p \in finalized
    /\ p[2] = "child" => pc[p] \notin {"teardown", "remove", "stopped"}
    /\ p[2] = "child" /\ Alive(p) => sched[p] = "lost"

\* A process that ends while it does not stop as teardown() lets it.
LEMMA SchedulerAtEnd ==
    ASSUME ThreadsOK, NEW p \in Procs, SchedulerFits(p), NEW how \in Over, End(p, how),
           how \in {"none", "new"} => FALSE, how = "stopped" => pc[p] = "remove"
    PROVE  /\ SchedulerFits(p)'
           /\ \A q \in Procs \ {p} : SchedulerFits(q) => SchedulerFits(q)'
<1>1. /\ pc' = [pc EXCEPT ![p] = how] /\ sched' = [sched EXCEPT ![p] = "none"]
      /\ listener' = [listener EXCEPT ![p] = "off"] /\ finalized' = finalized
  BY DEF End, Goto
<1> QED
  BY <1>1 DEF ThreadsOK, SchedulerFits, Alive, Over

\* The steps of a main thread.
LEMMA SchedulerAtMain ==
    ASSUME ThreadsOK, ListenersFit, Forked, NEW p \in Procs, Main(p),
           \A q \in Procs : SchedulerFits(q)
    PROVE  \A q \in Procs : SchedulerFits(q)'
<1>1. CASE \E how \in {"failed", "exited", "stopped"} :
              End(p, how) /\ (how = "stopped" => pc[p] = "remove")
  BY <1>1, SchedulerAtEnd DEF Over
<1>2. CASE Construct(p) /\ Goto(p, "run")
           /\ sched' = [sched EXCEPT ![p] = IF IsScord(p[1]) THEN "running" ELSE "none"]
           /\ UNCHANGED <<listener, finalized>>
  <2>1. pc[p] = "new" /\ p \notin finalized /\ listener[p] = "off" /\ p[2] # "child"
    <3>1. pc[p] = "new"
      BY <1>2 DEF Construct, At
    <3>2. p = <<p[1], p[2]>> /\ p[1] \in Programs
      BY ProcIs
    <3>3. p[2] # "child"
      BY <3>1, <3>2 DEF Forked
    <3> QED
      BY <3>1, <3>3 DEF SchedulerFits, ListenersFit
  <2> QED
    BY <1>2, <2>1 DEF Goto, ThreadsOK, SchedulerFits, Alive
<1>3. CASE Fork(p)
  <2>1. /\ pc[p] = "run" /\ p[2] = "main" /\ pc[Child(p)] = "none"
        /\ Child(p) \in Procs /\ Child(p) # p
    <3>1. pc[p] = "run" /\ Child(p) = <<p[1], "child">> /\ Child(p) \in Procs
      BY <1>3, ProcIs DEF Fork, At
    <3> QED
      BY <3>1, ForkerIsMain, ProcIs
  <2>2. /\ pc' = [pc EXCEPT ![p] = "parent", ![Child(p)] = "detach"]
        /\ sched' = [sched EXCEPT ![Child(p)] = "lost"]
        /\ UNCHANGED <<listener, finalized>>
    BY <1>3 DEF Fork
  <2>3. listener[Child(p)] = "off" /\ Child(p) \notin finalized
    BY <2>1 DEF SchedulerFits, ListenersFit
  <2>4. SchedulerFits(p)' /\ SchedulerFits(Child(p))'
    BY <2>1, <2>2, <2>3 DEF ThreadsOK, SchedulerFits, Alive
  <2>5. ASSUME NEW q \in Procs, q # p, q # Child(p)
        PROVE  SchedulerFits(q)'
    BY <2>1, <2>2, <2>5 DEF ThreadsOK, SchedulerFits, Alive
  <2> QED
    BY <2>4, <2>5
<1>4. CASE \E from \in Steps \ {"teardown", "remove"}, to \in Steps \ Over :
              /\ pc[p] = from /\ from \notin Over /\ pc' = [pc EXCEPT ![p] = to]
              /\ to \notin {"teardown", "remove"}
              /\ listener' \in {listener, [listener EXCEPT ![p] = "waiting"]}
              /\ UNCHANGED <<sched, finalized>>
  BY <1>4 DEF ThreadsOK, SchedulerFits, Alive, Over
<1>5. CASE Teardown(p)
  <2>1. /\ p \in finalized /\ UNCHANGED <<sched, finalized>>
        /\ listener' \in {listener, [listener EXCEPT ![p] = "off"]}
        /\ \E to \in {"teardown", "remove"} : pc' = [pc EXCEPT ![p] = to]
        /\ pc[p] \in {"serving", "teardown"}
    BY <1>5 DEF Teardown, At, Goto, SchedulerFits
  <2>2. p[2] # "child"
    BY <2>1 DEF SchedulerFits, Alive, Over
  <2> QED
    BY <2>1, <2>2 DEF ThreadsOK, SchedulerFits, Alive
<1> QED
  BY <1>1, <1>2, <1>3, <1>4, <1>5
  DEF Main, Construct, StayInForeground, Detach, ParentShutdown, ParentExit, OpenPidfile,
      LockPidfile, WritePidfile, ClosePidfile, InstallSignalHandlers, RemovePidfile,
      AfterDaemonize, At, Goto, Steps, Over, threads

\* The steps of the other threads of a process.
LEMMA SchedulerAside ==
    ASSUME ThreadsOK, ListenersFit, NEW p \in Procs,
           Listener(p) \/ SchedulerEnds(p) \/ Environment(p),
           \A q \in Procs : SchedulerFits(q)
    PROVE  \A q \in Procs : SchedulerFits(q)'
<1>1. CASE \E how \in {"failed", "killed"} : End(p, how)
  BY <1>1, SchedulerAtEnd DEF Over
<1>2. CASE JoinScheduler(p)
  BY <1>2 DEF JoinScheduler, ThreadsOK, SchedulerFits, Alive
<1>3. CASE Finalize(p)
  BY <1>3 DEF Finalize, ThreadsOK, ListenersFit, SchedulerFits, Alive
<1>4. CASE SchedulerEnds(p)
  BY <1>4 DEF SchedulerEnds, ThreadsOK, SchedulerFits, Alive
<1>5. CASE /\ UNCHANGED <<pc, sched, finalized>>
           /\ listener' \in {listener, [listener EXCEPT ![p] = "shutdown"]}
  BY <1>5 DEF ThreadsOK, SchedulerFits, Alive
<1> QED
  BY <1>1, <1>2, <1>3, <1>4, <1>5
  DEF Listener, HandleSignal, HandleLateSignal, Environment, Signal, Fails, Kill

\* Every step keeps the order in which scheduler, engine and main thread end.
LEMMA SchedulerNext ==
    ASSUME ThreadsOK, ListenersFit, Forked, [Next]_vars, \A q \in Procs : SchedulerFits(q)
    PROVE  \A q \in Procs : SchedulerFits(q)'
<1>1. CASE UNCHANGED <<pc, threads>>
  BY <1>1 DEF threads, SchedulerFits, Alive
<1> QED
  BY <1>1, SchedulerAtMain, SchedulerAside DEF Next, Handle, Receive, vars

----------------------------------------------------------------------------
(* The pidfile of a daemon that is alone.                                  *)

\* No other program has been started.
Lone(p) == \A q \in Procs : q[1] # p[1] => pc[q] \in {"none", "new"}
ShortStale(p) == \A s \in StalePids : s # None => Len(s) <= Len(PidString[p])

\* Until a process writes the pidfile, nothing but an earlier daemon has; when
\* it writes it, it covers what was there.
PidfileFits ==
    \A p \in Procs : HasPidfile(p[1]) /\ Lone(p) =>
        /\ pc[p] \in {"new", "run", "detach", "open"} => pidfile \in StalePids
        /\ pc[p] \in {"lock", "write"} /\ ShortStale(p) =>
              pidfile \in Seq(Nat) /\ Len(pidfile) <= Len(PidString[p])
        /\ /\ pc[p] \in {"close", "install", "serving", "teardown", "remove"}
           /\ ShortStale(p)
           => pidfile = PidString[p]

DaemonInv == ThreadsOK /\ ListenersFit /\ FileOK /\ Forked /\ PidfileFits

\* No process runs and no file is open to begin with.
LEMMA InitDaemonInv == Init => DaemonInv
<1> SUFFICES ASSUME Init PROVE DaemonInv
  OBVIOUS
<1>1. ThreadsOK
  BY DEF Init, ThreadsOK, Procs, Steps, Over
<1>2. pidfile \in StalePids \cup {None}
  BY DEF Init
<1>3. FileOK
  BY <1>2, DaemonAssumption DEF Init, FileOK
<1>4. ListenersFit /\ Forked
  BY DEF Init, ListenersFit, Forked, Procs
<1>5. PidfileFits
  BY ProcIs DEF Init, PidfileFits
<1> QED
  BY <1>1, <1>3, <1>4, <1>5 DEF DaemonInv

\* A child runs only once its parent is done with the pidfile.
LEMMA ForkedStays ==
    ASSUME ThreadsOK, Forked, NEW p \in Procs, ProcessStep(p)
    PROVE  Forked'
<1> SUFFICES ASSUME NEW d \in Programs
             PROVE  /\ pc'[<<d, "child">>] \notin {"new", "run"}
                    /\ pc'[<<d, "child">>] # "none" =>
                          pc'[<<d, "main">>] \in {"parent", "parent_join", "exited", "killed"}
  BY DEF Forked
<1> DEFINE m == <<d, "main">>
           c == <<d, "child">>
<1>1. /\ m \in Procs /\ c \in Procs /\ m # c
      /\ pc[c] \notin {"new", "run"}
      /\ pc[c] # "none" => pc[m] \in {"parent", "parent_join", "exited", "killed"}
  BY DEF Procs, Forked
<1>2. p = <<p[1], p[2]>> /\ p[2] \in {"main", "child"} /\ Child(p) = <<p[1], "child">>
  BY ProcIs
<1> HIDE DEF m, c
<1>3. CASE Stays
  BY <1>1, <1>3 DEF Stays, m, c
<1>4. CASE Forks(p)
  <2>1. p[2] = "main"
    BY <1>2, <1>4, ForkerIsMain DEF Forks
  <2>2. /\ pc'[Child(p)] = "detach" /\ pc'[p] = "parent"
        /\ \A q \in Procs \ {p, Child(p)} : pc'[q] = pc[q]
    <3>1. Child(p) # p /\ Child(p) \in Procs
      BY <1>2, <2>1, ProcIs
    <3> QED
      BY <1>4, <3>1 DEF Forks, ThreadsOK
  <2>3. CASE d = p[1]
    BY <1>2, <2>1, <2>2, <2>3 DEF m, c
  <2>4. CASE d # p[1]
    BY <1>1, <1>2, <2>1, <2>2, <2>4 DEF m, c
  <2> QED
    BY <2>3, <2>4
<1>5. CASE Starts(p) \/ Opens(p) \/ Writes(p) \/ Ends(p)
  <2>1. PICK from \in Steps, to \in Steps :
           /\ pc[p] = from /\ pc' = [pc EXCEPT ![p] = to] /\ from # "none" /\ to # "new"
           /\ to = "run" => from = "new"
           /\ from \in {"parent", "parent_join", "exited", "killed"} =>
                 to \in {"parent_join", "exited", "killed"}
    BY <1>5 DEF Starts, Opens, Writes, Ends, Moves, ThreadsOK, Steps, Over, AfterDaemonize
  <2>2. pc'[p] = to /\ \A q \in Procs \ {p} : pc'[q] = pc[q]
    BY <2>1 DEF ThreadsOK
  <2> QED
    BY <1>1, <2>1, <2>2 DEF m, c
<1> QED
  BY <1>3, <1>4, <1>5 DEF ProcessStep

\* The lone process's pid stays in the file: whoever could write to it is
\* its parent, which is done, or itself.
LEMMA PidfileStays ==
    ASSUME ThreadsOK, FileOK, Forked, PidfileFits, NEW p \in Procs, ProcessStep(p),
           UNCHANGED mode
    PROVE  PidfileFits'
<1> SUFFICES ASSUME NEW q \in Procs, HasPidfile(q[1]), Lone(q)'
             PROVE  /\ pc'[q] \in {"new", "run", "detach", "open"} => pidfile' \in StalePids
                    /\ pc'[q] \in {"lock", "write"} /\ ShortStale(q) =>
                          pidfile' \in Seq(Nat) /\ Len(pidfile') <= Len(PidString[q])
                    /\ /\ pc'[q] \in {"close", "install", "serving", "teardown", "remove"}
                       /\ ShortStale(q)
                       => pidfile' = PidString[q]
  BY DEF PidfileFits, HasPidfile, ShortStale
<1>1. /\ p = <<p[1], p[2]>> /\ p[2] \in {"main", "child"} /\ Child(p) = <<p[1], "child">>
      /\ q = <<q[1], q[2]>> /\ q[2] \in {"main", "child"}
      /\ Child(p) \in Procs /\ PidString[q] \in Seq(Nat)
  BY ProcIs
<1>2. CASE Stays
  BY <1>2 DEF Stays, PidfileFits, Lone
<1>3. CASE Forks(p)
  <2>1. /\ pc[p] = "run" /\ pc'[Child(p)] = "detach" /\ pc'[p] = "parent"
        /\ p[2] = "main" /\ pidfile' = pidfile
        /\ \A r \in Procs \ {p, Child(p)} : pc'[r] = pc[r]
    <3>1. p[2] = "main"
      BY <1>3, ForkerIsMain DEF Forks
    <3>2. Child(p) # p /\ Child(p) \in Procs
      BY <1>1, <3>1
    <3>3. pc[p] = "run" /\ pidfile' = pidfile /\ pc \in [Procs -> Steps]
      BY <1>3 DEF Forks, ThreadsOK
    <3>4. pc' = [pc EXCEPT ![p] = "parent", ![Child(p)] = "detach"]
      BY <1>3 DEF Forks
    <3> QED
      BY <3>1, <3>2, <3>3, <3>4
  <2>2. p[1] = q[1]
    BY <1>1, <2>1 DEF Lone
  <2>3. Lone(p)
    BY <1>1, <2>1, <2>2 DEF Lone
  <2>4. pidfile \in StalePids
    BY <2>1, <2>2, <2>3 DEF PidfileFits
  <2>5. q = p \/ q = Child(p)
    BY <1>1, <2>1, <2>2
  <2> QED
    BY <2>1, <2>4, <2>5
<1>4. CASE Starts(p) \/ Opens(p) \/ Writes(p) \/ Ends(p)
  <2>1. PICK from \in Steps, to \in Steps :
           /\ pc[p] = from /\ pc' = [pc EXCEPT ![p] = to] /\ from # "none"
           /\ to \notin {"none", "new"}
    BY <1>4 DEF Starts, Opens, Writes, Ends, Moves, ThreadsOK, Steps, Over, AfterDaemonize
  <2>2. pc'[p] = to /\ \A r \in Procs \ {p} : pc'[r] = pc[r]
    BY <2>1 DEF ThreadsOK
  <2>3. p[1] = q[1]
    BY <2>1, <2>2 DEF Lone
  <2>4. Lone(q)
    BY <2>2, <2>3 DEF Lone
  <2>5. CASE q # p
    <3>1. CASE p[2] = "main"
      <4>1. q = Child(p)
        BY <1>1, <2>3, <2>5, <3>1
      <4>2. pc[q] # "none" => pc[p] \in {"parent", "parent_join", "exited", "killed"}
        BY <1>1, <3>1, <4>1, ProcIs DEF Forked
      <4>3. pc[p] \in {"parent", "parent_join", "exited", "killed"} => pidfile' = pidfile
        BY <1>4 DEF Starts, Opens, Writes, Ends, Moves
      <4> QED
        BY <2>2, <2>4, <2>5, <4>2, <4>3 DEF PidfileFits
    <3>2. CASE p[2] = "child"
      <4>1. q = <<p[1], "main">>
        BY <1>1, <2>3, <2>5, <3>2
      <4>2. pc[q] \in {"parent", "parent_join", "exited", "killed"}
        BY <1>1, <2>1, <3>2, <4>1, ProcIs DEF Forked
      <4> QED
        BY <2>2, <2>5, <4>2
    <3> QED
      BY <1>1, <3>1, <3>2
  <2>6. CASE q = p
    <3>1. CASE Starts(p)
      <4>1. AfterDaemonize(p[1]) = "open"
        BY <2>6 DEF AfterDaemonize
      <4>2. pidfile' = pidfile /\ \/ pc[q] = "new" /\ pc'[q] = "run"
                                  \/ pc[q] \in {"run", "detach"} /\ pc'[q] = "open"
                                  \/ pc[q] = "parent" /\ pc'[q] = "parent_join"
                                  \/ pc[q] = "lock" /\ pc'[q] = "write"
                                  \/ pc[q] = "close" /\ pc'[q] = "install"
                                  \/ pc[q] = "install" /\ pc'[q] = "serving"
                                  \/ pc[q] = "serving" /\ pc'[q] = "teardown"
                                  \/ pc[q] = "teardown" /\ pc'[q] = "remove"
        BY <2>6, <3>1, <4>1 DEF Starts, Moves, ThreadsOK
      <4> QED
        BY <2>4, <4>2 DEF PidfileFits
    <3>2. CASE Opens(p)
      <4>1. /\ pc[q] = "open" /\ pc'[q] = "lock"
            /\ pidfile' = IF pidfile = None THEN <<>> ELSE pidfile
        BY <2>6, <3>2 DEF Opens, Moves, ThreadsOK
      <4>2. pidfile \in StalePids /\ pidfile \in Seq(Nat) \cup {None}
        BY <2>4, <4>1 DEF PidfileFits, FileOK
      <4>3. <<>> \in Seq(Nat) /\ Len(<<>>) = 0 /\ Len(PidString[q]) \in Nat
        BY <1>1, EmptySeq, LenProperties
      <4> QED
        BY <4>1, <4>2, <4>3 DEF ShortStale
    <3>3. CASE Writes(p)
      <4>1. /\ pc[q] = "write" /\ pc'[q] = "close"
            /\ pidfile' = IF pidfile = None THEN None ELSE Overwrite(pidfile, PidString[q])
        BY <2>6, <3>3 DEF Writes, Moves, ThreadsOK
      <4>2. ShortStale(q) => pidfile \in Seq(Nat) /\ Len(pidfile) <= Len(PidString[q])
        BY <2>4, <4>1 DEF PidfileFits
      <4>3. ShortStale(q) => pidfile' = PidString[q]
        BY <1>1, <4>1, <4>2, OverwriteIs, DaemonAssumption
      <4> QED
        BY <4>1, <4>3
    <3>4. CASE Ends(p)
      <4>1. pc'[q] \in {"failed", "exited", "killed", "stopped"}
        BY <2>6, <3>4 DEF Ends, Moves, ThreadsOK
      <4> QED
        BY <4>1
    <3> QED
      BY <1>4, <3>1, <3>2, <3>3, <3>4
  <2> QED
    BY <2>5, <2>6
<1> QED
  BY <1>2, <1>3, <1>4 DEF ProcessStep

\* Every step of every process preserves the invariant.
LEMMA NextDaemonInv == DaemonInv /\ [Next]_vars => DaemonInv'
<1> SUFFICES ASSUME DaemonInv, [Next]_vars PROVE DaemonInv'
  OBVIOUS
<1> USE DEF DaemonInv
<1>1. CASE ThreadsOK' /\ ListenersFit' /\ FileOK' /\ UNCHANGED mode /\ Stays
  <2>1. Forked'
    BY <1>1 DEF Stays, Forked
  <2>2. PidfileFits'
    BY <1>1 DEF Stays, PidfileFits, HasPidfile, Lone, ShortStale
  <2> QED
    BY <1>1, <2>1, <2>2
<1>2. ASSUME NEW p \in Procs, TypedStep(p)
      PROVE  DaemonInv'
  BY <1>2, ForkedStays, PidfileStays DEF TypedStep
<1> QED
  BY <1>1, <1>2, ProcessSteps

\* The invariant: that of the managers in the server's memory, and what the
\* main threads that have forked or stopped leave of the pidfile.
THEOREM DaemonIInv == Spec => [](ServerInv /\ DaemonInv)
<1>1. Init => ServerInv
  BY MemoryInit, SameStates DEF Init
<1> QED
  BY <1>1, MemoryNext, InitDaemonInv, NextDaemonInv, PTL DEF Spec

\* The types of the memory, of the threads and of the pidfile, for any number
\* of programs and processes, of requests and of crashes.
THEOREM DaemonTypes == Spec => []TypeOK
<1>1. ServerInv /\ DaemonInv => TypeOK
  BY SameStates
  DEF ServerInv, HP!IInv, HP!LockInv, DaemonInv, ThreadsOK, FileOK, TypeOK
<1> QED
  BY <1>1, DaemonIInv, PTL

\* The pidfile of a daemon that was started alone names the process that
\* serves, not the parent that forked it, until it is removed.
THEOREM PidfileOfTheLone == Spec => []LoneDaemonPidfile
<1>1. DaemonInv => LoneDaemonPidfile
  BY DEF DaemonInv, PidfileFits, LoneDaemonPidfile, Lone, ShortStale
<1> QED
  BY <1>1, DaemonIInv, PTL

\* A process finalizes its engine only once its scheduler thread is over, and
\* a scord that forked, whose thread was not copied, never stops
\* (rpc_server.cpp:82 and :106).
THEOREM EngineIsLast == Spec => []EngineOutlivesScheduler
<1> DEFINE Fits == \A q \in Procs : SchedulerFits(q)
<1>1. Init => Fits
  BY DEF Init, SchedulerFits, Alive, Over
<1>2. Fits /\ DaemonInv /\ [Next]_vars => Fits'
  BY SchedulerNext DEF DaemonInv
<1>3. Fits => EngineOutlivesScheduler
  BY DEF SchedulerFits, EngineOutlivesScheduler
<1> HIDE DEF Fits
<1> QED
  BY <1>1, <1>2, <1>3, DaemonIInv, PTL DEF Spec
=============================================================================
