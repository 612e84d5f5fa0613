-------------------------- MODULE ClientPrograms ---------------------------
(***************************************************************************)
(* The C programs of examples/c, which are the test programs of the client  *)
(* library, run against a server that may refuse any request, or carry it   *)
(* out and lose the answer, while one allocation of the program may fail.    *)
(*                                                                           *)
(* A program is its statements and the statements after its label cleanup,   *)
(* over variables that hold pointers. The library is ClientTypes; a request  *)
(* is a wrapper of src/lib/c_wrapper.cpp: the objects it reads, what it does *)
(* on the server and the object it returns.                                  *)
(***************************************************************************)
EXTENDS ClientTypes

CONSTANTS
    Programs,       \* the names of the programs that are run
    Allocations,    \* the numbers of the allocation that may fail; 0: none does
    Size            \* the length of each of the programs' arrays, by variable

ASSUME SizesArePositive == \A v \in DOMAIN Size : Size[v] \in Nat \ {0}

VARIABLES
    program,    \* the program that runs: its statements and where its cleanup begins
    pc,         \* the number of its next statement, the cleanup's included
    env,        \* its variables
    memory,     \* its memory
    registered, \* what the server keeps for it: job, adhoc, pfs
    failed      \* the requests that returned an error

vars == <<program, pc, env, memory, registered, failed>>

----------------------------------------------------------------------------
(* Statements. *)

Statement(do, op, args, var) == [do |-> do, op |-> op, args |-> args, var |-> var]

\* v = f(args)
Set(v, f, args) == Statement("set", f, args, v)
\* assert(v)
Asserts(v) == Statement("assert", "assert", <<>>, v)
\* if(v == NULL) goto cleanup
Checks(v) == Statement("check", "check", <<>>, v)
\* if(f(server, args, &v) != ADM_SUCCESS) goto cleanup
Request(f, args, v) == Statement("request", f, args, v)
\* f(server, args), whose result does not change what comes next
Notice(f, args) == Statement("notice", f, args, "none")
\* if(f(server, v) != ADM_SUCCESS) v = NULL
Release(f, v) == Statement("notice", f, <<v>>, v)
\* f(server, ...), a wrapper that logs and returns ADM_SUCCESS
Placeholder(f) == Statement("placeholder", f, <<>>, "none")
\* f(v), which destroys an object
Destroy(f, v) == Statement("destroy", f, <<>>, v)

Asserted(v, f, args) == <<Set(v, f, args), Asserts(v)>>
Checked(v, f, args)  == <<Set(v, f, args), Checks(v)>>

Nodes(v)  == Asserted(v, "prepare_nodes", <<>>)
Routes(v) == Asserted(v, "prepare_routes", <<>>)

JobResources == Asserted("job_resources", "ADM_job_resources_create", <<"job_nodes">>)

\* The programs about jobs begin alike: some create the job's resources before
\* the adhoc storage is registered, some after. expected is how they create the
\* expected outputs.
OpeningWith(expected, early) ==
       <<Set("server", "ADM_server_create", <<>>)>>
    \o Nodes("job_nodes") \o Nodes("adhoc_nodes")
    \o Routes("inputs") \o Routes("outputs") \o expected
    \o (IF early THEN JobResources ELSE <<>>)
    \o Asserted("adhoc_resources", "ADM_adhoc_resources_create", <<"adhoc_nodes">>)
    \o Asserted("ctx", "ADM_adhoc_context_create", <<>>)
    \o <<Request("ADM_register_adhoc_storage", <<"ctx", "adhoc_resources">>, "adhoc_storage")>>
    \o (IF early THEN <<>> ELSE JobResources)
    \o Asserted("reqs", "ADM_job_requirements_create",
                <<"inputs", "outputs", "expected_outputs", "adhoc_storage">>)
    \o <<Request("ADM_register_job", <<"job_resources", "reqs">>, "job")>>

Opening(early) == OpeningWith(Routes("expected_outputs"), early)

\* Of no datasets and no limits.
Transfer == Request("ADM_transfer_datasets", <<"job">>, "tx")
Unroute  == <<Destroy("destroy_routes", "inputs"), Destroy("destroy_routes", "outputs"),
              Destroy("destroy_routes", "expected_outputs")>>
\* Mutant of Closing: the job is not removed.
ClosingLeaving == <<Destroy("ADM_server_destroy", "server")>>
Closing  == <<Notice("ADM_remove_job", <<"job">>), Destroy("ADM_server_destroy", "server")>>

Program(body, cleanup) == [statements |-> body \o cleanup, cleanup |-> Len(body) + 1]

----------------------------------------------------------------------------
(* The programs about jobs. *)

ADM_cancel_transfer ==
    Program(Opening(TRUE) \o <<Transfer, Placeholder("ADM_cancel_transfer")>>,
            Closing \o Unroute)

ADM_connect_data_operation ==
    Program(Opening(FALSE) \o <<Placeholder("ADM_connect_data_operation")>>, Closing)

ADM_define_data_operation ==
    Program(Opening(TRUE) \o <<Placeholder("ADM_define_data_operation")>>, Closing)

ADM_finalize_data_operation ==
    Program(Opening(FALSE) \o <<Placeholder("ADM_define_data_operation"),
                                Placeholder("ADM_finalize_data_operation")>>, Closing)

ADM_get_pending_transfers ==
    Program(Opening(TRUE) \o <<Placeholder("ADM_get_pending_transfers")>>, Closing)

ADM_get_qos_constraints ==
    Program(Opening(FALSE) \o <<Placeholder("ADM_get_qos_constraints")>>, Closing)

ADM_get_statistics ==
    Program(Opening(FALSE) \o <<Placeholder("ADM_get_statistics")>>, Closing)

ADM_get_transfer_priority ==
    Program(Opening(TRUE) \o <<Transfer, Placeholder("ADM_get_transfer_priority")>>, Closing)

ADM_link_transfer_to_data_operation ==
    Program(Opening(FALSE) \o <<Placeholder("ADM_define_data_operation"), Transfer,
                                Placeholder("ADM_link_transfer_to_data_operation")>>, Closing)

ADM_set_dataset_information ==
    Program(Opening(FALSE) \o <<Placeholder("ADM_set_dataset_information")>>, Closing)

ADM_set_io_resources ==
    Program(Opening(FALSE) \o <<Placeholder("ADM_set_io_resources")>>, Closing)

ADM_set_qos_constraints ==
    Program(Opening(TRUE) \o <<Placeholder("ADM_set_qos_constraints")>>, Closing)

ADM_set_transfer_priority ==
    Program(Opening(TRUE) \o <<Transfer, Placeholder("ADM_set_transfer_priority")>>, Closing)

ADM_transfer_datasets ==
    Program(Opening(TRUE) \o Asserted("sources", "prepare_datasets", <<>>)
                          \o Asserted("targets", "prepare_datasets", <<>>)
                          \o Asserted("limits", "prepare_qos_limits", <<>>)
                          \o <<Request("ADM_transfer_datasets",
                                       <<"job", "sources", "targets", "limits">>, "tx")>>,
            Closing)

ADM_remove_job ==
    Program(Opening(TRUE) \o <<Notice("ADM_remove_job", <<"job">>)>>,
            <<Destroy("ADM_server_destroy", "server")>>)

\* Its expected outputs are not checked, and of the new resources the old ones
\* are checked a second time.
ADM_update_job ==
    Program(OpeningWith(<<Set("expected_outputs", "prepare_routes", <<>>)>>, TRUE)
            \o Nodes("new_job_nodes")
            \o <<Set("new_job_resources", "ADM_job_resources_create", <<"new_job_nodes">>),
                 Asserts("job_resources"),
                 Request("ADM_update_job", <<"job", "new_job_resources">>, "none")>>,
            Unroute \o Closing)

\* The opening of the programs about adhoc storages.
AdhocOpening ==
       Checked("adhoc_nodes", "prepare_nodes", <<>>)
    \o Checked("adhoc_resources", "ADM_adhoc_resources_create", <<"adhoc_nodes">>)
    \o Checked("ctx", "ADM_adhoc_context_create", <<>>)
    \o Checked("server", "ADM_server_create", <<>>)
    \o <<Request("ADM_register_adhoc_storage", <<"ctx", "adhoc_resources">>, "adhoc_storage")>>

AdhocClosing == <<Destroy("ADM_adhoc_context_destroy", "ctx"),
                  Destroy("ADM_adhoc_resources_destroy", "adhoc_resources"),
                  Destroy("destroy_nodes", "adhoc_nodes")>>

\* Mutant of RemoveAdhoc: the wrapper only logs, as others do.
RemoveAdhocLogging == Placeholder("ADM_remove_adhoc_storage")
RemoveAdhoc == Release("ADM_remove_adhoc_storage", "adhoc_storage")

ADM_register_job ==
    Program(AdhocOpening
            \o Checked("job_nodes", "prepare_nodes", <<>>)
            \o Checked("job_resources", "ADM_job_resources_create", <<"job_nodes">>)
            \o Checked("inputs", "prepare_routes", <<>>)
            \o Checked("outputs", "prepare_routes", <<>>)
            \o Checked("expected_outputs", "prepare_routes", <<>>)
            \o Checked("reqs", "ADM_job_requirements_create",
                       <<"inputs", "outputs", "expected_outputs", "adhoc_storage">>)
            \o <<Request("ADM_register_job", <<"job_resources", "reqs">>, "job"),
                 Release("ADM_remove_job", "job"), RemoveAdhoc>>,
            <<Destroy("ADM_server_destroy", "server"),
              Destroy("ADM_job_requirements_destroy", "reqs")>>
            \o Unroute
            \o <<Destroy("ADM_job_resources_destroy", "job_resources"),
                 Destroy("destroy_nodes", "job_nodes")>>
            \o AdhocClosing)

----------------------------------------------------------------------------
(* The programs about adhoc and PFS storages, and ping. *)

ADM_register_adhoc_storage ==
    Program(AdhocOpening \o <<RemoveAdhoc>>,
            <<Destroy("ADM_server_destroy", "server")>> \o AdhocClosing)

ADM_remove_adhoc_storage ==
    Program(AdhocOpening \o <<Request("ADM_remove_adhoc_storage", <<"adhoc_storage">>, "none")>>,
            <<Destroy("ADM_server_destroy", "server")>> \o AdhocClosing)

ADM_update_adhoc_storage ==
    Program(AdhocOpening
            \o Checked("new_adhoc_nodes", "prepare_nodes", <<>>)
            \o Checked("new_ctx", "ADM_adhoc_context_create", <<>>)
            \o Checked("new_adhoc_resources", "ADM_adhoc_resources_create", <<"new_adhoc_nodes">>)
            \o <<Request("ADM_update_adhoc_storage",
                         <<"adhoc_storage", "new_adhoc_resources">>, "none"), RemoveAdhoc>>,
            <<Destroy("ADM_server_destroy", "server"),
              Destroy("ADM_adhoc_context_destroy", "new_ctx"),
              Destroy("ADM_adhoc_context_destroy", "ctx"),
              Destroy("ADM_adhoc_resources_destroy", "adhoc_resources"),
              Destroy("destroy_nodes", "new_adhoc_nodes"),
              Destroy("destroy_nodes", "adhoc_nodes")>>)

\* Deploys the storage and, in the second program, terminates it.
Deployment(more) ==
    Program(AdhocOpening \o Checked("new_ctx", "ADM_adhoc_context_create", <<>>)
            \o <<Request("ADM_deploy_adhoc_storage", <<"adhoc_storage">>, "path")>>
            \o more \o <<RemoveAdhoc>>,
            <<Destroy("free", "path"), Destroy("ADM_server_destroy", "server"),
              Destroy("ADM_adhoc_context_destroy", "new_ctx")>> \o AdhocClosing)

ADM_deploy_adhoc_storage == Deployment(<<>>)

ADM_terminate_adhoc_storage ==
    Deployment(<<Request("ADM_terminate_adhoc_storage", <<"adhoc_storage">>, "none")>>)

PfsOpening == Checked("pfs_ctx", "ADM_pfs_context_create", <<>>)
              \o Checked("server", "ADM_server_create", <<>>)
              \o <<Request("ADM_register_pfs_storage", <<"pfs_ctx">>, "pfs_storage")>>
PfsClosing == <<Destroy("ADM_server_destroy", "server"),
                Destroy("ADM_pfs_context_destroy", "pfs_ctx")>>

ADM_register_pfs_storage ==
    Program(PfsOpening \o <<Release("ADM_remove_pfs_storage", "pfs_storage")>>, PfsClosing)

ADM_remove_pfs_storage ==
    Program(PfsOpening \o <<Request("ADM_remove_pfs_storage", <<"pfs_storage">>, "none")>>,
            PfsClosing)

ADM_update_pfs_storage ==
    Program(PfsOpening \o Checked("new_pfs_ctx", "ADM_pfs_context_create", <<>>)
            \o <<Request("ADM_update_pfs_storage", <<"pfs_storage", "new_pfs_ctx">>, "none"),
                 Release("ADM_remove_pfs_storage", "pfs_storage")>>, PfsClosing)

ADM_ping == Program(<<Set("server", "ADM_server_create", <<>>), Notice("ADM_ping", <<>>)>>, <<>>)

Code ==
    [ADM_cancel_transfer |-> ADM_cancel_transfer,
     ADM_connect_data_operation |-> ADM_connect_data_operation,
     ADM_define_data_operation |-> ADM_define_data_operation,
     ADM_deploy_adhoc_storage |-> ADM_deploy_adhoc_storage,
     ADM_finalize_data_operation |-> ADM_finalize_data_operation,
     ADM_get_pending_transfers |-> ADM_get_pending_transfers,
     ADM_get_qos_constraints |-> ADM_get_qos_constraints,
     ADM_get_statistics |-> ADM_get_statistics,
     ADM_get_transfer_priority |-> ADM_get_transfer_priority,
     ADM_link_transfer_to_data_operation |-> ADM_link_transfer_to_data_operation,
     ADM_ping |-> ADM_ping,
     ADM_register_adhoc_storage |-> ADM_register_adhoc_storage,
     ADM_register_job |-> ADM_register_job,
     ADM_register_pfs_storage |-> ADM_register_pfs_storage,
     ADM_remove_adhoc_storage |-> ADM_remove_adhoc_storage,
     ADM_remove_job |-> ADM_remove_job,
     ADM_remove_pfs_storage |-> ADM_remove_pfs_storage,
     ADM_set_dataset_information |-> ADM_set_dataset_information,
     ADM_set_io_resources |-> ADM_set_io_resources,
     ADM_set_qos_constraints |-> ADM_set_qos_constraints,
     ADM_set_transfer_priority |-> ADM_set_transfer_priority,
     ADM_terminate_adhoc_storage |-> ADM_terminate_adhoc_storage,
     ADM_transfer_datasets |-> ADM_transfer_datasets,
     ADM_update_adhoc_storage |-> ADM_update_adhoc_storage,
     ADM_update_job |-> ADM_update_job,
     ADM_update_pfs_storage |-> ADM_update_pfs_storage]

ASSUME ProgramsAreKnown == Programs \subseteq DOMAIN Code

Compiled == {Code[p] : p \in Programs}

Variables == {"server", "adhoc_storage", "adhoc_resources", "ctx", "new_ctx",
              "new_adhoc_resources", "path", "pfs_ctx", "new_pfs_ctx", "pfs_storage",
              "job", "job_resources", "new_job_resources", "reqs", "tx"} \cup DOMAIN Size

\* Two programs declare their job without a value.
Unset(p) == IF p \in {"ADM_connect_data_operation", "ADM_update_job"} THEN {"job"} ELSE {}

----------------------------------------------------------------------------
(* examples/c/common.c. *)

\* An array of n objects; what was created is lost when one cannot be.
prepare(h, n, create(_)) ==
    LET a == malloc(h, "array", [i \in 1 .. n |-> Null])
    IN  Each(LAMBDA m, i : LET c == create(m)
                           IN  IF c.ret = Null THEN c ELSE Assign(c, a.ret, i), a, n)

prepare_nodes(h, n) == prepare(h, n, ADM_node_create)

prepare_datasets(h, n) == prepare(h, n, LAMBDA m : ADM_dataset_create(m, Static))

\* The two datasets a route is made of are never destroyed.
prepare_routes(h, n) ==
    prepare(h, n, LAMBDA m :
        LET src == ADM_dataset_create(m, Static)
            dst == ADM_dataset_create(src, Static)
        IN  IF Null \in {src.ret, dst.ret} THEN Returns(dst, Null)
            ELSE ADM_dataset_route_create(dst, src.ret, dst.ret))

prepare_qos_limits(h, n) == prepare(h, n, ADM_qos_limit_create)

destroy(h, a, n, one(_, _)) ==
    IF a = Null THEN h
    ELSE LET t == Touch(h, a)
         IN  free(FoldLeft(LAMBDA m, i : one(m, Field(t, a, i)), t, [i \in 1 .. n |-> i]), a)

destroy_nodes(h, a, n)  == destroy(h, a, n, ADM_node_destroy)
destroy_routes(h, a, n) == destroy(h, a, n, LAMBDA m, p : ADM_dataset_route_destroy(m, p, 1))

----------------------------------------------------------------------------
(* What a statement computes: args are variables. *)

Value(h, f, args, var) ==
    LET arg(i)  == env[args[i]]
        list(i) == <<arg(i), Size[args[i]]>>
    IN  CASE f = "ADM_server_create"  -> ADM_server_create(h)
          [] f = "prepare_nodes"      -> prepare_nodes(h, Size[var])
          [] f = "prepare_datasets"   -> prepare_datasets(h, Size[var])
          [] f = "prepare_routes"     -> prepare_routes(h, Size[var])
          [] f = "prepare_qos_limits" -> prepare_qos_limits(h, Size[var])
          [] f = "ADM_adhoc_resources_create" ->
                 ADM_adhoc_resources_create(h, arg(1), Size[args[1]])
          [] f = "ADM_job_resources_create" ->
                 ADM_job_resources_create(h, arg(1), Size[args[1]])
          [] f = "ADM_adhoc_context_create" -> ADM_adhoc_context_create(h)
          [] f = "ADM_pfs_context_create"   -> ADM_pfs_context_create(h)
          [] f = "ADM_job_requirements_create" ->
                 ADM_job_requirements_create(h, list(1), list(2), list(3), arg(4))

Destroyed(h, f, v) ==
    CASE f = "free"                         -> free(h, env[v])
      [] f = "ADM_server_destroy"           -> ADM_server_destroy(h, env[v])
      [] f = "ADM_adhoc_context_destroy"    -> ADM_adhoc_context_destroy(h, env[v])
      [] f = "ADM_pfs_context_destroy"      -> ADM_pfs_context_destroy(h, env[v])
      [] f = "ADM_adhoc_resources_destroy"  -> ADM_adhoc_resources_destroy(h, env[v])
      [] f = "ADM_job_resources_destroy"    -> ADM_job_resources_destroy(h, env[v])
      [] f = "ADM_job_requirements_destroy" -> ADM_job_requirements_destroy(h, env[v])
      [] f = "destroy_nodes"                -> destroy_nodes(h, env[v], Size[v])
      [] f = "destroy_routes"               -> destroy_routes(h, env[v], Size[v])

\* What a wrapper reads before it sends its request, the server's address first.
Reads(h, f, args) ==
    LET s      == Touch(h, env["server"])
        arg(i) == env[args[i]]
        all(m, i, one(_, _)) ==
            FoldLeft(LAMBDA x, j : one(x, Field(x, arg(i), j)), Touch(m, arg(i)),
                     [j \in 1 .. Size[args[i]] |-> j])
    IN  CASE f = "ADM_ping" -> s
          [] f = "ADM_register_job" -> read_requirements(read_resources(s, arg(1)), arg(2))
          [] f = "ADM_update_job" -> read_resources(Touch(s, arg(1)), arg(2))
          [] f = "ADM_remove_job" -> Touch(s, arg(1))
          [] f = "ADM_register_adhoc_storage" ->
                 read_resources(read_context(s, arg(1)), arg(2))
          [] f = "ADM_update_adhoc_storage" ->
                 read_resources(read_adhoc_storage(s, arg(1)), arg(2))
          [] f \in {"ADM_remove_adhoc_storage", "ADM_deploy_adhoc_storage",
                    "ADM_terminate_adhoc_storage"} -> read_adhoc_storage(s, arg(1))
          [] f = "ADM_register_pfs_storage" -> read_context(s, arg(1))
          [] f = "ADM_update_pfs_storage" -> read_context(read_pfs_storage(s, arg(1)), arg(2))
          [] f = "ADM_remove_pfs_storage" -> read_pfs_storage(s, arg(1))
          [] f = "ADM_transfer_datasets" ->
                 LET j == Touch(s, arg(1))
                 IN  IF Len(args) = 1 THEN j
                     ELSE all(all(all(j, 2, read_dataset), 3, read_dataset), 4, Touch)

\* Mutant of Answer: the job of the answer is not handed over.
AnswerWithoutJob(h, f) ==
    CASE f = "ADM_register_adhoc_storage" -> to_adhoc_storage(h, Size["adhoc_nodes"])
      [] f = "ADM_register_pfs_storage"   -> to_pfs_storage(h)
      [] OTHER                            -> Returns(h, Null)

\* What a wrapper creates from the answer; Null where it returns no object.
Answer(h, f) ==
    CASE f = "ADM_register_job"           -> ADM_job_create(h)
      [] f = "ADM_register_adhoc_storage" -> to_adhoc_storage(h, Size["adhoc_nodes"])
      [] f = "ADM_register_pfs_storage"   -> to_pfs_storage(h)
      [] f = "ADM_transfer_datasets"      -> ADM_transfer_create(h)
      [] f = "ADM_deploy_adhoc_storage"   -> malloc(h, "path", <<>>)
      [] OTHER                            -> Returns(h, Null)

\* What the server keeps once it has carried out a request.
Kept(f) ==
    CASE f = "ADM_register_job"           -> registered \cup {"job"}
      [] f = "ADM_remove_job"             -> registered \ {"job"}
      [] f = "ADM_register_adhoc_storage" -> registered \cup {"adhoc"}
      [] f = "ADM_remove_adhoc_storage"   -> registered \ {"adhoc"}
      [] f = "ADM_register_pfs_storage"   -> registered \cup {"pfs"}
      [] f = "ADM_remove_pfs_storage"     -> registered \ {"pfs"}
      [] OTHER                            -> registered

----------------------------------------------------------------------------
(* Steps. *)

Statements == program.statements
Cleanup    == program.cleanup
Finished   == pc > Len(Statements)
Now        == Statements[pc]
Runs(do)   == Ok(memory) /\ ~Finished /\ Now.do = do

Init ==
    /\ \E p \in Programs :
           /\ program = Code[p]
           /\ env = [v \in Variables |-> IF v \in Unset(p) THEN Wild ELSE Null]
    /\ pc = 1
    /\ \E left \in Allocations, debug \in BOOLEAN : memory = Fresh(left, debug)
    /\ registered = {}
    /\ failed = {}

SetVariable ==
    /\ Runs("set")
    /\ memory' = Value(memory, Now.op, Now.args, Now.var)
    /\ env' = [env EXCEPT ![Now.var] = memory'.ret]
    /\ pc' = pc + 1
    /\ UNCHANGED <<program, registered, failed>>

AssertVariable ==
    /\ Runs("assert")
    /\ memory' = assert(memory, env[Now.var])
    /\ pc' = pc + 1
    /\ UNCHANGED <<program, env, registered, failed>>

CheckVariable ==
    /\ Runs("check")
    /\ pc' = IF env[Now.var] = Null THEN Cleanup ELSE pc + 1
    /\ UNCHANGED <<program, env, memory, registered, failed>>

\* Mutant of DestroyObject: the cleanup passes over every second statement.
DestroyObjectSkipping ==
    /\ Runs("destroy")
    /\ memory' = Destroyed(memory, Now.op, Now.var)
    /\ pc' = pc + 2
    /\ UNCHANGED <<program, env, registered, failed>>

DestroyObject ==
    /\ Runs("destroy")
    /\ memory' = Destroyed(memory, Now.op, Now.var)
    /\ pc' = pc + 1
    /\ UNCHANGED <<program, env, registered, failed>>

Requests == Runs("request") \/ Runs("notice")
Read     == Reads(memory, Now.op, Now.args)
AfterError == IF Now.do = "request" THEN Cleanup ELSE pc + 1

\* The library reads what it may not.
RequestFaults ==
    /\ Requests
    /\ memory' = Read
    /\ ~Ok(memory')
    /\ UNCHANGED <<program, pc, env, registered, failed>>

\* The server only removes what it keeps. A path that cannot be copied is an
\* error, an object that cannot be created is not.
RequestSucceeds ==
    /\ Requests
    /\ Ok(Read)
    /\ Now.op \in {"ADM_remove_job", "ADM_remove_adhoc_storage", "ADM_remove_pfs_storage"}
         => Kept(Now.op) # registered
    /\ memory' = Answer(Read, Now.op)
    /\ LET error == Now.op = "ADM_deploy_adhoc_storage" /\ memory'.ret = Null
       IN  /\ env' = IF Now.do = "request" /\ Now.var # "none"
                     THEN [env EXCEPT ![Now.var] = memory'.ret] ELSE env
           /\ pc' = IF error THEN AfterError ELSE pc + 1
           /\ failed' = IF error THEN failed \cup {Now.op} ELSE failed
    /\ registered' = Kept(Now.op)
    /\ UNCHANGED program

\* The request is refused or lost, or its answer is.
RequestFails ==
    /\ Requests
    /\ memory' = Read
    /\ Ok(memory')
    /\ pc' = AfterError
    /\ registered' \in {registered, Kept(Now.op)}
    /\ failed' = failed \cup {Now.op}
    /\ env' = IF Now.do = "notice" /\ Now.var # "none"
              THEN [env EXCEPT ![Now.var] = Null] ELSE env
    /\ UNCHANGED program

\* A call of the interface that is not implemented reads the server's address.
CallPlaceholder ==
    /\ Runs("placeholder")
    /\ memory' = Touch(memory, env["server"])
    /\ pc' = pc + 1
    /\ UNCHANGED <<program, env, registered, failed>>

Next ==
    \/ SetVariable
    \/ AssertVariable
    \/ CheckVariable
    \/ DestroyObject
    \/ RequestFaults
    \/ RequestSucceeds
    \/ RequestFails
    \/ CallPlaceholder

Spec == Init /\ [][Next]_vars

----------------------------------------------------------------------------
(* Properties. *)

Contents(p) == {memory.at[p][f] : f \in DOMAIN memory.at[p]}

\* Pointers, of variables and of objects, are to blocks, and a program's step
\* is one of its statements.
TypeOK ==
    LET Pointers == {Wild, Static} \cup (0 .. Len(memory.at))
    IN  /\ program \in Compiled
        /\ pc \in 1 .. Len(Statements) + 1
        /\ env \in [Variables -> Pointers]
        /\ \A p \in Live(memory) : Contents(p) \subseteq Pointers
        /\ Len(memory.kind) = Len(memory.at)
        /\ memory.fate \in Faults
        /\ registered \subseteq {"job", "adhoc", "pfs"}

\* No program and no call of the library reads or frees an object that was
\* destroyed, frees one twice, or reads past an array, whichever allocation
\* fails and whichever request is refused: what the copies of the library
\* share is never what its destroy functions free.
NoDanglingAccess == memory.fate \notin {"freed", "overrun"}

\* An object has one owner. What two objects share is what a context's copy
\* shares with it, and the resources that a storage has from its creator.
SharingIsKnown ==
    LET owned == UNION {{<<p, b>> : b \in Contents(p) \cap Live(memory)} : p \in Live(memory)}
        alone == {o \in owned : memory.kind[o[2]] \notin {"address", "mount", "resources"}}
    IN  Cardinality(alone) = Cardinality({o[2] : o \in alone})

\* As long as no allocation fails, the only thing a program can do wrong is to
\* remove, in its cleanup, a job that it failed to register.
CrashNeedsFailure ==
    ~Ok(memory) /\ ~Starved(memory) =>
        /\ Now = Notice("ADM_remove_job", <<"job">>)
        /\ pc >= Cleanup
        /\ failed \cap {"ADM_register_adhoc_storage", "ADM_register_job"} # {}

\* As long as no allocation fails, every object is held by a variable or by
\* another object, but for those the library is known to lose: the strings of
\* a destroyed context, the temporary context and nodes of an answer, the
\* datasets a route was made of and the route that was destroyed; and those
\* the programs lose, the object whose removal failed.
LeaksAreKnown ==
    Ok(memory) /\ ~Starved(memory) =>
        LET held == UNION {Contents(p) : p \in Live(memory)}
                    \cup {env[v] : v \in Variables}
        IN  \A p \in Live(memory) \ held :
                \/ memory.kind[p] \in {"address", "mount", "context", "node", "dataset", "route"}
                \/ memory.kind[p] \in {"job", "storage"} /\ failed # {}

\* A program that ends leaves no job behind on the server, whichever allocation
\* failed, unless a request failed.
NoJobLeftBehind ==
    Finished /\ Ok(memory) /\ failed = {} => "job" \notin registered

\* The programs that remove a storage do not leave it behind either, unless a
\* request failed or an allocation: cleanup does not remove what was registered.
NoStorageLeftBehind ==
    LET removes == \E i \in DOMAIN Statements :
            Statements[i].op \in {"ADM_remove_adhoc_storage", "ADM_remove_pfs_storage"}
    IN  Finished /\ Ok(memory) /\ ~Starved(memory) /\ failed = {} /\ removes
            => registered = {}
============================================================================
