------------------------- MODULE ManagersConstants --------------------------
(* The parameters of Managers, which Daemon has too, and what clients ask. *)
EXTENDS Integers, FiniteSets

CONSTANTS
    Handlers,     \* handler ULTs
    SlurmIds,     \* Slurm job ids
    Values,       \* resources of a job, contexts of a PFS storage
    MaxId,        \* bound: registrations of each kind
    Serves,       \* bound: the operations each handler may be asked for
    None

ASSUME ManagersAssumption ==
    /\ MaxId \in Nat
    /\ None \notin Handlers \cup Values \cup Nat

Ids == 0 .. MaxId - 1

Request(op, slurm_id, of, value) ==
    [op : op, slurm_id : slurm_id, of : of, value : value]
Requests ==
    Request({"register_job"}, SlurmIds, {None}, Values)
    \cup Request({"query"}, SlurmIds, {None}, {None})
    \cup Request({"find_job", "remove_job", "remove_pfs"}, {None}, Ids, {None})
    \cup Request({"update_job", "update_pfs"}, {None}, Ids, Values)
    \cup Request({"register_pfs"}, {None}, {None}, Values)

\* No request is taken for the mark of a handler without one.
ASSUME NoneIsNoRequest == None \notin Requests
============================================================================
