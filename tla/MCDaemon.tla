----------------------------- MODULE MCDaemon -----------------------------
(* Daemon for TLC: pids of one digit, the main process's before the child's. *)
EXTENDS Daemon, TLC

CONSTANTS p1, p2, h1, h2, h3

Pids == [p \in Procs |-> <<(IF p[1] = p1 THEN 1 ELSE 3)
                           + (IF p[2] = "main" THEN 0 ELSE 1)>>]
NoneOrStale == {None, <<9>>}
\* One handler creates, one reads or creates, one updates or removes.
Shares == h1 :> {"register_job", "register_pfs"}
       @@ h2 :> {"find_job", "query", "update_pfs"}
       @@ h3 :> {"update_job", "remove_job", "remove_pfs"}
NoShares == [h \in {} |-> {}]
NoneBefore == {None}
============================================================================
