------------------------ MODULE MCClientPrograms ---------------------------
(* ClientPrograms for TLC: every program, with arrays of one or two objects. *)
EXTENDS ClientPrograms

AllPrograms == DOMAIN Code
Lengths == [v \in {"job_nodes", "adhoc_nodes", "inputs", "sources", "targets"} |-> 2]
        @@ [v \in {"new_adhoc_nodes", "outputs", "expected_outputs", "limits"} |-> 1]
        @@ "new_job_nodes" :> 4
Numbers == 0 .. 125
============================================================================
