--------------------------- MODULE MCSlurmPlugin ---------------------------
(* SlurmPlugin for TLC: the job steps are steps of one Slurm job. *)
EXTENDS SlurmPlugin

CONSTANT TheSlurmJob

OneSlurmJob == [p \in JobSteps |-> TheSlurmJob]
============================================================================
