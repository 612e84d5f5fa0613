-------------------------- MODULE MCScordRegistry --------------------------
(* ScordRegistry on small instances.  Handlers and Slurm ids are           *)
(* interchangeable; job and adhoc ids are numbers drawn from counters.     *)
EXTENDS ScordRegistry, TLC

Symmetry == Permutations(Handlers) \cup Permutations(SlurmIds)
============================================================================
