-------------------------- MODULE MCAdhocLifecycle --------------------------
(* AdhocLifecycle on small instances.  Handlers are interchangeable.       *)
EXTENDS AdhocLifecycle, TLC

Symmetry == Permutations(Handlers)
=============================================================================
