------------------------ MODULE MCTransferScheduler ------------------------
(* TransferScheduler on small instances.  Clients are interchangeable;     *)
(* transfers are numbered.  NotMeasured is the -1 of measured_bandwidth(). *)
EXTENDS TransferScheduler, TLC

Symmetry == Permutations(Clients)
NotMeasured == -1
SomeBandwidths == {NotMeasured, 9, 10}
OneBandwidth == {NotMeasured}
============================================================================
