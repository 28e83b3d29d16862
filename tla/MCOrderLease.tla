---------------------------- MODULE MCOrderLease ----------------------------
(* OrderLease with interchangeable workers *)
EXTENDS OrderLease, TLC

WorkerSymmetry == Permutations(Workers)
=============================================================================
