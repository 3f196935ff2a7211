-------------------------- MODULE MCLiveSettlement --------------------------
(* Small instances of LiveSettlement: one server, one or two overlapping    *)
(* jobs.  Times are in units that keep the order of the code's 900, 60 and  *)
(* 90 seconds.                                                              *)
EXTENDS LiveSettlement, TLC

Symmetric == Permutations(Jobs)
=============================================================================
