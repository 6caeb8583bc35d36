---------------------------- MODULE MCAuthStore ----------------------------
(***************************************************************************)
(* AuthStore on a small instance: three calls for one user and two         *)
(* passwords, one reload, a cache of one entry.                            *)
(***************************************************************************)
EXTENDS AuthStore, TLC

CallSymmetry == Permutations(Calls)
=============================================================================
