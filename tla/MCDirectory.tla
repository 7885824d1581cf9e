---------------------------- MODULE MCDirectory ----------------------------
(* Instances of Directory for TLC. Every sign-in and every request creates *)
(* at most one user, so there is always an id left.                        *)
EXTENDS Directory, TLC

ASSUME EnoughAssumption ==
  Cardinality(UserIds) >= Cardinality(Admins) + MaxSignIns + MaxRequests

Symmetry == Permutations(Accounts) \cup Permutations(Tasks)
=============================================================================
