------------------------------ MODULE MCAgent ------------------------------
(* Instances of Agent for TLC.                                             *)
EXTENDS Agent, TLC

Symmetry == Permutations(Procs) \union Permutations(Urls) \union Permutations(Profiles)
=============================================================================
