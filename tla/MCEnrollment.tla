---------------------------- MODULE MCEnrollment ----------------------------
(* An instance of Enrollment for TLC, with as few credentials and key      *)
(* pairs as EnoughAssumption allows: the configurations name them.         *)
EXTENDS Enrollment
=============================================================================
