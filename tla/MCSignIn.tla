------------------------------ MODULE MCSignIn ------------------------------
(* Instances of SignIn for TLC.                                            *)
EXTENDS SignIn
=============================================================================
