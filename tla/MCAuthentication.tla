-------------------------- MODULE MCAuthentication --------------------------
(* Authentication with two requests that are interchangeable.              *)
EXTENDS Authentication, TLC

RequestSymmetry == Permutations(Requests)
=============================================================================
