---------------------------- MODULE MCCallSignalling ----------------------------
(* CallSignalling with one or two devices a user and one or two calls. *)
EXTENDS CallSignalling, TLC

\* The devices of one user are interchangeable.
Symmetry == Permutations(Alice) \cup Permutations(Bob)
===============================================================================
