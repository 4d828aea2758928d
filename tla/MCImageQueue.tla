----------------------------- MODULE MCImageQueue -----------------------------
(* ImageQueue on a few images and callers. *)
EXTENDS ImageQueue, TLC

\* Images and callers are interchangeable.
Symmetry == Permutations(Ids) \cup Permutations(Handles)
===============================================================================
