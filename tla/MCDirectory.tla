---------------------------- MODULE MCDirectory ----------------------------
(* The directory and the mixes for TLC. *)
EXTENDS NodePKI, TLC

Symmetry == Permutations(Authorities) \cup Permutations(Nodes)
====
