------------------------------ MODULE MCVoting ------------------------------
EXTENDS Voting, TLC

CONSTANTS a1, a2, a3

(* The operator of a3 has configured other network parameters. *)
MCDissent == [a \in Authorities |-> IF a = a3 THEN "q" ELSE "p"]

(* a1 and a2 are configured alike. *)
Symmetry == Permutations({a1, a2})
=============================================================================
