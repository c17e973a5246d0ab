----------------------------- MODULE MCReunion ------------------------------
(* Two exchanges with the same passphrase, or with different ones. *)
EXTENDS Reunion

CONSTANTS a, b

MCPassphrases == {[x \in Exchanges |-> 1], [x \in Exchanges |-> IF x = a THEN 1 ELSE 2]}
=============================================================================
