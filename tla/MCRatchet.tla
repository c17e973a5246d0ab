------------------------------ MODULE MCRatchet ------------------------------
EXTENDS Ratchet
MaxSentMC == [p \in Parties |-> IF p = Alice THEN 5 ELSE 3]
=============================================================================
