---------------------------- MODULE MCRetrieval -----------------------------
EXTENDS Retrieval

(* Every connection is by the same client. *)
MCPeer == [c \in Conns |-> "alice"]
=============================================================================
