----------------------------- MODULE MCProvider -----------------------------
(* Two clients, or the two services. *)
EXTENDS Provider

CONSTANTS u1, u2

MCTraffic == {{u1, u2}, {Echo, Plugin}}
====
