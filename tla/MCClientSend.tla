---------------------------- MODULE MCClientSend ----------------------------
EXTENDS ClientSend

MCTopology == <<{"mix"}>>
=============================================================================
