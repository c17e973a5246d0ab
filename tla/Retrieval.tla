------------------------------ MODULE Retrieval -----------------------------
(***************************************************************************)
(* A client emptying its message spool: the provider's boltspool, the      *)
(* RetrieveMessage handler of server/internal/incoming and the fetch loop  *)
(* of minclient's onWireConn, on top of the provider's connections         *)
(* (Listener).  All connections are by one client, one after the other.    *)
(*                                                                         *)
(* RetrieveMessage carries the client's sequence number.  The provider     *)
(* keeps its own for each connection (retrSeq) and deletes the head of the *)
(* spool when the client's is one ahead.  Both start from 0 on every       *)
(* connection, so a new connection must not share the spool with an older  *)
(* one.                                                                    *)
(***************************************************************************)
EXTENDS Listener

CONSTANTS
    MaxMsgs,        \* how many messages arrive for the client
    FailInGet       \* whether a session may fail between the handler's check
                    \* of the session and its spool transaction

ASSUME RetrievalAssumption ==
    /\ MaxMsgs \in Nat /\ FailInGet \in BOOLEAN
    /\ \A c, d \in Conns : Peer[c] = Peer[d]

VARIABLES
    spool,          \* the messages in the client's spool, oldest first
    stored,         \* how many messages have been stored
    removed,        \* the messages deleted from the spool
    retrSeq,        \* retrSeq[c]: the provider's sequence number
    cmd,            \* cmd[c]: the RetrieveMessage being handled, or NoCmd
    advance,        \* advance[c]: whether the head of the spool is to go
    checked,        \* the connections whose handler is about to call Get
    request,        \* request[c]: the RetrieveMessage on the wire, or NoCmd
    reply,          \* reply[c]: the answers on the wire
    cur,            \* the client's connection
    seq,            \* the client's sequence number
    outstanding,    \* nrReqs # nrResps
    received        \* the messages handed to the client's callback

spoolVars  == <<spool, stored, removed>>
serverVars == <<retrSeq, cmd, advance, checked>>
wireVars   == <<request, reply>>
clientVars == <<cur, seq, outstanding, received>>
rvars      == <<vars, spoolVars, serverVars, wireVars, clientVars>>

NoCmd == -1
Empty == 0                      \* the payload of MessageEmpty
Msgs  == 1..MaxMsgs
Seqs  == 0..MaxMsgs             \* every increment is for a message

RetrievalTypeOK ==
    /\ spool \in Seq(Msgs) /\ stored \in 0..MaxMsgs
    /\ removed \subseteq Msgs /\ received \subseteq Msgs
    /\ retrSeq \in [Conns -> Seqs]
    /\ cmd \in [Conns -> Seqs \cup {NoCmd}]
    /\ advance \in [Conns -> BOOLEAN]
    /\ checked \subseteq {c \in Conns : cmd[c] # NoCmd}
    /\ \A c \in Conns : cmd[c] # NoCmd <=> pc[c] = "busy"
    /\ request \in [Conns -> Seqs \cup {NoCmd}]
    /\ reply \in [Conns -> Seq([seq : Seqs, msg : Msgs \cup {Empty}])]
    /\ cur \in Conns \cup {None} /\ seq \in Seqs /\ outstanding \in BOOLEAN

RInit ==
    /\ Init
    /\ spool = <<>> /\ stored = 0 /\ removed = {}
    /\ retrSeq = [c \in Conns |-> 0]
    /\ cmd = [c \in Conns |-> NoCmd]
    /\ advance = [c \in Conns |-> FALSE]
    /\ checked = {}
    /\ request = [c \in Conns |-> NoCmd]
    /\ reply = [c \in Conns |-> <<>>]
    /\ cur = None /\ seq = 0 /\ outstanding = FALSE /\ received = {}

-----------------------------------------------------------------------------
(* The provider's worker stores a message for the user: doStore appends it *)
(* under the next sequence number of the user's bucket.                    *)
doStore ==
    /\ stored < MaxMsgs
    /\ stored' = stored + 1
    /\ spool' = Append(spool, stored + 1)
    /\ UNCHANGED <<vars, removed, serverVars, wireVars, clientVars>>

(* Fault: Get deletes the message it returns. *)
afterGetAlways(adv) == IF spool # <<>> THEN Tail(spool) ELSE spool

(* The spool after Get: advancing deletes the head, if there is one. *)
afterGet(adv) == IF adv /\ spool # <<>> THEN Tail(spool) ELSE spool

-----------------------------------------------------------------------------
(* The client. *)

(* doConnect: dial the provider, on a new connection with a sequence       *)
(* number of its own.                                                      *)
connect(c) ==
    /\ cur = None
    /\ onNewConn(c)
    /\ cur' = c /\ seq' = 0 /\ outstanding' = FALSE
    /\ UNCHANGED <<spoolVars, serverVars, wireVars, received>>

(* The fetch timer fires: one request at a time.  Fetches from a provider  *)
(* that is shutting down are not followed.                                 *)
doFetch ==
    /\ cur # None /\ halt = "no"
    /\ pc[cur] \notin {"start", "handshake"}
    /\ ~outstanding
    /\ request' = [request EXCEPT ![cur] = seq]
    /\ outstanding' = TRUE
    /\ UNCHANGED <<vars, spoolVars, serverVars, reply, cur, seq, received>>

(* Only a reply with a message increments the sequence number. *)
counts(r) == r.msg # Empty

(* Message, MessageACK or MessageEmpty: a reply with another sequence      *)
(* number is a protocol error and ends the connection.                     *)
onReply ==
    /\ cur # None /\ reply[cur] # <<>>
    /\ LET r == Head(reply[cur]) IN
       IF r.seq # seq
       THEN cur' = None /\ UNCHANGED <<seq, outstanding, received>>
       ELSE /\ outstanding' = FALSE
            /\ seq' = IF counts(r) THEN seq + 1 ELSE seq
            /\ received' = received \cup ({r.msg} \ {Empty})
            /\ UNCHANGED cur
    /\ reply' = [reply EXCEPT ![cur] = Tail(@)]
    /\ UNCHANGED <<vars, spoolVars, serverVars, request>>

(* The client's connection fails or is closed; replies on it are lost. *)
disconnect ==
    /\ cur # None
    /\ cur' = None
    /\ UNCHANGED <<vars, spoolVars, serverVars, wireVars, seq, outstanding, received>>

-----------------------------------------------------------------------------
(* The provider's side of a connection. *)

onCommand(c) ==
    /\ request[c] # NoCmd
    /\ handle(c)
    /\ cmd' = [cmd EXCEPT ![c] = request[c]]
    /\ request' = [request EXCEPT ![c] = NoCmd]
    /\ UNCHANGED <<spoolVars, retrSeq, advance, checked, reply, clientVars>>

advances(c) == cmd[c] = retrSeq[c] + 1

(* onRetrieveMessage up to PeerCredentials. *)
onRetrieveMessage(c) ==
    /\ pc[c] = "busy" /\ c \notin checked
    /\ IF cmd[c] \in {retrSeq[c], retrSeq[c] + 1}
       THEN /\ retrSeq' = [retrSeq EXCEPT ![c] = cmd[c]]
            /\ advance' = [advance EXCEPT ![c] = advances(c)]
       ELSE UNCHANGED <<retrSeq, advance>>
    /\ IF cmd[c] \in {retrSeq[c], retrSeq[c] + 1} /\ c \in established
       THEN checked' = checked \cup {c} /\ UNCHANGED <<vars, cmd>>
       ELSE handlerFails(c) /\ cmd' = [cmd EXCEPT ![c] = NoCmd] /\ UNCHANGED checked
    /\ UNCHANGED <<spoolVars, wireVars, clientVars>>

(* The rest of the handler: the spool transaction and SendCommand, which   *)
(* fails on an invalid session or a broken connection.                     *)
Get(c) ==
    /\ pc[c] = "busy" /\ c \in checked
    /\ spool' = afterGet(advance[c])
    /\ removed' = removed \cup (Range(spool) \ Range(spool'))
    /\ \/ /\ c \in established
          /\ handled(c)
          /\ reply' = [reply EXCEPT ![c] = Append(@,
                [seq |-> cmd[c],
                 msg |-> IF spool' = <<>> THEN Empty ELSE Head(spool')])]
       \/ /\ handlerFails(c)
          /\ UNCHANGED reply
    /\ checked' = checked \ {c}
    /\ cmd' = [cmd EXCEPT ![c] = NoCmd]
    /\ UNCHANGED <<stored, retrSeq, advance, request, clientVars>>

(* The provider's reader sees the end of the connection.  A request still  *)
(* on the wire is lost with it.                                            *)
connectionLost(c) ==
    /\ recvFails(c)
    /\ c \in checked => FailInGet
    /\ request' = [request EXCEPT ![c] = NoCmd]
    /\ UNCHANGED <<spoolVars, serverVars, reply, clientVars>>

(* What the connection's worker does besides handling RetrieveMessage. *)
connWork(c) ==
    /\ \/ locking(c) \/ Initialize(c) \/ lookAtConn(c) \/ Close(c)
       \/ closedOldConns(c) \/ leave(c) \/ closeSession(c)
    /\ UNCHANGED <<spoolVars, serverVars, wireVars, clientVars>>

connHandler(c) == onCommand(c) \/ onRetrieveMessage(c) \/ Get(c)

(* The provider is shut down. *)
providerHalts == Halt /\ UNCHANGED <<spoolVars, serverVars, wireVars, clientVars>>

providerHalted == Halted /\ UNCHANGED <<spoolVars, serverVars, wireVars, clientVars>>

RNext ==
    \/ doStore \/ doFetch \/ onReply \/ disconnect \/ providerHalts \/ providerHalted
    \/ \E c \in Conns :
          \/ connect(c) \/ connHandler(c) \/ connWork(c) \/ connectionLost(c)
          \/ reauthFails(c) /\ UNCHANGED <<spoolVars, serverVars, wireVars, clientVars>>

RSpec == RInit /\ [][RNext]_rvars

(* Goroutines are scheduled, a handshake has a deadline, and a reply is    *)
(* written or its write fails.                                             *)
RFairSpec ==
    /\ RSpec
    /\ \A c \in Conns : WF_rvars(connHandler(c) \/ connWork(c))
    /\ WF_rvars(providerHalted)

-----------------------------------------------------------------------------
(* A message leaves the spool only after the client has received it        *)
(* (docs/specs/old/end_to_end.rst: the 0th message is removed when the     *)
(* sequence number indicates that the client has received the reply), over *)
(* any number of dropped connections and whatever happens to a connection  *)
(* that the client has already replaced.                                   *)
AtLeastOnce == removed \subseteq received

=============================================================================
