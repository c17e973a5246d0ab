----------------------------- MODULE MinClient ------------------------------
(***************************************************************************)
(* The goroutines of a minclient.Client: the connection worker             *)
(* (connection.go), the PKI worker (pki.go), an application goroutine that *)
(* sends packets, and Shutdown (client.go).                                *)
(*                                                                         *)
(* They meet on channels without buffers: a request carries its own errCh  *)
(* (doneFn) and replyCh, so an answer can only be delivered while its      *)
(* requester still waits for it.  A request is "live" while its requester  *)
(* waits and "stale" once the requester has given up.                      *)
(***************************************************************************)
VARIABLES
    conn,           \* where the connection worker is
    connected,      \* connection.isConnected
    again,          \* onConnStatusChange is to be called a second time
    queue,          \* getConsensusCh: a channel with room for one request
    consensusCtx,   \* the request that the provider has been asked for
    done,           \* the request whose doneFn is being called
    pki,            \* where the PKI worker is
    doc,            \* the document of the current epoch
    app,            \* where the application's call of sendPacket is
    halt            \* where Shutdown is

vars == <<conn, connected, again, queue, consensusCtx, done, pki, doc, app, halt>>

(* "sent", "failed", "nacked", "drainCons": calling the doneFn of a        *)
(* consensus request.  "psent", "pfailed", "drainSend": calling the doneFn *)
(* of a packet.  "reply": sending on replyCh.                              *)
ConsDone == {"sent", "failed", "nacked", "drainCons"}
PktDone  == {"psent", "pfailed", "drainSend"}
ConnPCs  == ConsDone \cup PktDone \cup
            {"wait", "dial", "handshake", "serve", "reply", "teardown", "status",
             "drain", "halted"}
PkiPCs   == {"wait", "enter", "enqueue", "dispatch", "reply", "got", "direct",
             "readLock", "writeLock", "halted"}
Requests == {"none", "live", "stale"}

TypeOK ==
    /\ conn \in ConnPCs /\ pki \in PkiPCs
    /\ connected \in BOOLEAN /\ again \in BOOLEAN
    /\ {queue, consensusCtx, done} \subseteq Requests
    /\ (done # "none") <=> conn \in ConsDone \cup PktDone
    /\ doc \in {"missing", "stored", "failed"}
    /\ app \in {"idle", "enqueue", "waiting"}
    /\ halt \in {"no", "conn", "pki", "complete"}

Init ==
    /\ conn = "wait" /\ connected = FALSE /\ again = FALSE
    /\ queue = "none" /\ consensusCtx = "none" /\ done = "none"
    /\ pki = "wait" /\ doc = "missing"
    /\ app = "idle" /\ halt = "no"

connHalted == halt # "no"               \* connection.HaltCh() is closed
pkiHalted  == halt \in {"pki", "complete"}
clientLock == halt = "pki"              \* halt() holds the Client's lock
connLock   == conn \in {"drainSend", "drain", "drainCons"}

abandoned(r) == IF r = "live" THEN "stale" ELSE r

connVars == <<conn, connected, again, queue, consensusCtx, done>>

-----------------------------------------------------------------------------
(* The connection worker. *)

(* Fault: the wait for a document does not look at HaltCh. *)
connectWorkerDeaf ==
    /\ conn = "wait"
    /\ doc = "stored" /\ conn' = "dial"
    /\ UNCHANGED <<connected, again, queue, consensusCtx, done, pki, doc, app, halt>>

(* connectWorker: a document for the epoch lists the provider. *)
connectWorker ==
    /\ conn = "wait"
    /\ \/ connHalted /\ conn' = "halted"
       \/ ~connHalted /\ doc = "stored" /\ conn' = "dial"
    /\ UNCHANGED <<connected, again, queue, consensusCtx, done, pki, doc, app, halt>>

(* doConnect: HaltCh is looked at until the connection is dialed. *)
doConnect ==
    /\ conn = "dial"
    /\ \/ connHalted /\ conn' = "halted"
       \/ ~connHalted /\ doc = "stored" /\ conn' = "handshake"
       \/ ~connHalted /\ doc # "stored" /\ conn' = "wait"
    /\ UNCHANGED <<connected, again, queue, consensusCtx, done, pki, doc, app, halt>>

(* onNetConn: the handshake succeeds, or doConnect goes on to              *)
(* onConnStatusChange.                                                     *)
onNetConn ==
    /\ conn = "handshake"
    /\ \/ conn' = "serve" /\ connected' = TRUE /\ again' = TRUE
       \/ conn' = "status" /\ UNCHANGED <<connected, again>>
    /\ UNCHANGED <<queue, consensusCtx, done, pki, doc, app, halt>>

(* SendCommand, and on to doneFn. *)
sendCommand(ok, failed) ==
    \/ conn' = ok
    \/ conn' = failed

onGetConsensus ==
    /\ conn = "serve" /\ queue # "none"
    /\ done' = queue /\ queue' = "none"
    /\ IF consensusCtx # "none"
       THEN conn' = "nacked" /\ UNCHANGED consensusCtx
       ELSE consensusCtx' = queue /\ sendCommand("sent", "failed")
    /\ UNCHANGED <<connected, again, pki, doc, app, halt>>

onSendPacket ==
    /\ conn = "serve" /\ app = "enqueue"
    /\ app' = "waiting" /\ done' = "live"
    /\ sendCommand("psent", "pfailed")
    /\ UNCHANGED <<connected, again, queue, consensusCtx, pki, doc, halt>>

(* The provider's Consensus arrives. *)
onConsensus ==
    /\ conn = "serve" /\ consensusCtx # "none"
    /\ conn' = "reply"
    /\ UNCHANGED <<connected, again, queue, consensusCtx, done, pki, doc, app, halt>>

(* The reader fails, a callback returns an error, the provider violates    *)
(* the protocol or is no longer listed, or the client is being shut down.  *)
wireError ==
    /\ conn = "serve"
    /\ conn' = "teardown"
    /\ UNCHANGED <<connected, again, queue, consensusCtx, done, pki, doc, app, halt>>

(* The worker goes on once its doneFn has returned. *)
afterDone ==
    CASE conn \in {"sent", "psent", "nacked"} -> "serve"
      [] conn \in {"failed", "pfailed"} -> "teardown"
      [] conn = "drainSend" -> "drain"
      [] conn = "drainCons" -> IF again THEN "status" ELSE "dial"

doneConsensus ==
    /\ conn \in ConsDone /\ done = "live" /\ pki = "dispatch"
    /\ done' = "none"
    /\ pki' = IF conn = "sent" THEN "reply" ELSE "direct"
    /\ conn' = afterDone
    /\ again' = (again /\ conn # "drainCons")
    /\ consensusCtx' = IF conn = "failed" THEN abandoned(consensusCtx) ELSE consensusCtx
    /\ UNCHANGED <<connected, queue, doc, app, halt>>

donePacket ==
    /\ conn \in PktDone /\ done = "live" /\ app = "waiting"
    /\ done' = "none"
    /\ app' = "idle"
    /\ conn' = afterDone
    /\ UNCHANGED <<connected, again, queue, consensusCtx, pki, doc, halt>>

replyConsensus ==
    /\ conn = "reply" /\ consensusCtx = "live" /\ pki = "reply"
    /\ pki' = "got"
    /\ conn' = "serve" /\ consensusCtx' = "none"
    /\ UNCHANGED <<connected, again, queue, done, doc, app, halt>>

(* Fault: the pending request is forgotten. *)
forgetConsensus ==
    /\ conn = "teardown"
    /\ consensusCtx' = "none" /\ conn' = "status"
    /\ UNCHANGED <<connected, again, queue, done, pki, doc, app, halt>>

(* Fault: only the shutdown ends the wait for the requester. *)
failConsensusOnHalt ==
    /\ conn = "teardown"
    /\ consensusCtx = "none" \/ connHalted
    /\ consensusCtx' = "none" /\ conn' = "status"
    /\ UNCHANGED <<connected, again, queue, done, pki, doc, app, halt>>

(* onWireConn's first deferred call fails the pending consensus request:   *)
(* it waits for the requester or the shutdown.                             *)
failConsensus ==
    /\ conn = "teardown"
    /\ \/ (consensusCtx = "none" \/ connHalted) /\ UNCHANGED pki
       \/ consensusCtx = "live" /\ pki = "reply" /\ pki' = "direct"
    /\ consensusCtx' = "none" /\ conn' = "status"
    /\ UNCHANGED <<connected, again, queue, done, doc, app, halt>>

(* onConnStatusChange with an error, under the connection's lock: a sender *)
(* waiting on sendCh is told, then a queued consensus request.             *)
onConnStatusChange ==
    /\ conn = "status"
    /\ connected' = FALSE
    /\ IF app = "enqueue"
       THEN conn' = "drainSend" /\ app' = "waiting" /\ done' = "live"
       ELSE conn' = "drain" /\ UNCHANGED <<app, done>>
    /\ UNCHANGED <<again, queue, consensusCtx, pki, doc, halt>>

(* The second select of onConnStatusChange.  It is called by onWireConn    *)
(* and, after it, by doConnect.                                            *)
drainConsensus ==
    /\ conn = "drain"
    /\ IF queue # "none"
       THEN conn' = "drainCons" /\ done' = queue /\ queue' = "none" /\ UNCHANGED again
       ELSE /\ conn' = IF again THEN "status" ELSE "dial"
            /\ again' = FALSE
            /\ UNCHANGED <<done, queue>>
    /\ UNCHANGED <<connected, consensusCtx, pki, doc, app, halt>>

-----------------------------------------------------------------------------
(* The PKI worker. *)

(* The timer or forceUpdateCh wakes the worker. *)
wake ==
    /\ pki = "wait"
    /\ \/ pkiHalted /\ pki' = "halted"
       \/ doc = "missing" /\ pki' = "enter"
    /\ UNCHANGED <<connVars, doc, app, halt>>

getConsensus ==
    /\ pki = "enter" /\ ~connLock
    /\ pki' = IF connected THEN "enqueue" ELSE "direct"
    /\ UNCHANGED <<connVars, doc, app, halt>>

enqueueConsensus ==
    /\ pki = "enqueue"
    /\ \/ queue = "none" /\ queue' = "live" /\ pki' = "dispatch"
       \/ connHalted /\ pki' = "direct" /\ UNCHANGED queue
    /\ UNCHANGED <<conn, connected, again, consensusCtx, done, doc, app, halt>>

(* HaltCh or the cancelled context ends the wait for errCh or replyCh.     *)
abandonConsensus ==
    /\ pki \in {"dispatch", "reply"} /\ connHalted
    /\ pki' = "direct"
    /\ queue' = abandoned(queue)
    /\ consensusCtx' = abandoned(consensusCtx)
    /\ done' = IF conn \in ConsDone THEN abandoned(done) ELSE done
    /\ UNCHANGED <<conn, connected, again, doc, app, halt>>

(* A document was fetched, for the current epoch unless the epoch has      *)
(* ended meanwhile.                                                        *)
store == pki' = "readLock" /\ doc' \in {"stored", doc}

(* getDocument has the provider's answer: a document, ConsensusGone        *)
(* (remembered as a hard failure) or ConsensusNotFound.                    *)
onResponse ==
    /\ pki = "got"
    /\ \/ store
       \/ pki' = "wait" /\ doc' \in {"failed", doc}
       \/ pki' = "direct" /\ UNCHANGED doc
    /\ UNCHANGED <<connVars, app, halt>>

(* getDocumentDirect asks the authorities. *)
getDocumentDirect ==
    /\ pki = "direct"
    /\ IF pkiHalted
       THEN pki' = "halted" /\ UNCHANGED doc
       ELSE \/ store
            \/ pki' = "wait" /\ doc' \in {"failed", doc}
    /\ UNCHANGED <<connVars, app, halt>>

(* onPKIFetch: CurrentDocument takes the Client's lock to read, and        *)
(* setPollInterval to write.                                               *)
onPKIFetch ==
    /\ ~clientLock
    /\ \/ pki = "readLock" /\ pki' = "writeLock"
       \/ pki = "writeLock" /\ pki' = "wait"
    /\ UNCHANGED <<connVars, doc, app, halt>>

(* The next epoch begins. *)
tick ==
    /\ doc' = "missing"
    /\ UNCHANGED <<connVars, pki, app, halt>>

-----------------------------------------------------------------------------
(* The application. *)

sendPacket ==
    /\ app = "idle" /\ ~connLock /\ connected
    /\ app' = "enqueue"
    /\ UNCHANGED <<connVars, pki, doc, halt>>

(* sendPacket returns ErrShutdown from either of its selects. *)
abandonPacket ==
    /\ app # "idle" /\ connHalted
    /\ app' = "idle"
    /\ done' = IF conn \in PktDone THEN abandoned(done) ELSE done
    /\ UNCHANGED <<conn, connected, again, queue, consensusCtx, pki, doc, halt>>

(* Shutdown: conn.Halt(), then pki.Halt() under the Client's lock. *)
shutdown ==
    /\ \/ halt = "no" /\ halt' = "conn"
       \/ halt = "conn" /\ conn = "halted" /\ halt' = "pki"
       \/ halt = "pki" /\ pki = "halted" /\ halt' = "complete"
    /\ UNCHANGED <<connVars, pki, doc, app>>

(* The connection worker, but for the packets that it sends. *)
connStep ==
    \/ connectWorker \/ doConnect \/ onNetConn \/ onGetConsensus \/ onConsensus
    \/ wireError \/ doneConsensus \/ replyConsensus \/ failConsensus
    \/ onConnStatusChange \/ drainConsensus

pkiWorker ==
    \/ wake \/ getConsensus \/ enqueueConsensus \/ abandonConsensus
    \/ onResponse \/ getDocumentDirect \/ onPKIFetch

-----------------------------------------------------------------------------
(* A requester that waits for an answer is never forgotten: as long as the *)
(* client is not shut down, the connection worker holds the request the    *)
(* PKI worker waits for, and is about to answer the packet the application *)
(* waits for, through every teardown of a connection.                      *)
NotForgotten ==
    ~connHalted =>
        /\ pki = "dispatch" => queue = "live" \/ (conn \in ConsDone /\ done = "live")
        /\ pki = "reply" => consensusCtx = "live"
        /\ app = "waiting" => conn \in PktDone /\ done = "live"

(* A connection that breaks is torn down: onWireConn returns, OnConnFn     *)
(* reports the reason and the client dials again (client.go:70-74), unless *)
(* the pending consensus request is one whose requester has been told that *)
(* it could not be sent.                                                   *)
TornDown ==
    conn = "teardown" /\ consensusCtx # "stale" ~>
        conn \in {"dial", "wait", "halted"} \/ connHalted

(* Shutdown returns ("Shutdown cleanly shuts down a given Client           *)
(* instance.", client.go:177), unless the connection worker calls the      *)
(* doneFn, or answers on the replyCh, of a request whose requester has     *)
(* left on HaltCh, or the PKI worker waits in onPKIFetch for the lock that *)
(* Shutdown holds.                                                         *)
ShutdownCompletes ==
    halt = "conn" ~> \/ halt = "complete" \/ done = "stale"
                     \/ (conn = "reply" /\ consensusCtx = "stale")
                     \/ (halt = "pki" /\ pki \in {"readLock", "writeLock"})
=============================================================================
