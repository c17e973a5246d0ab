------------------------------ MODULE NodePKI ------------------------------
(***************************************************************************)
(* The PKI worker of the mixes (server/internal/pki, pkicache), the client *)
(* with which it posts descriptors and fetches documents                   *)
(* (authority/voting/client), and the links between mixes that depend on   *)
(* the documents: the connector and its connections                        *)
(* (server/internal/outgoing), with the authentication of both ends.       *)
(***************************************************************************)
EXTENDS Directory

CONSTANTS
    NumMixKeys      \* constants.NumMixKeys: epochs that a mix key is valid for

ASSUME NodeAssumption == NumMixKeys \in Nat \ {0}

VARIABLES
    nd,             \* nd[n]: the PKI state of mix n
    link            \* link[m][n]: the outgoing connection of m to n

nodeVars == <<nd, link>>
vars == <<now, au, faults, well, nd, link>>

(* A mix: its documents, the epochs it has given up on (failedFetches),    *)
(* lastPublishedEpoch, when its timer fires, whether it has been awake in  *)
(* this eighth, the epochs that it has yet to ask for in this turn of its  *)
(* loop, and whether this turn has brought a document.                     *)
newNode == [up |-> TRUE, docs |-> {}, failed |-> {}, published |-> 0,
            wake |-> now, ran |-> FALSE, todo |-> {}, updated |-> FALSE]

noLink == [st |-> "none", send |-> FALSE, recv |-> FALSE]

(* The network starts, or has been running. *)
Init ==
    /\ \/ DirColdInit /\ nd = [n \in Nodes |-> newNode]
       \/ \E layer \in generateRandomTopology(Mixes) :
             /\ DirRunningInit(layer)
             /\ nd = [n \in Nodes |-> [newNode EXCEPT !.docs = runningDocs(layer),
                                                     !.published = 3]]
    /\ link = [m \in Nodes |-> [n \in Nodes |-> noLink]]

-----------------------------------------------------------------------------
(* What a mix reads in its documents. *)

(* pkicache: n is in the layer after m's, so m dials n (outgoingLayer),    *)
(* and n expects m (incomingLayer).  Providers are not modelled.           *)
Feeds(d, m, n) == /\ {m, n} \subseteq Listed(d)
                  /\ d.layer[n] = d.layer[m] + 1

(* Less than pkiEarlyConnectSlack, earlySendSlack or PublishDeadline, all  *)
(* of them Period/8, are left of the epoch.                                *)
LastEighth == elapsed >= 7

(* documentsForAuthentication: the documents that count now; the next one  *)
(* in the last eighth of the epoch.                                        *)
authEpochs == (Epoch - NumMixKeys + 1)..(Epoch + (IF LastEighth THEN 1 ELSE 0))

documentsForAuthentication(n) == {d \in nd[n].docs : d.epoch \in authEpochs}

(* The peer of n is listed in n's current document. *)
StillListed(n, peer) ==
    /\ HasDoc(nd[n].docs, Epoch)
    /\ peer \in Listed(DocOf(nd[n].docs, Epoch))

(* AuthenticateConnection, at mix n for its peer: the documents in which   *)
(* the peer is at the other end of the link, and what they allow.          *)
Naming(n, peer, isOutgoing) ==
    {d \in documentsForAuthentication(n) :
       IF isOutgoing THEN Feeds(d, n, peer) ELSE Feeds(d, peer, n)}

(* Fault: no early send slack for incoming connections. *)
noSlack(n, peer, isOutgoing) ==
    \E d \in Naming(n, peer, isOutgoing) :
       \/ d.epoch = Epoch
       \/ d.epoch < Epoch /\ StillListed(n, peer)

canSend(n, peer, isOutgoing) ==
    \E d \in Naming(n, peer, isOutgoing) :
       \/ d.epoch = Epoch
       \/ d.epoch = Epoch + 1 /\ ~isOutgoing /\ LastEighth
       \/ d.epoch < Epoch /\ StillListed(n, peer)

isValid(n, peer, isOutgoing) ==
    \/ canSend(n, peer, isOutgoing)
    \/ \E d \in Naming(n, peer, isOutgoing) : d.epoch = Epoch + 1

(* GetRawConsensus: what n tells a client that asks for the document. *)
GetRawConsensus(n, e) ==
    CASE e \in nd[n].failed -> "none"
      [] e \notin nd[n].failed /\ HasDoc(nd[n].docs, e) -> "document"
      [] OTHER -> IF e < Epoch - 1 THEN "none" ELSE "not cached"

(* OutgoingDestinations. *)
OutgoingDestinations(m) ==
    {n \in Nodes : \E d \in documentsForAuthentication(m) :
        Feeds(d, m, n) /\ (d.epoch < Epoch => StillListed(m, n))}

-----------------------------------------------------------------------------
(* The PKI worker. *)

(* documentsToFetch, without the epochs that have failed. *)
documentsToFetch(r) ==
    {e \in (Epoch - NumMixKeys + 1)..(Epoch + (IF elapsed >= MixPublishDeadline THEN 1 ELSE 0)) :
       ~HasDoc(r.docs, e) /\ e \notin r.failed}

(* pruneFailures and pruneDocuments, at the end of a turn. *)
prune(r) ==
    [r EXCEPT !.failed = {e \in @ : e \in (Epoch - NumMixKeys + 1)..(Epoch + 1)},
              !.docs = {d \in @ : r.updated => d.epoch >= Epoch - NumMixKeys + 1},
              !.updated = FALSE]

(* Fault: the worker sleeps past the beginning of the next epoch. *)
oversleep(r) ==
    IF elapsed >= PublishConsensusDeadline
    THEN IF HasDoc(r.docs, Epoch + 1) THEN Start(Epoch + 1) + 2 ELSE now
    ELSE IF HasDoc(r.docs, Epoch) THEN Start(Epoch) + PublishConsensusDeadline ELSE now

(* updateTimer: when to wake next.  recheckInterval is a quarter of an     *)
(* eighth, so a recheck comes in this eighth, and in the next ones.        *)
updateTimer(r) ==
    IF elapsed >= PublishConsensusDeadline
    THEN IF HasDoc(r.docs, Epoch + 1) THEN Start(Epoch + 1) ELSE now
    ELSE IF HasDoc(r.docs, Epoch) THEN Start(Epoch) + PublishConsensusDeadline ELSE now

(* The turn goes on with the next document, or ends. *)
turn(r) == IF r.todo # {} THEN r
           ELSE LET p == prune(r) IN [p EXCEPT !.wake = updateTimer(p), !.ran = TRUE]

(* The epoch to publish a descriptor for, or 0: a mix that has just        *)
(* started publishes for the current epoch first.                          *)
doPublishEpoch(n) ==
    IF nd[n].published = Epoch + 1 THEN 0
    ELSE IF nd[n].published = Epoch
         THEN IF LastEighth THEN 0 ELSE Epoch + 1
    ELSE Epoch

(* Post: every authority is sent the descriptor, and one that cannot be    *)
(* reached is left out.  Whatever they answer, the epoch counts as         *)
(* published.                                                              *)
Post(n, e, reached) ==
    au' = [a \in Authorities |->
             IF e # 0 /\ au[a].up /\ a \in reached
             THEN onPostDescriptor(au[a], n, e) ELSE au[a]]

(* The timer fires: publishDescriptorIfNeeded, and the list of documents   *)
(* that are needed.                                                        *)
publishDescriptorIfNeeded(n, reached) ==
    /\ nd[n].up /\ nd[n].wake <= now /\ nd[n].todo = {}
    /\ LET e == doPublishEpoch(n)
           r == [nd[n] EXCEPT !.published = IF e = 0 THEN @ ELSE e,
                              !.todo = documentsToFetch(nd[n])]
       IN /\ Post(n, e, reached)
          /\ nd' = [nd EXCEPT ![n] = turn(r)]
    /\ UNCHANGED <<now, link>>

publish(n) ==
    \/ /\ publishDescriptorIfNeeded(n, Authorities)
       /\ UNCHANGED <<faults, well>>
    \/ /\ doPublishEpoch(n) # 0
       /\ \E a \in Authorities : publishDescriptorIfNeeded(n, {a})
       /\ Fault(Epoch + 2)

(* Get asks one authority, drawn at random; when the connection to it      *)
(* breaks before the answer it asks the next one, and after the last one   *)
(* it reports that there is no document.  An authority that does not       *)
(* accept the connection ends the attempt.                                 *)
Answers(e) == {IF au[a].up THEN onGetConsensus(a, e) ELSE "error" : a \in Authorities}

(* pkicache.New: n can use the document only if it is listed in a layer.   *)
newEntry(d, n) == n \in Listed(d) /\ d.layer[n] < Layers

(* No further attempt is made for the epoch. *)
setFailedFetch(r, e) == [r EXCEPT !.failed = @ \cup {e}]

(* One document of the list is asked for, the newest first. *)
fetched(n, answer) ==
    /\ nd[n].up /\ nd[n].todo # {}
    /\ LET e == Max(nd[n].todo)
           r == [nd[n] EXCEPT !.todo = @ \ {e}]
           d == CHOOSE x \in UNION {au[a].docs : a \in Authorities} : x.epoch = e
       IN nd' = [nd EXCEPT ![n] = turn(
            CASE answer = "Gone" -> setFailedFetch(r, e)
              [] answer = "Ok" /\ ~newEntry(d, n) -> setFailedFetch(r, e)
              [] answer = "Ok" /\ newEntry(d, n) ->
                    [r EXCEPT !.docs = @ \cup {d}, !.updated = TRUE]
              [] OTHER -> r)]
    /\ UNCHANGED <<now, au, link>>

Get(n) ==
    \/ /\ nd[n].todo # {}
       /\ \E answer \in Answers(Max(nd[n].todo)) : fetched(n, answer)
       /\ UNCHANGED <<faults, well>>
    \/ fetched(n, "Gone") /\ Fault(Epoch + 2)

-----------------------------------------------------------------------------
(* The links.  link[m][n].st is "none" without a connection object, "dial" *)
(* in its dial loop and "up" after the handshake; "send" is canSend as m   *)
(* last computed it, "recv" is what n last computed for the other end.     *)

(* spawnNewConns: a connection object for every new destination. *)
newPeers(m) == {n \in OutgoingDestinations(m) : link[m][n].st = "none"}

spawnNewConns(m) ==
    /\ nd[m].up /\ newPeers(m) # {}
    /\ link' = [link EXCEPT ![m] = [n \in Nodes |->
                  IF n \in newPeers(m) THEN [@[n] EXCEPT !.st = "dial"] ELSE @[n]]]
    /\ UNCHANGED <<now, au, faults, well, nd>>

(* The link as its two ends see it now. *)
authenticated(m, n) == [st |-> "up", send |-> canSend(m, n, TRUE),
                        recv |-> canSend(n, m, FALSE)]

(* Both ends accept the link. *)
accepted(m, n) == nd[n].up /\ isValid(m, n, TRUE) /\ isValid(n, m, FALSE)

(* One turn of the dial loop: a destination that is not in the documents   *)
(* any more is given up; the handshake succeeds if both ends accept it.    *)
canDial(m, n) == link[m][n].st = "dial" /\ (~isValid(m, n, TRUE) \/ accepted(m, n))

dial(m, n) ==
    /\ nd[m].up /\ canDial(m, n)
    /\ link' = [link EXCEPT ![m][n] = IF isValid(m, n, TRUE) THEN authenticated(m, n)
                                      ELSE noLink]
    /\ UNCHANGED <<now, au, faults, well, nd>>

(* The reauthentication ticker of the outgoing end, and of the incoming    *)
(* end: a link that is not valid is closed, and m goes back to dialling.   *)
closed == [noLink EXCEPT !.st = "dial"]

afterReauth(m, n) == IF isValid(m, n, TRUE)
                     THEN [link[m][n] EXCEPT !.send = canSend(m, n, TRUE)] ELSE closed
afterPeerReauth(m, n) == IF isValid(n, m, FALSE)
                         THEN [link[m][n] EXCEPT !.recv = canSend(n, m, FALSE)] ELSE closed

reauth(m, n) ==
    /\ link[m][n].st = "up"
    /\ \E l \in {afterReauth(m, n), afterPeerReauth(m, n)} :
          l # link[m][n] /\ link' = [link EXCEPT ![m][n] = l]
    /\ UNCHANGED <<now, au, faults, well, nd>>

-----------------------------------------------------------------------------
(* A mix crashes; its connections break, and the peers dial again. *)
crashNode(n) ==
    /\ nd[n].up
    /\ nd' = [nd EXCEPT ![n] = [newNode EXCEPT !.up = FALSE]]
    /\ link' = [m \in Nodes |-> [k \in Nodes |->
                  IF m = n THEN noLink
                  ELSE IF k = n /\ link[m][k].st = "up" THEN closed ELSE link[m][k]]]
    /\ Fault(Epoch + 2)
    /\ UNCHANGED <<now, au>>

(* New, StartWorker: nothing but the keys is on disk. *)
restartNode(n) ==
    /\ ~nd[n].up
    /\ nd' = [nd EXCEPT ![n] = newNode]
    /\ well' = Max({well, Epoch + 3})
    /\ UNCHANGED <<now, au, faults, link>>

(* Everything that is due in this eighth of the epoch has been done. *)
Settled ==
    /\ DirSettled
    /\ \A n \in Nodes :
          IF nd[n].up
          THEN nd[n].todo = {} /\ newPeers(n) = {} /\ (nd[n].wake <= now => nd[n].ran)
          ELSE now < nd[n].wake + MaxOutage
    /\ \A m, n \in Nodes :
          /\ nd[m].up => ~canDial(m, n)
          /\ link[m][n].st = "up" =>
                {afterReauth(m, n), afterPeerReauth(m, n)} = {link[m][n]}

Tick ==
    /\ Settled
    /\ now < Horizon - 1
    /\ now' = now + 1
    /\ nd' = [n \in Nodes |-> [nd[n] EXCEPT !.ran = FALSE]]
    /\ UNCHANGED <<au, faults, well, link>>

nodeStep(n) == \/ publish(n) \/ Get(n) \/ spawnNewConns(n)
               \/ crashNode(n) \/ restartNode(n)
               \/ \E k \in Nodes : dial(n, k) \/ reauth(n, k)

Next ==
    \/ \E a \in Authorities : \/ bootstrap(a) /\ UNCHANGED nodeVars
                              \/ getVote(a) /\ UNCHANGED nodeVars
                              \/ reveal(a) /\ UNCHANGED nodeVars
                              \/ getCertificate(a) /\ UNCHANGED nodeVars
                              \/ getMyConsensus(a) /\ UNCHANGED nodeVars
                              \/ publishInTime(a) /\ UNCHANGED nodeVars
                              \/ publishOverrun(a) /\ UNCHANGED nodeVars
                              \/ crash(a) /\ UNCHANGED nodeVars
                              \/ restart(a) /\ UNCHANGED nodeVars
    \/ \E n \in Nodes : nodeStep(n)
    \/ Tick

Spec == Init /\ [][Next]_vars

-----------------------------------------------------------------------------
(* Nothing is down, and no fault is recent enough to be felt: a mix that   *)
(* starts is listed two epochs later, a round that fails is made good in   *)
(* the epoch after it, and an authority whose step overran an epoch is     *)
(* back four epochs later.                                                 *)
Quiet == /\ Epoch >= well
         /\ \A a \in Authorities : au[a].up
         /\ \A n \in Nodes : nd[n].up

(* Once the faults are over the network works: every authority and every   *)
(* mix has the document of the current epoch, it lists every mix, and      *)
(* every link that it asks for is up with both ends willing, from the      *)
(* first moments of the epoch on (fsm, publishDescriptorIfNeeded, worker,  *)
(* AuthenticateConnection, spawnNewConns).                                 *)
Recovers ==
    Quiet /\ Settled =>
        /\ \A a \in Authorities : HasDoc(au[a].docs, Epoch)
        /\ \A m \in Nodes : GetRawConsensus(m, Epoch) = "document"
        /\ \A m, n \in Nodes :
              LET d == DocOf(nd[m].docs, Epoch)
              IN /\ Listed(d) = Mixes
                 /\ Feeds(d, m, n) => link[m][n] = [st |-> "up", send |-> TRUE, recv |-> TRUE]

(* A mix that sends on a link is heard: the receiving end counts the       *)
(* sender as current whenever the sending end does, also while the epoch   *)
(* changes and each end reauthenticates when it happens to (canSend in     *)
(* outgoing_conn.go and incoming_conn.go, earlySendSlack).                 *)
SentIsHeard ==
    \A m, n \in Nodes :
        link[m][n].st = "up" /\ link[m][n].send => link[m][n].recv
====
